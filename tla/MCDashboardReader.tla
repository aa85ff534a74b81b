-------------------------- MODULE MCDashboardReader --------------------------
(***************************************************************************)
(* A small instance of DashboardReader: a product that grows by a preview  *)
(* of a newer date and loses the date of a release, a product that comes   *)
(* with its first patch while it is read, and an operator.                 *)
(***************************************************************************)
EXTENDS DashboardReader, MCRefreshPipeline

CONSTANTS i3, noDate

ReaderInfos    == {i1, i2, i3}
ReaderMonthOf  == (i1 :> m1) @@ (i2 :> noMonth) @@ (i3 :> m1)
ReaderDateOf   == (i1 :> 1) @@ (i2 :> noDate) @@ (i3 :> 2)
ReaderPreviews == {b2}
NoBuilds       == {}

ReaderFetchers == <<"builds", "both">>
ReaderOffers ==
  [builds |-> {Found({p1}, <<Rel(blank, b1, i1)>>),
               Found({p1}, <<Rel(blank, b1, i2), Rel(blank, b2, i3)>>)},
   both   |-> {Found({p2}, <<[Rel(kb1, b1, i3) EXCEPT !.product = p2]>>)}]

\* A correction of a release's KB number and text that protects the row; a run is
\* killed while it writes.
ReaderForms == {Entry(kb1, b1, TRUE)}
InUpserts   == {"upsert"}
=============================================================================
