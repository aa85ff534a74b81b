-------------------------- MODULE MCRefreshPipeline --------------------------
(***************************************************************************)
(* Small instances of RefreshPipeline.  The sources follow the real ones:  *)
(* one that knows builds (dotnet.py), one that knows KB numbers and gives  *)
(* hints (msrc.py), one whose rows carry both (windows_release_health.py,  *)
(* sql_server.py).                                                         *)
(***************************************************************************)
EXTENDS RefreshPipeline, TLC

CONSTANTS p1, p2, kb1, kb2, b1, b2, blank, i1, i2, u0, u1, m1, noMonth, e1, e2, d1, noEnd

MCProducts == {p1, p2}
MCKBs      == {kb1, kb2}
MCBuilds   == {b1, b2}
MCInfos    == {i1, i2}
MCUrls     == {u0, u1}
MCMonths   == {m1}
MCMonthOf  == (i1 :> m1) @@ (i2 :> noMonth)
MCErrors   == {e1, e2}
MCEnds     == {d1}

NoHints == [x \in {} |-> {}]
Rel(kb, build, info) == [product |-> p1, kb |-> kb, build |-> build, info |-> info, url |-> u0]
Support(end, ended)   == [end |-> end, ended |-> ended]
Lists(prods)         == [p \in prods |-> Support(noEnd, FALSE)]
Found(prods, rels)   == [raised |-> FALSE, errors |-> <<>>, warned |-> FALSE,
                         products |-> Lists(prods), patches |-> rels, hints |-> NoHints]
Raised  == [Found({}, <<>>) EXCEPT !.raised = TRUE, !.errors = <<e1>>]
\* A release of a product that no source has listed.
Stray == [Rel(kb1, blank, i1) EXCEPT !.product = p2]
HintOn(kb) == <<p1, m1>> :> [kb |-> kb, url |-> u1]

-----------------------------------------------------------------------------
\* Builds and hints: dotnet.py and msrc.py, failing, correcting a release (i1, of
\* month m1, to i2, which has no date), and growing by one.
BuildFetchers == <<"builds", "kbs">>
BuildOffers ==
  [builds |-> {Raised,
               Found({p1}, <<Rel(blank, b1, i1)>>),
               Found({p1}, <<Rel(blank, b1, i2), Rel(blank, b2, i1)>>)},
   kbs    |-> {[Found({}, <<>>) EXCEPT !.warned = TRUE, !.products = p1 :> Support(d1, FALSE)],
               [Found({p1}, <<Rel(kb2, blank, i1), Stray>>) EXCEPT !.hints = HintOn(kb1)]}]

-----------------------------------------------------------------------------
\* The operator at work while the builds, the hints and both-sided rows arrive.
AdminFetchers == <<"builds", "both">>
AdminOffers ==
  [builds |-> {Found({p1}, <<Rel(blank, b1, i1)>>),
               Found({p1}, <<Rel(blank, b1, i1), Rel(blank, b2, i1)>>)},
   both   |-> {[Found({p1}, <<Rel(kb2, b2, i1)>>) EXCEPT !.hints = HintOn(kb1)],
               [Found({}, <<>>) EXCEPT !.errors = <<e1>>]}]
PlainOffers ==
  [builds |-> {Found({p1}, <<Rel(blank, b1, i1)>>)},
   both   |-> {Found({p1}, <<Rel(kb2, b2, i1)>>)}]

\* Corrections: of the KB number and the text, of the text alone, and lifting
\* the protection of a row.
Entry(kb, build, manual) ==
  [kb |-> kb, build |-> build, info |-> i2, url |-> u0, manual |-> manual]
AdminForms == {Entry(blank, b1, TRUE), Entry(kb1, b1, TRUE), Entry(kb2, b2, FALSE)}

\* A run may be killed before its outcome is committed, or at any time.
BeforeTheEnd == PC \ {"notify", "alert"}
Nowhere == {}

\* An operator who leaves the releases, and the rows with a build, to the sources: he
\* corrects, completes and protects their rows, and enters releases of his own.
CarefulAdmin == AdminStep /\ Considerate /\ KeepsReleases /\ KeepsBuilds /\ EditsKeepReleases
CarefulNext  == RefreshStep \/ Crash \/ CarefulAdmin
CarefulSpec  == Init /\ [][CarefulNext]_vars
CarefulForms == {Entry(kb1, blank, TRUE), Entry(kb1, b1, TRUE), Entry(blank, b1, TRUE)}

\* A source that finds a release before another one, of a build the operator
\* entered a second time, stops the run.
LateFetchers == <<"both", "builds">>
LateOffers ==
  [builds |-> {Found({p1}, <<Rel(blank, b1, i1)>>)},
   both   |-> {Found({}, <<>>), Found({p1}, <<Rel(kb2, b2, i1)>>)}]
=============================================================================
