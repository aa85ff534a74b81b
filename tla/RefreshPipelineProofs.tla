------------------------ MODULE RefreshPipelineProofs ------------------------
(***************************************************************************)
(* The type invariant of RefreshPipeline, and that a refresh never changes *)
(* what a row protected by manually_edited says of its release, for any    *)
(* sources, results, forms and bounds.                                     *)
(*                                                                         *)
(* The second needs PipelineInv: a row is updated in the open transaction, *)
(* and committed later, so what must be kept in between is that the row in *)
(* "work" still agrees with the committed one if that is protected by then *)
(* (WorkKeepsManual), which holds because the row is locked meanwhile, and *)
(* because a new row's id was never one of a committed row (IdsAreFresh).  *)
(***************************************************************************)
EXTENDS RefreshPipeline, SequenceTheorems, TLAPS

USE DEF dbVars, txnVars, sentVars, adminVars, NoRow

-----------------------------------------------------------------------------
(* Tables *)

LEMMA TableRow == ASSUME NEW t, IsTable(t), NEW id \in DOMAIN t
                  PROVE  id \in Nat /\ t[id] \in Row
BY DEF IsTable

LEMMA EmptyIsTable == IsTable(Empty) /\ DOMAIN Empty = {}
BY DEF IsTable, Empty

LEMMA PutIsTable ==
  ASSUME NEW t, IsTable(t), NEW id \in Nat, NEW r \in Row
  PROVE  /\ IsTable(Put(t, id, r)) /\ DOMAIN Put(t, id, r) = DOMAIN t \cup {id}
         /\ Put(t, id, r)[id] = r
         /\ \A i \in DOMAIN t : i # id => Put(t, id, r)[i] = t[i]
BY DEF IsTable, Put

LEMMA DropIsTable ==
  ASSUME NEW t, IsTable(t), NEW id
  PROVE  /\ IsTable(Drop(t, id)) /\ DOMAIN Drop(t, id) = DOMAIN t \ {id}
         /\ \A i \in DOMAIN t : i # id => Drop(t, id)[i] = t[i]
BY DEF IsTable, Drop

LEMMA OverlayIsTable ==
  ASSUME NEW t, NEW w, IsTable(t), IsTable(w)
  PROVE  /\ IsTable(Overlay(t, w)) /\ DOMAIN Overlay(t, w) = DOMAIN t \cup DOMAIN w
         /\ \A i \in DOMAIN w : Overlay(t, w)[i] = w[i]
         /\ \A i \in DOMAIN t : i \notin DOMAIN w => Overlay(t, w)[i] = t[i]
BY DEF IsTable, Overlay

\* dict.update, of the hints.
LEMMA HintsUnite ==
  ASSUME NEW h \in Hints, NEW g \in Hints
  PROVE  Overlay(h, g) \in Hints
<1>1. PICK D \in SUBSET (Products \X Months) : h \in [D -> Hint]
  BY DEF Hints
<1>2. PICK E \in SUBSET (Products \X Months) : g \in [E -> Hint]
  BY DEF Hints
<1> HIDE DEF Hint
<1>3. Overlay(h, g) \in [D \cup E -> Hint]
  BY <1>1, <1>2 DEF Overlay
<1>4. D \cup E \in SUBSET (Products \X Months)
  BY <1>1, <1>2
<1> QED
  BY <1>3, <1>4 DEF Hints

LEMMA NoHints == Empty \in Hints
<1>1. Empty \in [{} -> Hint]
  BY DEF Empty
<1>2. {} \in SUBSET (Products \X Months)
  OBVIOUS
<1> QED
  BY <1>1, <1>2 DEF Hints

\* The products an open transaction has written, and the table with them.
LEMMA NoListings == Empty \in Listings
<1>1. Empty \in [{} -> About]
  BY DEF Empty
<1>2. {} \in SUBSET Products
  OBVIOUS
<1> QED
  BY <1>1, <1>2 DEF Listings

LEMMA ListingsUpserted ==
  ASSUME NEW t \in Listings, NEW l \in Listings
  PROVE  /\ Upserted(t, l) \in Listings /\ Overlay(t, l) \in Listings
         /\ DOMAIN Upserted(t, l) = DOMAIN l
         /\ \A p \in DOMAIN l : /\ Upserted(t, l)[p].ended = l[p].ended
                                /\ Upserted(t, l)[p].end = IF l[p].end = NoEnd /\ p \in DOMAIN t
                                                          THEN t[p].end ELSE l[p].end
<1>1. PICK D \in SUBSET Products : t \in [D -> About]
  BY DEF Listings
<1>2. PICK E \in SUBSET Products : l \in [E -> About]
  BY DEF Listings
<1>3. Upserted(t, l) \in [E -> About]
  BY <1>1, <1>2 DEF Upserted, About
<1>4. Overlay(t, l) \in [D \cup E -> About]
  <2> HIDE DEF About
  <2> QED
    BY <1>1, <1>2 DEF Overlay
<1>5. \A p \in DOMAIN l : /\ Upserted(t, l)[p].ended = l[p].ended
                          /\ Upserted(t, l)[p].end = IF l[p].end = NoEnd /\ p \in DOMAIN t
                                                    THEN t[p].end ELSE l[p].end
  BY <1>1, <1>2 DEF Upserted, About
<1> QED
  BY <1>1, <1>2, <1>3, <1>4, <1>5 DEF Listings

LEMMA ListingsUnite ==
  ASSUME NEW t \in Listings, NEW l \in Listings
  PROVE  Overlay(t, l) \in Listings
BY ListingsUpserted

LEMMA ListedIsProduct ==
  ASSUME NEW t \in Listings, NEW p \in DOMAIN t
  PROVE  p \in Products /\ t[p] \in About
BY DEF Listings

\* What a hint says of a row, and which rows it is for.
LEMMA HintRowsTyped ==
  ASSUME NEW t, IsTable(t), NEW hints \in Hints
  PROVE  HintsFor(t, hints) \subseteq HintRow
<1>1. PICK D \in SUBSET (Products \X Months) : hints \in [D -> Hint]
  BY DEF Hints
<1> SUFFICES ASSUME NEW x \in HintsFor(t, hints)
             PROVE  x \in HintRow
  OBVIOUS
<1>2. PICK id \in DOMAIN t :
        LET m == <<t[id].product, MonthOf[t[id].info]>>
        IN m \in D /\ x = [id |-> id, kb |-> hints[m].kb, url |-> hints[m].url]
  BY <1>1 DEF HintsFor
<1>3. id \in Nat
  BY TableRow
<1> QED
  BY <1>1, <1>2, <1>3 DEF Hint, HintRow

-----------------------------------------------------------------------------
(* Locals *)

LEMMA IdleRunTyped == IdleRun \in Locals /\ NoResult \in Result
<1>1. NoResult \in Result
  BY NoHints, NoListings DEF NoResult, Result
<1> QED
  BY <1>1, NoHints DEF IdleRun, Locals

LEMMA RunTyped ==
  ASSUME TypeOK
  PROVE  /\ run \in Locals /\ run.res \in Result /\ run.src \in Nat \ {0} /\ run.at \in Nat \ {0}
         /\ run.notices \in Seq(Key) /\ run.errors \in Seq(Errors) /\ run.found \in Nat
         /\ run.touched \subseteq Products /\ run.hints \in Hints /\ run.hintRows \subseteq HintRow
         /\ run.res.patches \in Seq(Item) /\ run.res.products \in Listings
         /\ run.res.errors \in Seq(Errors) /\ run.res.hints \in Hints
BY DEF TypeOK, Locals, Result

LEMMA ItemTyped ==
  ASSUME NEW it \in Item
  PROVE  /\ KeyOf(it) \in Key /\ Scraped(it) \in Row /\ it.product \in Products
         /\ \A r \in Row : /\ RefreshedByBuild(r, it) \in Row /\ KeepsManual(r, RefreshedByBuild(r, it))
                           /\ RefreshedByKey(r, it) \in Row   /\ KeepsManual(r, RefreshedByKey(r, it))
BY DEF Item, Key, KeyOf, Row, Scraped, RefreshedByBuild, RefreshedByKey, KeepsManual

LEMMA CurrentTyped ==
  ASSUME TypeOK, run.at \in DOMAIN run.res.patches
  PROVE  Current \in Item
BY RunTyped DEF Current

LEMMA ViewTyped ==
  ASSUME TypeOK
  PROVE  /\ IsTable(View) /\ DOMAIN View = DOMAIN patches \cup DOMAIN work
         /\ \A i \in DOMAIN work : View[i] = work[i]
         /\ \A i \in DOMAIN patches : i \notin DOMAIN work => View[i] = patches[i]
BY OverlayIsTable DEF TypeOK, View

\* The locals as fetch() returns, and as the source is committed.
Returned(l, r, e, b, h) ==
  [l EXCEPT !.res = r, !.at = 1, !.errors = e, !.before = b, !.hints = h]
LEMMA ReturnedTyped ==
  ASSUME NEW l \in Locals, NEW r \in Result, NEW e \in Seq(Errors), NEW b \in Nat, NEW h \in Hints
  PROVE  /\ Returned(l, r, e, b, h) \in Locals
         /\ Returned(l, r, e, b, h).src = l.src /\ Returned(l, r, e, b, h).before = b
         /\ Returned(l, r, e, b, h).notices = l.notices
<1>1. 1 \in Nat \ {0}
  OBVIOUS
<1> QED
  BY ONLY <1>1, l \in Locals, r \in Result, e \in Seq(Errors), b \in Nat, h \in Hints DEF Locals, Returned

LEMMA CommittedTyped ==
  ASSUME NEW l \in Locals, NEW s \in Nat \ {0}
  PROVE  LET m == [l EXCEPT !.src = s, !.res = NoResult, !.at = 1, !.before = 0]
         IN m \in Locals /\ m.before = 0 /\ m.notices = l.notices
<1>1. 1 \in Nat \ {0} /\ 0 \in Nat /\ NoResult \in Result
  BY IdleRunTyped
<1> QED
  BY ONLY <1>1, l \in Locals, s \in Nat \ {0} DEF Locals

\* What Touch, Advance and Announce make of the locals.
LEMMA AdvanceTyped ==
  ASSUME NEW r \in Locals
  PROVE  Advance(r) \in Locals
<1>1. r.at + 1 \in Nat \ {0}
  BY DEF Locals
<1> DEFINE at == r.at + 1
<1> HIDE DEF at
<1>2. [r EXCEPT !.at = at, !.found = 0] \in Locals
  BY <1>1 DEF Locals, at
<1> QED
  BY <1>2 DEF Advance, at

LEMMA TouchTyped ==
  ASSUME NEW r \in Locals, Current \in Item
  PROVE  Touch(r) \in Locals /\ Touch(r).src = r.src /\ Touch(r).at = r.at /\ Touch(r).res = r.res
         /\ Touch(r).before = r.before /\ Touch(r).notices = r.notices
<1>1. Current.product \in Products
  BY ItemTyped
<1> QED
  BY <1>1 DEF Touch, Locals

LEMMA AnnounceTyped ==
  ASSUME NEW r \in Locals, Current \in Item
  PROVE  Announce(r) \in Locals
<1>1. KeyOf(Current) \in Key /\ r.notices \in Seq(Key)
  BY ItemTyped DEF Locals
<1>2. Append(r.notices, KeyOf(Current)) \in Seq(Key)
  BY <1>1, AppendProperties
<1> QED
  BY <1>2 DEF Announce, Locals

LEMMA StepsKeepSource ==
  ASSUME NEW r \in Locals
  PROVE  /\ Advance(r).src = r.src /\ Advance(r).res = r.res
         /\ Advance(r).before = r.before /\ Advance(r).notices = r.notices
         /\ Announce(r).src = r.src /\ Announce(r).res = r.res /\ Announce(r).before = r.before
         /\ Announce(r).notices = Append(r.notices, KeyOf(Current))
BY DEF Advance, Announce, Locals

-----------------------------------------------------------------------------
(* What the open transaction holds *)

LEMMA KeepsManualTransitive ==
  ASSUME NEW a, NEW b, NEW c, KeepsManual(a, b), KeepsManual(b, c)
  PROVE  KeepsManual(a, c)
BY DEF KeepsManual

LEMMA ViewKeepsManual ==
  ASSUME PipelineInv, NEW id \in DOMAIN patches
  PROVE  id \in DOMAIN View /\ KeepsManual(patches[id], View[id])
BY ViewTyped DEF PipelineInv, WorkKeepsManual, KeepsManual

LEMMA WorkStays ==
  ASSUME PipelineInv, UNCHANGED <<patches, work, nextId>>
  PROVE  IdsAreFresh' /\ WorkKeepsManual'
BY DEF PipelineInv, IdsAreFresh, WorkKeepsManual

LEMMA WorkEnds ==
  ASSUME PipelineInv, work' = Empty, nextId' = nextId, patches' \in {patches, View}
  PROVE  IdsAreFresh' /\ WorkKeepsManual'
<1>1. DOMAIN patches' \subseteq DOMAIN patches \cup DOMAIN work /\ DOMAIN work' = {}
  BY ViewTyped, EmptyIsTable DEF PipelineInv
<1>2. IdsAreFresh'
  BY <1>1 DEF PipelineInv, IdsAreFresh
<1>3. WorkKeepsManual'
  BY <1>1 DEF WorkKeepsManual
<1> QED
  BY <1>2, <1>3

\* A statement writes one row, under an id it has seen or the next one.
LEMMA WorkPuts ==
  ASSUME PipelineInv, NEW id \in Nat, NEW r \in Row, patches' = patches,
         work' = Put(work, id, r), nextId' \in {nextId, nextId + 1}, id < nextId',
         id \in DOMAIN View => KeepsManual(View[id], r)
  PROVE  IsTable(work') /\ IdsAreFresh' /\ WorkKeepsManual'
<1>1. /\ IsTable(work') /\ DOMAIN work' = DOMAIN work \cup {id}
      /\ work'[id] = r /\ \A i \in DOMAIN work : i # id => work'[i] = work[i]
  <2>1. IsTable(work)
    BY DEF PipelineInv, TypeOK
  <2> QED
    BY <2>1, PutIsTable
<1>2. IdsAreFresh'
  <2>1. nextId \in Nat /\ DOMAIN patches \subseteq Nat /\ DOMAIN work \subseteq Nat
    BY DEF PipelineInv, TypeOK, IsTable
  <2> QED
    BY <1>1, <2>1 DEF PipelineInv, IdsAreFresh
<1>3. WorkKeepsManual'
  <2>1. ASSUME NEW i \in DOMAIN patches \cap DOMAIN work'
        PROVE  KeepsManual(patches[i], work'[i])
    <3>1. CASE i = id
      BY <3>1, <1>1, ViewKeepsManual, KeepsManualTransitive
    <3>2. CASE i # id
      BY <3>2, <1>1 DEF PipelineInv, WorkKeepsManual
    <3> QED
      BY <3>1, <3>2
  <2> QED
    BY <2>1 DEF WorkKeepsManual
<1> QED
  BY <1>1, <1>2, <1>3

-----------------------------------------------------------------------------
(* The steps of a run *)

LEMMA InitEstablishes == Init => PipelineInv
<1> SUFFICES ASSUME Init
             PROVE  PipelineInv
  OBVIOUS
<1>1. TypeOK
  BY EmptyIsTable, NoListings, IdleRunTyped DEF Init, TypeOK, PC
<1>2. Positions
  BY DEF Init, Positions, IdleRun
<1>3. IdsAreFresh /\ WorkKeepsManual
  BY EmptyIsTable DEF Init, IdsAreFresh, WorkKeepsManual
<1> QED
  BY <1>1, <1>2, <1>3 DEF PipelineInv

LEMMA StartKeeps == PipelineInv /\ StartRun => PipelineInv'
<1> SUFFICES ASSUME PipelineInv, StartRun
             PROVE  PipelineInv'
  OBVIOUS
<1>1. IdsAreFresh' /\ WorkKeepsManual'
  BY WorkStays DEF StartRun
<1> DEFINE row == [status |-> "running", new |-> 0, errors |-> <<>>]
<1>2. row \in RunRow /\ runs' = Append(runs, row)
  BY DEF StartRun, RunRow
<1> HIDE DEF row
<1>3. runs' \in Seq(RunRow)
  BY <1>2, AppendProperties DEF PipelineInv, TypeOK
<1>4. run' \in Locals /\ run'.before = 0 /\ run'.notices = <<>>
  BY IdleRunTyped DEF StartRun, Locals, IdleRun
<1>5. TypeOK'
  BY <1>3, <1>4 DEF StartRun, PipelineInv, TypeOK, PC
<1>6. Positions'
  BY <1>4 DEF StartRun, Positions
<1> QED
  BY <1>1, <1>5, <1>6 DEF PipelineInv

LEMMA SourceRowTyped ==
  ASSUME TypeOK, run.src \in DOMAIN Fetchers, NEW n \in Nat,
         NEW s \in {"success", "warning", "partial", "error"}
  PROVE  Append(sources, SourceRow(s, n)) \in Seq(SourceType)
<1>1. Len(runs) \in Nat /\ Fetchers[run.src] \in DOMAIN Offers
  BY FetchersAssumption DEF TypeOK
<1>2. SourceRow(s, n) \in SourceType
  BY <1>1 DEF SourceRow, SourceType
<1> QED
  BY <1>2, AppendProperties DEF TypeOK

LEMMA OfferTyped ==
  ASSUME TypeOK, run.src <= Len(Fetchers)
  PROVE  run.src \in DOMAIN Fetchers /\ Offers[Fetchers[run.src]] \subseteq Result
<1>1. run.src \in DOMAIN Fetchers
  BY RunTyped, FetchersAssumption
<1> QED
  BY <1>1, FetchersAssumption

LEMMA RaisesKeeps == PipelineInv /\ FetchRaises => PipelineInv'
<1> SUFFICES ASSUME PipelineInv, FetchRaises
             PROVE  PipelineInv'
  OBVIOUS
<1>1. IdsAreFresh' /\ WorkKeepsManual'
  BY WorkStays DEF FetchRaises
<1>2. TypeOK /\ run.src \in DOMAIN Fetchers
  BY OfferTyped DEF PipelineInv, FetchRaises
<1>3. PICK r \in Result : run' = [run EXCEPT !.errors = @ \o r.errors, !.src = @ + 1]
  BY <1>2, OfferTyped DEF FetchRaises
<1>4. run.errors \o r.errors \in Seq(Errors) /\ run.src + 1 \in Nat \ {0}
  BY <1>2, RunTyped, ConcatProperties DEF Result
<1>5. run' \in Locals /\ run'.before = run.before /\ run'.notices = run.notices
  <2> DEFINE e == run.errors \o r.errors
             n == run.src + 1
  <2>1. run' = [run EXCEPT !.errors = e, !.src = n]
    BY <1>3
  <2> HIDE DEF e, n
  <2> QED
    BY <1>2, <1>4, <2>1 DEF e, n, TypeOK, Locals
<1>6. sources' \in Seq(SourceType)
  BY <1>2, SourceRowTyped DEF FetchRaises
<1>7. TypeOK'
  BY <1>5, <1>6 DEF FetchRaises, PipelineInv, TypeOK
<1>8. Positions'
  BY <1>5 DEF FetchRaises, PipelineInv, Positions
<1> QED
  BY <1>1, <1>7, <1>8 DEF PipelineInv

LEMMA ReturnsKeeps == PipelineInv /\ FetchReturns => PipelineInv'
<1> SUFFICES ASSUME PipelineInv, FetchReturns
             PROVE  PipelineInv'
  OBVIOUS
<1>1. IdsAreFresh' /\ WorkKeepsManual'
  BY WorkStays DEF FetchReturns
<1>2. TypeOK /\ run.src \in DOMAIN Fetchers
  BY OfferTyped DEF PipelineInv, FetchReturns
<1>3. PICK r \in Result :
        /\ newProducts' = Upserted(products, r.products)
        /\ run' = [run EXCEPT !.res = r, !.at = 1, !.errors = @ \o r.errors,
                              !.before = Len(run.notices), !.hints = Overlay(@, r.hints)]
  BY <1>2, OfferTyped DEF FetchReturns
<1> DEFINE e == run.errors \o r.errors
           h == Overlay(run.hints, r.hints)
           b == Len(run.notices)
<1>4. e \in Seq(Errors) /\ h \in Hints /\ b \in Nat /\ newProducts' \in Listings
  BY <1>2, <1>3, RunTyped, HintsUnite, ListingsUpserted, ConcatProperties DEF Result, TypeOK
<1>5. run' = Returned(run, r, e, b, h)
  BY <1>3 DEF Returned
<1>6. run' \in Locals /\ run'.src = run.src /\ run'.before = b /\ run'.notices = run.notices
  <2>1. run \in Locals
    BY <1>2 DEF TypeOK
  <2>2. r \in Result
    BY <1>3
  <2> HIDE DEF e, h, b
  <2> QED
    BY ONLY <2>1, <2>2, <1>4, <1>5, ReturnedTyped
<1>7. TypeOK'
  BY <1>4, <1>6 DEF FetchReturns, PipelineInv, TypeOK, PC
<1>8. Positions'
  BY <1>2, <1>4, <1>6 DEF FetchReturns, Positions
<1> QED
  BY <1>1, <1>7, <1>8 DEF PipelineInv

LEMMA CommitKeeps == PipelineInv /\ CommitSource => PipelineInv'
<1> SUFFICES ASSUME PipelineInv, CommitSource
             PROVE  PipelineInv'
  OBVIOUS
<1>1. IdsAreFresh' /\ WorkKeepsManual'
  BY WorkEnds DEF CommitSource
<1>2. TypeOK /\ Positions
  BY DEF PipelineInv
<1>3. SourceStatus \in {"success", "warning", "partial", "error"}
  BY DEF SourceStatus
<1>4. Len(run.notices) - run.before \in Nat /\ run.src \in DOMAIN Fetchers
  BY <1>2, RunTyped DEF Positions, CommitSource, TypeOK, Locals
<1>5. sources' \in Seq(SourceType)
  BY <1>2, <1>3, <1>4, SourceRowTyped DEF CommitSource
<1>6. run' \in Locals /\ run'.before = 0 /\ run'.notices = run.notices
  <2>1. run.src + 1 \in Nat \ {0}
    BY <1>2, RunTyped
  <2>2. run \in Locals
    BY <1>2 DEF TypeOK
  <2> QED
    BY <2>1, <2>2, CommittedTyped DEF CommitSource
<1>7. IsTable(patches') /\ IsTable(work')
  BY <1>2, ViewTyped, EmptyIsTable DEF CommitSource
<1>8. products' \in Listings /\ newProducts' \in Listings
  BY <1>2, ListingsUnite, NoListings DEF CommitSource, TypeOK
<1>9. TypeOK'
  BY <1>2, <1>5, <1>6, <1>7, <1>8 DEF CommitSource, TypeOK, PC
<1>10. Positions'
  BY <1>2, <1>6, RunTyped DEF CommitSource, Positions
<1> QED
  BY <1>1, <1>9, <1>10 DEF PipelineInv

-----------------------------------------------------------------------------
(* _upsert_patch *)

LEMMA AtItemFacts ==
  ASSUME PipelineInv, AtItem \/ pc \in {"insertBuild", "refreshBuild", "refreshKey"}
  PROVE  /\ run.at \in DOMAIN run.res.patches /\ run.src \in DOMAIN Fetchers
         /\ Current \in Item /\ run \in Locals
         /\ run.before <= Len(run.notices) /\ run.before \in Nat /\ run.notices \in Seq(Key)
<1>1. TypeOK /\ Positions
  BY DEF PipelineInv
<1>2. run.at \in DOMAIN run.res.patches /\ run.src \in DOMAIN Fetchers
  BY <1>1, RunTyped DEF AtItem, Positions
<1> QED
  BY <1>1, <1>2, CurrentTyped, RunTyped DEF TypeOK, Positions, Locals

LEMMA SkipKeeps == PipelineInv /\ SkipUnknownProduct => PipelineInv'
<1> SUFFICES ASSUME PipelineInv, SkipUnknownProduct
             PROVE  PipelineInv'
  OBVIOUS
<1>1. IdsAreFresh' /\ WorkKeepsManual'
  BY WorkStays DEF SkipUnknownProduct
<1>2. /\ run' \in Locals /\ run'.src = run.src /\ run'.before = run.before
      /\ run'.notices = run.notices
  BY AtItemFacts, AdvanceTyped, StepsKeepSource DEF SkipUnknownProduct
<1>3. TypeOK'
  BY <1>2 DEF SkipUnknownProduct, PipelineInv, TypeOK
<1>4. Positions'
  BY <1>2, AtItemFacts DEF SkipUnknownProduct, Positions, AtItem
<1> QED
  BY <1>1, <1>3, <1>4 DEF PipelineInv

\* existing_id is set.
Found(r, id) == [r EXCEPT !.found = id]
LEMMA FoundTyped ==
  ASSUME NEW r \in Locals, NEW id \in Nat
  PROVE  /\ Found(r, id) \in Locals /\ Found(r, id).src = r.src /\ Found(r, id).at = r.at
         /\ Found(r, id).res = r.res /\ Found(r, id).before = r.before
         /\ Found(r, id).notices = r.notices
BY DEF Locals, Found

LEMMA SelectKeeps == PipelineInv /\ SelectByBuild => PipelineInv'
<1> SUFFICES ASSUME PipelineInv, SelectByBuild
             PROVE  PipelineInv'
  OBVIOUS
<1>1. IdsAreFresh' /\ WorkKeepsManual'
  BY WorkStays DEF SelectByBuild
<1>2. AtItem /\ TypeOK /\ Positions
  BY DEF SelectByBuild, PipelineInv
<1>3. Touch(run) \in Locals
  BY <1>2, AtItemFacts, TouchTyped
<1>4. /\ run' \in Locals /\ run'.src = run.src /\ run'.at = run.at /\ run'.res = run.res
      /\ run'.before = run.before /\ run'.notices = run.notices
      /\ pc' \in {"insertBuild", "refreshBuild", "aborted"}
  <2>1. CASE pc' = "insertBuild" /\ run' = Touch(run)
    BY <2>1, <1>2, AtItemFacts, TouchTyped
  <2>2. ASSUME NEW id \in WithBuild(View, Current.product, Current.build),
               pc' = "refreshBuild", run' = [Touch(run) EXCEPT !.found = id]
        PROVE  /\ run' \in Locals /\ run'.src = run.src /\ run'.at = run.at /\ run'.res = run.res
               /\ run'.before = run.before /\ run'.notices = run.notices
    <3>1. id \in Nat
      BY <1>2, ViewTyped, TableRow DEF WithBuild
    <3>2. run' = Found(Touch(run), id)
      BY <2>2 DEF Found
    <3>3. /\ Touch(run).src = run.src /\ Touch(run).at = run.at /\ Touch(run).res = run.res
          /\ Touch(run).before = run.before /\ Touch(run).notices = run.notices
      BY <1>2, AtItemFacts, TouchTyped
    <3> QED
      BY ONLY <1>3, <3>1, <3>2, <3>3, FoundTyped
  <2>3. CASE pc' = "aborted" /\ run' = run
    BY <2>3, <1>2, AtItemFacts
  <2> QED
    BY <2>1, <2>2, <2>3 DEF SelectByBuild
<1>5. TypeOK'
  BY <1>2, <1>4 DEF SelectByBuild, TypeOK, PC
<1>6. Positions'
  BY <1>2, <1>4, AtItemFacts DEF Positions
<1> QED
  BY <1>1, <1>5, <1>6 DEF PipelineInv

\* An inserted row is new to the table and to the transaction.
LEMMA InsertKeeps ==
  ASSUME PipelineInv, AtItem \/ pc = "insertBuild", NEW t \in Locals, Insert(t),
         t.src = run.src, t.before = run.before, t.notices = run.notices,
         UNCHANGED <<dbVars, newProducts, sentVars, adminVars>>
  PROVE  PipelineInv'
<1>1. TypeOK /\ Positions /\ Current \in Item
  BY AtItemFacts DEF PipelineInv
<1>2. nextId \in Nat /\ nextId' = nextId + 1 /\ nextId < nextId'
  BY <1>1 DEF Insert, TypeOK
<1>3. nextId \notin DOMAIN View
  BY <1>1, <1>2, ViewTyped DEF PipelineInv, IdsAreFresh
<1>4. Scraped(Current) \in Row
  BY <1>1, ItemTyped
<1>5. work' = Put(work, nextId, Scraped(Current)) /\ patches' = patches
  BY DEF Insert
<1>6. IsTable(work') /\ IdsAreFresh' /\ WorkKeepsManual'
  BY <1>2, <1>3, <1>4, <1>5, WorkPuts
<1>7. /\ run' \in Locals /\ run'.src = run.src /\ run'.before = run.before
      /\ run'.notices = Append(run.notices, KeyOf(Current))
  BY <1>1, AnnounceTyped, AdvanceTyped, StepsKeepSource DEF Insert
<1>8. pc' = "upsert"
  BY DEF Insert
<1>9. TypeOK'
  BY <1>1, <1>2, <1>6, <1>7, <1>8 DEF TypeOK, PC
<1>10. run'.before <= Len(run'.notices)
  BY <1>1, <1>7, AtItemFacts, ItemTyped, AppendProperties
<1>11. Positions'
  BY <1>7, <1>8, <1>10, AtItemFacts DEF Positions
<1> QED
  BY <1>6, <1>9, <1>11 DEF PipelineInv

LEMMA InsertBuildKeeps == PipelineInv /\ InsertByBuild => PipelineInv'
<1> SUFFICES ASSUME PipelineInv, InsertByBuild
             PROVE  PipelineInv'
  OBVIOUS
<1>1. CASE Insert(run)
  BY <1>1, AtItemFacts, InsertKeeps DEF InsertByBuild
<1>2. CASE pc' = "aborted" /\ UNCHANGED <<work, nextId, run>>
  <2>1. IdsAreFresh' /\ WorkKeepsManual'
    BY <1>2, WorkStays DEF InsertByBuild
  <2> QED
    BY <1>2, <2>1 DEF InsertByBuild, PipelineInv, TypeOK, PC, Positions
<1> QED
  BY <1>1, <1>2 DEF InsertByBuild

LEMMA OnConflictKeeps == PipelineInv /\ InsertOnConflict => PipelineInv'
<1> SUFFICES ASSUME PipelineInv, InsertOnConflict
             PROVE  PipelineInv'
  OBVIOUS
<1>1. /\ AtItem /\ Current \in Item /\ run \in Locals
  BY AtItemFacts DEF InsertOnConflict
<1>2. /\ Touch(run) \in Locals /\ Touch(run).src = run.src /\ Touch(run).at = run.at
      /\ Touch(run).res = run.res /\ Touch(run).before = run.before
      /\ Touch(run).notices = run.notices
  BY <1>1, TouchTyped
<1>3. CASE Insert(Touch(run))
  BY <1>1, <1>2, <1>3, InsertKeeps DEF InsertOnConflict
<1>4. CASE pc' = "refreshKey" /\ run' = Touch(run) /\ UNCHANGED <<work, nextId>>
  <2>1. IdsAreFresh' /\ WorkKeepsManual'
    BY <1>4, WorkStays DEF InsertOnConflict
  <2>2. TypeOK'
    BY <1>2, <1>4 DEF InsertOnConflict, PipelineInv, TypeOK, PC
  <2>3. Positions'
    BY <1>1, <1>2, <1>4, AtItemFacts DEF Positions
  <2> QED
    BY <2>1, <2>2, <2>3 DEF PipelineInv
<1> QED
  BY <1>3, <1>4 DEF InsertOnConflict

\* After its last statement the item is done.
LEMMA AdvanceKeeps ==
  ASSUME PipelineInv, pc \in {"refreshBuild", "refreshKey"},
         IsTable(work'), IdsAreFresh', WorkKeepsManual',
         run' = Advance(run), pc' = "upsert",
         UNCHANGED <<dbVars, newProducts, nextId, sentVars, adminVars>>
  PROVE  PipelineInv'
<1>1. /\ run' \in Locals /\ run'.src = run.src /\ run'.before = run.before
      /\ run'.notices = run.notices
  BY AtItemFacts, AdvanceTyped, StepsKeepSource
<1>2. TypeOK'
  BY <1>1 DEF PipelineInv, TypeOK, PC
<1>3. Positions'
  BY <1>1, AtItemFacts DEF Positions
<1> QED
  BY <1>2, <1>3 DEF PipelineInv

LEMMA RefreshBuildKeeps == PipelineInv /\ RefreshByBuild => PipelineInv'
<1> SUFFICES ASSUME PipelineInv, RefreshByBuild
             PROVE  PipelineInv'
  OBVIOUS
<1>1. pc = "refreshBuild" /\ Current \in Item /\ TypeOK
  BY AtItemFacts DEF RefreshByBuild, PipelineInv
<1>2. CASE run.found \in DOMAIN View
  <2> DEFINE id == run.found
             r  == RefreshedByBuild(View[id], Current)
  <2>1. id \in Nat /\ View[id] \in Row
    BY <1>1, <1>2, ViewTyped, TableRow
  <2>2. r \in Row /\ KeepsManual(View[id], r)
    BY <1>1, <2>1, ItemTyped
  <2>3. id < nextId
    BY <1>1, <1>2, ViewTyped DEF PipelineInv, IdsAreFresh
  <2>4. work' = Put(work, id, r) /\ UNCHANGED <<patches, nextId>>
    BY <1>2 DEF RefreshByBuild
  <2> HIDE DEF id, r
  <2>5. IsTable(work') /\ IdsAreFresh' /\ WorkKeepsManual'
    BY <2>1, <2>2, <2>3, <2>4, WorkPuts
  <2> QED
    BY <1>1, <2>5, AdvanceKeeps DEF RefreshByBuild
<1>3. CASE run.found \notin DOMAIN View
  <2>1. UNCHANGED <<patches, work, nextId>>
    BY <1>3 DEF RefreshByBuild
  <2>2. IsTable(work') /\ IdsAreFresh' /\ WorkKeepsManual'
    BY <1>1, <2>1, WorkStays DEF TypeOK
  <2> QED
    BY <1>1, <2>2, AdvanceKeeps DEF RefreshByBuild
<1> QED
  BY <1>2, <1>3

LEMMA RefreshKeyKeeps == PipelineInv /\ RefreshByKey => PipelineInv'
<1> SUFFICES ASSUME PipelineInv, RefreshByKey
             PROVE  PipelineInv'
  OBVIOUS
<1>1. pc = "refreshKey" /\ Current \in Item /\ TypeOK
  BY AtItemFacts DEF RefreshByKey, PipelineInv
<1> DEFINE ids == WithKey(View, KeyOf(Current))
<1>2. ids \subseteq DOMAIN View /\ \A id \in DOMAIN View : id \in Nat /\ View[id] \in Row
  BY <1>1, ViewTyped, TableRow DEF WithKey
<1>3. work' = [id \in DOMAIN work \cup ids |->
                 IF id \in ids THEN RefreshedByKey(View[id], Current) ELSE work[id]]
  BY DEF RefreshByKey
<1> HIDE DEF ids
<1>4. DOMAIN work' = DOMAIN work \cup ids
  BY <1>3
<1>5. \A id \in DOMAIN work' : id \in Nat /\ id \in DOMAIN View /\ work'[id] \in Row
                               /\ KeepsManual(View[id], work'[id])
  <2>1. ASSUME NEW id \in ids
        PROVE  work'[id] \in Row /\ KeepsManual(View[id], work'[id])
    BY <1>1, <1>2, <1>3, ItemTyped
  <2>2. ASSUME NEW id \in DOMAIN work, id \notin ids
        PROVE  work'[id] \in Row /\ KeepsManual(View[id], work'[id])
    <3>1. work'[id] = View[id] /\ id \in DOMAIN View
      BY <1>1, <1>3, <2>2, ViewTyped
    <3> QED
      BY <1>2, <3>1 DEF KeepsManual
  <2> QED
    BY <1>1, <1>2, <1>4, <2>1, <2>2, ViewTyped
<1>6. IsTable(work')
  BY <1>3, <1>4, <1>5 DEF IsTable
<1>7. UNCHANGED <<patches, nextId>>
  BY DEF RefreshByKey
<1>8. IdsAreFresh'
  BY <1>1, <1>5, <1>7, ViewTyped DEF PipelineInv, IdsAreFresh
<1>9. WorkKeepsManual'
  BY <1>5, <1>7, ViewKeepsManual, KeepsManualTransitive DEF WorkKeepsManual
<1> QED
  BY <1>1, <1>6, <1>8, <1>9, AdvanceKeeps DEF RefreshByKey

-----------------------------------------------------------------------------
(* The KB hints and the end of a run *)

HintRowsOf(r, rows) == [r EXCEPT !.hintRows = rows]
LEMMA HintRowsOfTyped ==
  ASSUME NEW r \in Locals, NEW rows \in SUBSET HintRow
  PROVE  /\ HintRowsOf(r, rows) \in Locals
         /\ HintRowsOf(r, rows).before = r.before /\ HintRowsOf(r, rows).notices = r.notices
BY DEF Locals, HintRowsOf

LEMMA SelectHintsKeeps == PipelineInv /\ SelectHintRows => PipelineInv'
<1> SUFFICES ASSUME PipelineInv, SelectHintRows
             PROVE  PipelineInv'
  OBVIOUS
<1>1. IdsAreFresh' /\ WorkKeepsManual'
  BY WorkStays DEF SelectHintRows
<1>2. TypeOK /\ Positions /\ run \in Locals
  BY DEF PipelineInv, TypeOK
<1>3. HintsFor(View, run.hints) \in SUBSET HintRow
  BY <1>2, ViewTyped, RunTyped, HintRowsTyped
<1>4. run' = HintRowsOf(run, HintsFor(View, run.hints))
  BY DEF SelectHintRows, HintRowsOf
<1>5. run' \in Locals /\ run'.before = run.before /\ run'.notices = run.notices
  BY <1>2, <1>3, <1>4, HintRowsOfTyped
<1>6. TypeOK'
  BY <1>2, <1>5 DEF SelectHintRows, TypeOK, PC
<1>7. Positions'
  BY <1>2, <1>5 DEF SelectHintRows, Positions
<1> QED
  BY <1>1, <1>6, <1>7 DEF PipelineInv

\* A hint changes the KB number and its URL, nothing of what is protected.
LEMMA HintedTyped ==
  ASSUME NEW row \in Row, NEW h \in HintRow
  PROVE  /\ [row EXCEPT !.kb = h.kb, !.url = h.url] \in Row
         /\ KeepsManual(row, [row EXCEPT !.kb = h.kb, !.url = h.url])
BY DEF Row, HintRow, KeepsManual

LEMMA ApplyHintKeeps == PipelineInv /\ ApplyHint => PipelineInv'
<1> SUFFICES ASSUME PipelineInv, ApplyHint
             PROVE  PipelineInv'
  OBVIOUS
<1>1. TypeOK /\ Positions /\ run \in Locals /\ run.hintRows \subseteq HintRow /\ pc = "hints"
  BY RunTyped DEF PipelineInv, TypeOK, ApplyHint
<1>2. PICK h \in run.hintRows :
        LET hinted == [View[h.id] EXCEPT !.kb = h.kb, !.url = h.url]
            done   == [run EXCEPT !.hintRows = @ \ {h}]
        IN \/ run' = done /\ UNCHANGED <<work, pc>>
           \/ /\ h.id \in DOMAIN View
              /\ work' = Put(work, h.id, hinted)
              /\ run' = done /\ UNCHANGED pc
           \/ pc' = "aborted" /\ UNCHANGED <<work, run>>
  BY DEF ApplyHint, Hinted
<1> DEFINE hinted == [View[h.id] EXCEPT !.kb = h.kb, !.url = h.url]
<1>3. IsTable(work') /\ IdsAreFresh' /\ WorkKeepsManual'
  <2>1. CASE UNCHANGED work
    BY <1>1, <2>1, WorkStays DEF ApplyHint, TypeOK
  <2>2. CASE h.id \in DOMAIN View /\ work' = Put(work, h.id, hinted)
    <3>1. h.id \in Nat /\ View[h.id] \in Row /\ h \in HintRow
      BY <1>1, <2>2, ViewTyped, TableRow
    <3>2. hinted \in Row /\ KeepsManual(View[h.id], hinted)
      BY <3>1, HintedTyped
    <3>3. h.id < nextId /\ UNCHANGED <<patches, nextId>>
      BY <1>1, <2>2, ViewTyped DEF PipelineInv, IdsAreFresh, ApplyHint
    <3> HIDE DEF hinted
    <3> QED
      BY <2>2, <3>1, <3>2, <3>3, WorkPuts
  <2> QED
    BY <1>2, <2>1, <2>2
<1>4. run' \in Locals /\ run'.before = run.before /\ run'.notices = run.notices
  <2>1. run' = run \/ run' = HintRowsOf(run, run.hintRows \ {h})
    BY <1>2 DEF HintRowsOf
  <2>2. run.hintRows \ {h} \in SUBSET HintRow
    BY <1>1
  <2> QED
    BY <1>1, <2>1, <2>2, HintRowsOfTyped
<1>5. pc' \in {"hints", "aborted"}
  BY <1>1, <1>2
<1>6. TypeOK'
  BY <1>1, <1>3, <1>4, <1>5 DEF ApplyHint, TypeOK, PC
<1>7. Positions'
  BY <1>1, <1>4, <1>5 DEF Positions
<1> QED
  BY <1>3, <1>6, <1>7 DEF PipelineInv

LEMMA CommitHintsKeeps == PipelineInv /\ CommitHints => PipelineInv'
<1> SUFFICES ASSUME PipelineInv, CommitHints
             PROVE  PipelineInv'
  OBVIOUS
<1>1. IdsAreFresh' /\ WorkKeepsManual'
  BY WorkEnds DEF CommitHints
<1>2. IsTable(patches') /\ IsTable(work')
  BY ViewTyped, EmptyIsTable DEF CommitHints, PipelineInv
<1>3. TypeOK'
  BY <1>2 DEF CommitHints, PipelineInv, TypeOK, PC
<1>4. Positions'
  BY DEF CommitHints, PipelineInv, Positions
<1> QED
  BY <1>1, <1>3, <1>4 DEF PipelineInv

Alerting(r, b) == [r EXCEPT !.alert = b]
LEMMA FinishKeeps == PipelineInv /\ FinishRun => PipelineInv'
<1> SUFFICES ASSUME PipelineInv, FinishRun
             PROVE  PipelineInv'
  OBVIOUS
<1>1. IdsAreFresh' /\ WorkKeepsManual'
  BY WorkStays DEF FinishRun
<1>2. TypeOK /\ Positions /\ run \in Locals /\ runs \in Seq(RunRow)
  BY DEF PipelineInv, TypeOK
<1> DEFINE row == [status |-> RunStatus, new |-> Len(run.notices), errors |-> run.errors]
<1>3. row \in RunRow
  BY <1>2, RunTyped DEF RunRow, RunStatus
<1>4. runs' = [runs EXCEPT ![Len(runs)] = row]
  BY DEF FinishRun
<1> HIDE DEF row
<1>5. runs' \in Seq(RunRow)
  <2>1. CASE Len(runs) \in 1 .. Len(runs)
    BY <1>2, <1>3, <1>4, <2>1, ExceptSeq
  <2>2. CASE Len(runs) \notin 1 .. Len(runs)
    <3>1. DOMAIN runs = {} /\ runs = <<>>
      BY <1>2, <2>2
    <3>2. runs' = runs
      BY <1>4, <3>1
    <3> QED
      BY <1>2, <3>2
  <2> QED
    BY <2>1, <2>2
<1>6. \A b \in BOOLEAN : /\ Alerting(run, b) \in Locals
                         /\ Alerting(run, b).before = run.before
                         /\ Alerting(run, b).notices = run.notices
  BY <1>2 DEF Alerting, Locals
<1>7. run' = Alerting(run, run.errors # <<>> /\ run.errors # PreviousErrors)
  BY DEF FinishRun, Alerting
<1>8. run' \in Locals /\ run'.before = run.before /\ run'.notices = run.notices
  BY <1>6, <1>7
<1>9. TypeOK'
  BY <1>2, <1>5, <1>8 DEF FinishRun, TypeOK, PC
<1>10. Positions'
  BY <1>2, <1>8 DEF FinishRun, Positions
<1> QED
  BY <1>1, <1>9, <1>10 DEF PipelineInv

LEMMA NotifyKeeps == PipelineInv /\ NotifyNewPatches => PipelineInv'
<1> SUFFICES ASSUME PipelineInv, NotifyNewPatches
             PROVE  PipelineInv'
  OBVIOUS
<1>1. IdsAreFresh' /\ WorkKeepsManual'
  BY WorkStays DEF NotifyNewPatches
<1>2. TypeOK /\ Positions
  BY DEF PipelineInv
<1> DEFINE push == [run |-> Len(runs), notices |-> run.notices]
           Push == [run : Nat, notices : Seq(Key)]
<1>3. push \in Push /\ pushes \in Seq(Push)
  BY <1>2, RunTyped DEF TypeOK
<1>4. pushes' = Append(pushes, push) \/ pushes' = pushes
  BY DEF NotifyNewPatches
<1>5. pushes' \in Seq(Push)
  <2> HIDE DEF push, Push
  <2> QED
    BY <1>3, <1>4, AppendProperties
<1>6. TypeOK'
  BY <1>2, <1>5 DEF NotifyNewPatches, TypeOK, PC
<1>7. Positions'
  BY <1>2 DEF NotifyNewPatches, Positions
<1> QED
  BY <1>1, <1>6, <1>7 DEF PipelineInv

LEMMA IdlePositions ==
  ASSUME run' = IdleRun, pc' = "idle"
  PROVE  Positions' /\ run' \in Locals
BY IdleRunTyped DEF Positions, IdleRun

LEMMA AlertKeeps == PipelineInv /\ NotifyFetchErrors => PipelineInv'
<1> SUFFICES ASSUME PipelineInv, NotifyFetchErrors
             PROVE  PipelineInv'
  OBVIOUS
<1>1. IdsAreFresh' /\ WorkKeepsManual'
  BY WorkStays DEF NotifyFetchErrors
<1>2. alerts' \in Seq(Nat)
  BY AppendProperties DEF NotifyFetchErrors, PipelineInv, TypeOK
<1>3. TypeOK'
  BY <1>2, IdlePositions DEF NotifyFetchErrors, PipelineInv, TypeOK, PC
<1> QED
  BY <1>1, <1>3, IdlePositions DEF NotifyFetchErrors, PipelineInv

\* An exception or a crash takes back what was not committed.
LEMMA RollbackKeeps == PipelineInv /\ (Unwind \/ Crash) => PipelineInv'
<1> SUFFICES ASSUME PipelineInv, Unwind \/ Crash
             PROVE  PipelineInv'
  OBVIOUS
<1>1. IdsAreFresh' /\ WorkKeepsManual'
  BY WorkEnds DEF Unwind, Crash
<1>2. TypeOK'
  BY IdlePositions, EmptyIsTable, NoListings DEF Unwind, Crash, PipelineInv, TypeOK, PC
<1> QED
  BY <1>1, <1>2, IdlePositions DEF Unwind, Crash, PipelineInv

-----------------------------------------------------------------------------
(* The operator: no row of the open transaction is written *)

\* One row changes that the refresh has not written, or one is added.
LEMMA TableChanges ==
  ASSUME PipelineInv, UNCHANGED <<work, newProducts, products, runs, sources, pc, run, pushes, alerts>>,
         IsTable(patches'), nextId' \in {nextId, nextId + 1},
         DOMAIN patches' \subseteq DOMAIN patches \cup {nextId' - 1},
         \A i \in DOMAIN patches' : i \in DOMAIN work => i \in DOMAIN patches /\ patches'[i] = patches[i],
         edits' \subseteq Edit, adminOps' \in Nat, corrections' \in Nat
  PROVE  PipelineInv'
<1>1. TypeOK'
  BY DEF PipelineInv, TypeOK
<1>2. nextId \in Nat /\ \A id \in DOMAIN patches \cup DOMAIN work : id \in Nat
  BY DEF PipelineInv, TypeOK, IsTable
<1>3. IdsAreFresh'
  BY <1>2 DEF PipelineInv, IdsAreFresh
<1>4. WorkKeepsManual'
  BY DEF PipelineInv, WorkKeepsManual
<1>5. Positions'
  BY DEF PipelineInv, Positions
<1> QED
  BY <1>1, <1>3, <1>4, <1>5 DEF PipelineInv

LEMMA CreateKeeps == PipelineInv /\ AdminCreate => PipelineInv'
<1> SUFFICES ASSUME PipelineInv, AdminCreate
             PROVE  PipelineInv'
  OBVIOUS
<1>1. PICK row \in Row : patches' = Put(patches, nextId, row)
  <2>1. PICK p \in DOMAIN products, f \in Forms :
          LET row == [product |-> p, kb |-> f.kb, build |-> f.build,
                      info |-> f.info, url |-> f.url, manual |-> f.manual]
          IN patches' = Put(patches, nextId, row)
    BY DEF AdminCreate
  <2>2. f \in Form /\ p \in Products
    BY FormsAssumption, ListedIsProduct DEF PipelineInv, TypeOK
  <2> QED
    BY <2>1, <2>2 DEF Form, Row
<1>2. nextId \in Nat /\ nextId' = nextId + 1 /\ IsTable(patches)
  BY DEF AdminCreate, PipelineInv, TypeOK
<1>3. /\ IsTable(patches') /\ DOMAIN patches' = DOMAIN patches \cup {nextId}
      /\ \A i \in DOMAIN patches : i # nextId => patches'[i] = patches[i]
  BY <1>1, <1>2, PutIsTable
<1>4. nextId \notin DOMAIN patches \cup DOMAIN work
  BY <1>2 DEF PipelineInv, IdsAreFresh
<1>5. /\ UNCHANGED <<work, newProducts, products, runs, sources, pc, run, pushes, alerts>>
      /\ edits' \subseteq Edit /\ adminOps' \in Nat /\ corrections' \in Nat
  BY <1>1 DEF AdminCreate, OperatorActs, PipelineInv, TypeOK
<1>6. /\ DOMAIN patches' \subseteq DOMAIN patches \cup {nextId' - 1}
      /\ \A i \in DOMAIN patches' : i \in DOMAIN work => i \in DOMAIN patches /\ patches'[i] = patches[i]
  BY <1>2, <1>3, <1>4
<1> QED
  BY <1>2, <1>3, <1>5, <1>6, TableChanges

LEMMA OpenKeeps == PipelineInv /\ AdminOpen => PipelineInv'
<1> SUFFICES ASSUME PipelineInv, AdminOpen
             PROVE  PipelineInv'
  OBVIOUS
<1>1. edits' \subseteq Edit
  <2>1. PICK id \in DOMAIN patches, f \in Forms :
          edits' = edits \cup {[id |-> id, loaded |-> patches[id], form |-> f]}
    BY DEF AdminOpen
  <2>2. id \in Nat /\ patches[id] \in Row /\ f \in Form /\ edits \subseteq Edit
    BY FormsAssumption, TableRow DEF PipelineInv, TypeOK
  <2> QED
    BY <2>1, <2>2 DEF Edit
<1>2. IdsAreFresh' /\ WorkKeepsManual'
  BY WorkStays DEF AdminOpen
<1>3. TypeOK' /\ Positions'
  BY <1>1 DEF AdminOpen, OperatorActs, PipelineInv, TypeOK, Positions
<1> QED
  BY <1>2, <1>3 DEF PipelineInv

LEMMA ChangedTyped ==
  ASSUME NEW row \in Row, NEW loaded, NEW f \in Form
  PROVE  Changed(row, loaded, f) \in Row
BY DEF Changed, Row, Form

LEMMA StoreKeeps == PipelineInv /\ AdminStore => PipelineInv'
<1> SUFFICES ASSUME PipelineInv, AdminStore
             PROVE  PipelineInv'
  OBVIOUS
<1>1. /\ IsTable(patches) /\ edits \subseteq Edit /\ corrections \in Nat
      /\ nextId \in Nat /\ adminOps \in Nat
  BY DEF PipelineInv, TypeOK
<1>2. PICK e \in edits :
        LET row == Changed(patches[e.id], e.loaded, e.form) IN
        /\ e.id \notin DOMAIN work
        /\ edits' = edits \ {e}
        /\ \/ UNCHANGED <<patches, corrections>>
           \/ /\ e.id \in DOMAIN patches
              /\ patches' = Put(patches, e.id, row)
              /\ corrections' = corrections + 1
  BY DEF AdminStore
<1>3. UNCHANGED <<products, runs, sources, work, newProducts, nextId, pc, run, pushes, alerts, adminOps>>
  BY DEF AdminStore
<1>4. edits' \subseteq Edit
  BY <1>1, <1>2
<1>5. CASE UNCHANGED <<patches, corrections>>
  <2>1. IdsAreFresh' /\ WorkKeepsManual'
    BY <1>3, <1>5, WorkStays
  <2> QED
    BY <1>3, <1>4, <1>5, <2>1 DEF PipelineInv, TypeOK, Positions
<1>6. CASE /\ e.id \in DOMAIN patches
           /\ patches' = Put(patches, e.id, Changed(patches[e.id], e.loaded, e.form))
           /\ corrections' = corrections + 1
  <2>1. e.id \in Nat /\ patches[e.id] \in Row /\ e.form \in Form
    BY <1>1, <1>6, TableRow DEF Edit
  <2>2. Changed(patches[e.id], e.loaded, e.form) \in Row
    BY <2>1, ChangedTyped
  <2>3. /\ IsTable(patches') /\ DOMAIN patches' = DOMAIN patches
        /\ \A i \in DOMAIN patches : i # e.id => patches'[i] = patches[i]
    <3> DEFINE r == Changed(patches[e.id], e.loaded, e.form)
    <3>1. r \in Row /\ patches' = Put(patches, e.id, r)
      BY <1>6, <2>2
    <3> HIDE DEF r
    <3>2. /\ IsTable(Put(patches, e.id, r)) /\ DOMAIN Put(patches, e.id, r) = DOMAIN patches \cup {e.id}
          /\ \A i \in DOMAIN patches : i # e.id => Put(patches, e.id, r)[i] = patches[i]
      BY <1>1, <2>1, <3>1, PutIsTable
    <3> QED
      BY <1>6, <3>1, <3>2
  <2>4. \A i \in DOMAIN patches' : i \in DOMAIN work => i \in DOMAIN patches /\ patches'[i] = patches[i]
    BY <1>2, <2>3
  <2>5. corrections' \in Nat
    BY <1>1, <1>6
  <2> QED
    BY <1>1, <1>3, <1>4, <2>3, <2>4, <2>5, TableChanges
<1> QED
  BY <1>2, <1>5, <1>6

\* A deadlock takes nothing but an edit, or the rest of the run.
LEMMA DeadlockKeeps == PipelineInv /\ (DeadlockAborts \/ EditAborts) => PipelineInv'
<1> SUFFICES ASSUME PipelineInv, DeadlockAborts \/ EditAborts
             PROVE  PipelineInv'
  OBVIOUS
<1>1. UNCHANGED <<dbVars, txnVars, nextId, run, sentVars, adminOps, corrections>>
  BY DEF DeadlockAborts, EditAborts, adminVars
<1>2. edits' \subseteq edits /\ (pc' = pc \/ pc' = "aborted")
  BY DEF DeadlockAborts, EditAborts, adminVars
<1>3. IdsAreFresh' /\ WorkKeepsManual'
  BY <1>1, WorkStays DEF dbVars, txnVars
<1>4. TypeOK'
  BY <1>1, <1>2 DEF PipelineInv, TypeOK, PC, dbVars, txnVars, sentVars
<1>5. Positions'
  BY <1>1, <1>2 DEF PipelineInv, Positions
<1> QED
  BY <1>3, <1>4, <1>5 DEF PipelineInv

LEMMA DeleteKeeps == PipelineInv /\ AdminDelete => PipelineInv'
<1> SUFFICES ASSUME PipelineInv, AdminDelete
             PROVE  PipelineInv'
  OBVIOUS
<1>1. PICK id \in DOMAIN patches \ DOMAIN work : patches' = Drop(patches, id)
  BY DEF AdminDelete
<1>2. /\ IsTable(patches') /\ DOMAIN patches' \subseteq DOMAIN patches
      /\ \A i \in DOMAIN patches' : i \in DOMAIN work => i \in DOMAIN patches /\ patches'[i] = patches[i]
  BY <1>1, DropIsTable DEF PipelineInv, TypeOK
<1>3. /\ UNCHANGED <<work, newProducts, products, runs, sources, pc, run, pushes, alerts, nextId>>
      /\ edits' \subseteq Edit /\ adminOps' \in Nat /\ corrections' \in Nat
  BY DEF AdminDelete, OperatorActs, PipelineInv, TypeOK
<1> QED
  BY <1>2, <1>3, TableChanges

-----------------------------------------------------------------------------
(* The theorems *)

LEMMA NextKeeps == PipelineInv /\ [Next]_vars => PipelineInv'
<1>1. PipelineInv /\ UNCHANGED vars => PipelineInv'
  <2> SUFFICES ASSUME PipelineInv, UNCHANGED vars
               PROVE  PipelineInv'
    OBVIOUS
  <2>1. IdsAreFresh' /\ WorkKeepsManual'
    BY WorkStays DEF vars
  <2> QED
    BY <2>1 DEF vars, PipelineInv, TypeOK, Positions
<1> QED
  BY <1>1, StartKeeps, RaisesKeeps, ReturnsKeeps, CommitKeeps, SkipKeeps, SelectKeeps,
     InsertBuildKeeps, RefreshBuildKeeps, OnConflictKeeps, RefreshKeyKeeps, SelectHintsKeeps,
     ApplyHintKeeps, CommitHintsKeeps, FinishKeeps, NotifyKeeps, AlertKeeps, RollbackKeeps,
     CreateKeeps, OpenKeeps, StoreKeeps, DeadlockKeeps, DeleteKeeps DEF Next, RefreshStep, AdminStep

\* Committed and uncommitted rows, and the locals of a run, agree in every
\* reachable state.
THEOREM PipelineInvariant == Spec => []PipelineInv
BY InitEstablishes, NextKeeps, PTL DEF Spec

\* Every table holds rows of its type, whatever the sources return and the operator
\* submits.
THEOREM TypeInvariant == Spec => []TypeOK
<1>1. PipelineInv => TypeOK
  BY DEF PipelineInv
<1> QED
  BY <1>1, PipelineInvariant, PTL

\* A refresh never changes what a row protected by manually_edited says of its
\* release, for any sources, any edits and any interleaving of the two.
THEOREM ManualInfoIsKept == Spec => ManualInfoSurvives
<1>1. PipelineInv /\ [Next]_vars => [RefreshStep => InfoSurvives]_vars
  <2> SUFFICES ASSUME PipelineInv, RefreshStep
               PROVE  InfoSurvives
    OBVIOUS
  <2>1. CASE patches' = patches
    BY <2>1 DEF InfoSurvives, KeepsManual
  <2>2. CASE patches' = View
    BY <2>2, ViewKeepsManual DEF InfoSurvives
  <2> QED
    BY <2>1, <2>2 DEF RefreshStep, StartRun, FetchRaises, FetchReturns, CommitSource,
      SkipUnknownProduct, SelectByBuild, InsertByBuild, RefreshByBuild, InsertOnConflict,
      RefreshByKey, SelectHintRows, ApplyHint, CommitHints, FinishRun, NotifyNewPatches,
      NotifyFetchErrors, DeadlockAborts, Unwind
<1> QED
  BY <1>1, PipelineInvariant, PTL DEF Spec, ManualInfoSurvives

-----------------------------------------------------------------------------
(* The products *)

Upserting == {"upsert", "insertBuild", "refreshBuild", "refreshKey"}

\* While a source's patches are upserted, its products have been, on top of the
\* table as it is: nobody else writes products.
Written == pc \in Upserting => newProducts = Upserted(products, run.res.products)

LEMMA StepsKeepResult ==
  ASSUME NEW r \in Locals
  PROVE  /\ Touch(r).res = r.res /\ Advance(r).res = r.res /\ Announce(r).res = r.res
         /\ Advance(Announce(r)).res = r.res /\ Advance(Announce(Touch(r))).res = r.res
BY DEF Touch, Advance, Announce, Locals

\* A step within the upserts leaves the products and the result alone.
LEMMA UpsertsKeepResult ==
  ASSUME TypeOK,
         \/ SkipUnknownProduct \/ SelectByBuild \/ InsertByBuild
         \/ RefreshByBuild \/ InsertOnConflict \/ RefreshByKey
  PROVE  UNCHANGED <<products, newProducts>> /\ run'.res = run.res
<1>1. run \in Locals
  BY DEF TypeOK
<1>2. CASE SkipUnknownProduct
  BY <1>1, <1>2, StepsKeepResult DEF SkipUnknownProduct
<1>3. CASE SelectByBuild
  <2>1. \/ run' = Touch(run)
        \/ run' = run
        \/ \E id \in WithBuild(View, Current.product, Current.build) :
              run' = [Touch(run) EXCEPT !.found = id]
    BY ONLY <1>3, Zenon DEF SelectByBuild
  <2>2. \A id : [Touch(run) EXCEPT !.found = id].res = Touch(run).res
    BY <1>1 DEF Touch, Locals
  <2>3. run'.res = run.res
    <3>1. Touch(run).res = run.res
      BY <1>1, StepsKeepResult
    <3> HIDE DEF Touch
    <3> QED
      BY ONLY <2>1, <2>2, <3>1
  <2>4. UNCHANGED <<products, newProducts>>
    BY ONLY <1>3 DEF SelectByBuild, dbVars, txnVars
  <2> QED
    BY ONLY <2>3, <2>4
<1>4. CASE InsertByBuild
  BY <1>1, <1>4, StepsKeepResult DEF InsertByBuild, Insert
<1>5. CASE RefreshByBuild
  BY <1>1, <1>5, StepsKeepResult DEF RefreshByBuild
<1>6. CASE InsertOnConflict
  BY <1>1, <1>6, StepsKeepResult DEF InsertOnConflict, Insert
<1>7. CASE RefreshByKey
  BY <1>1, <1>7, StepsKeepResult DEF RefreshByKey
<1> QED
  BY <1>2, <1>3, <1>4, <1>5, <1>6, <1>7

LEMMA WrittenKeeps == TypeOK /\ Written /\ [Next]_vars => Written'
<1> SUFFICES ASSUME TypeOK, Written, [Next]_vars
             PROVE  Written'
  OBVIOUS
<1>1. CASE \/ SkipUnknownProduct \/ SelectByBuild \/ InsertByBuild
           \/ RefreshByBuild \/ InsertOnConflict \/ RefreshByKey
  <2>1. pc \in Upserting
    BY <1>1 DEF Upserting, AtItem, SkipUnknownProduct, SelectByBuild, InsertByBuild,
                RefreshByBuild, InsertOnConflict, RefreshByKey
  <2> QED
    BY <1>1, <2>1, UpsertsKeepResult DEF Written
<1>2. CASE FetchReturns
  <2>1. run \in Locals
    BY DEF TypeOK
  <2>2. PICK r : /\ newProducts' = Upserted(products, r.products)
                 /\ run' = [run EXCEPT !.res = r, !.at = 1, !.errors = @ \o r.errors,
                                       !.before = Len(run.notices), !.hints = Overlay(@, r.hints)]
    BY <1>2 DEF FetchReturns
  <2>3. run'.res = r
    BY <2>1, <2>2 DEF Locals
  <2> QED
    BY <1>2, <2>2, <2>3 DEF FetchReturns, Written
<1>3. CASE \/ StartRun \/ FetchRaises \/ CommitSource \/ SelectHintRows \/ ApplyHint
           \/ CommitHints \/ FinishRun \/ NotifyNewPatches \/ NotifyFetchErrors \/ DeadlockAborts \/ Unwind \/ Crash
  BY <1>3 DEF Written, Upserting, StartRun, FetchRaises, CommitSource, SelectHintRows, ApplyHint,
     CommitHints, FinishRun, NotifyNewPatches, NotifyFetchErrors, DeadlockAborts, Unwind, Crash
<1>4. CASE AdminStep \/ UNCHANGED vars
  BY <1>4 DEF Written, vars, AdminStep, AdminCreate, AdminOpen, AdminStore, EditAborts, AdminDelete
<1> QED
  BY <1>1, <1>2, <1>3, <1>4 DEF Next, RefreshStep

\* The date at which support ends survives every listing without one, and a commit
\* takes over the listing of its source, for any sources, results and crashes.
THEOREM SupportEndsStay == Spec => EndDateIsKept
<1> DEFINE Kept == /\ \A p \in DOMAIN products :
                        p \in DOMAIN products' /\ (products'[p].end = NoEnd => products[p].end = NoEnd)
                   /\ products' # products =>
                        \A p \in DOMAIN run.res.products :
                          LET said == run.res.products[p]
                          IN /\ p \in DOMAIN products' /\ products'[p].ended = said.ended
                             /\ said.end # NoEnd => products'[p].end = said.end
<1>1. Init => Written
  BY DEF Init, Written, Upserting
<1>2. TypeOK /\ Written /\ [Next]_vars => [Kept]_vars
  <2> SUFFICES ASSUME TypeOK, Written, Next
               PROVE  Kept
    OBVIOUS
  <2>1. CASE CommitSource
    <3> DEFINE l == run.res.products
    <3>1. l \in Listings /\ products \in Listings /\ newProducts \in Listings
      BY RunTyped DEF TypeOK
    <3>2. newProducts = Upserted(products, l) /\ products' = Overlay(products, newProducts)
      BY <2>1 DEF CommitSource, Written, Upserting
    <3> HIDE DEF l
    <3>3. DOMAIN newProducts = DOMAIN l
      BY <3>1, <3>2, ListingsUpserted
    <3>4. /\ DOMAIN products' = DOMAIN products \cup DOMAIN l
          /\ \A p \in DOMAIN products \cup DOMAIN l :
               products'[p] = IF p \in DOMAIN l THEN newProducts[p] ELSE products[p]
      BY <3>2, <3>3 DEF Overlay
    <3>5. \A p \in DOMAIN l :
            /\ newProducts[p].ended = l[p].ended
            /\ newProducts[p].end = IF l[p].end = NoEnd /\ p \in DOMAIN products
                                    THEN products[p].end ELSE l[p].end
      BY <3>1, <3>2, ListingsUpserted
    <3> QED
      BY <3>4, <3>5 DEF l
  <2>2. CASE products' = products
    BY <2>2
  <2> QED
    BY <2>1, <2>2 DEF Next, RefreshStep, AdminStep, StartRun, FetchRaises, FetchReturns,
      SkipUnknownProduct, SelectByBuild, InsertByBuild, RefreshByBuild, InsertOnConflict,
      RefreshByKey, SelectHintRows, ApplyHint, CommitHints, FinishRun, NotifyNewPatches,
      NotifyFetchErrors, DeadlockAborts, Unwind, Crash, AdminCreate, AdminOpen, AdminStore, EditAborts, AdminDelete
<1> QED
  BY <1>1, <1>2, WrittenKeeps, TypeInvariant, PTL DEF Spec, EndDateIsKept
=============================================================================
