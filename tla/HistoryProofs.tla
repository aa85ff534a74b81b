---------------------------- MODULE HistoryProofs ----------------------------
(***************************************************************************)
(* What the patches table keeps.                                           *)
(*                                                                         *)
(* RefreshPipeline implements PatchHistory: whatever the sources return    *)
(* and wherever a run is killed, each commit of a refresh only extends the *)
(* history, and anything else is one correction by the operator.           *)
(*                                                                         *)
(* Between two commits the rows are in "work", so the invariant says that  *)
(* each of them is a refreshed version of its committed row or new, and    *)
(* that the keys of what the transaction sees are unique.  A hint is       *)
(* applied to a row that was selected earlier, and the operator may have   *)
(* changed it since: then the property is false (ManualEditsSurvive).      *)
(* Hence HintsUndisturbed, which speaks of that moment only.               *)
(***************************************************************************)
EXTENDS RefreshPipelineProofs

USE DEF dbVars, txnVars, sentVars, adminVars, NoRow

KeysAreUnique == UniqueKeys(patches) /\ UniqueKeys(View)

WorkRefreshes ==
  \A id \in DOMAIN work :
    IF id \in DOMAIN patches THEN History!Refreshed(patches[id], work[id]) ELSE ~work[id].manual

\* While hints are applied, the operator leaves each row that waits for one as it was
\* selected for it, or deletes it; he may do anything else, and at any other time.
HintsUndisturbed == [][Considerate]_vars

\* The operator leaves the release of a row between the statement that finds the row
\* and the one that updates it; he may do anything else, and at any other time.
FoundUndisturbed == [][Patient]_vars

\* The operator enters rows, corrects texts and links, protects rows and fills in KB
\* numbers that are missing; he deletes no row and makes none the row of another release.
ReleasesUndisturbed == [][KeepsReleases]_vars

\* The operator leaves the rows with a build to the sources, but for their texts, their
\* protection, a KB number that is missing and their deletion.
BuildsUndisturbed == [][KeepsBuilds]_vars

\* Each form the operator submits keeps the release of the row it was filled in for.
FormsKeepReleases == [][EditsKeepReleases]_vars

\* The rows that wait for a hint are still as they were when they were selected.
HintsFit ==
  /\ pc = "hints" =>
       \A h \in run.hintRows :
         /\ h.id \in DOMAIN View => Hintable(View[h.id])
         /\ \A g \in run.hintRows : g.id = h.id => g = h
  /\ pc \notin {"hints", "aborted"} => run.hintRows = {}

\* An operator who may do nothing, and a run whose sources have no hints.
NoHintsOffered == \A f \in DOMAIN Offers : \A r \in Offers[f] : DOMAIN r.hints = {}
Apart == /\ MaxAdmin = 0 => edits = {}
         /\ NoHintsOffered => DOMAIN run.hints = {} /\ pc # "hints"

HistoryInv == PipelineInv /\ KeysAreUnique /\ WorkRefreshes /\ HintsFit /\ Apart

-----------------------------------------------------------------------------
(* Tables and rows *)

\* History!Refreshed, column by column.
Says(a, b) == /\ ~a.manual /\ ~b.manual /\ b.product = a.product /\ b.build = a.build
              /\ b.kb = a.kb \/ (a.kb = Blank /\ a.build # Blank)
LEMMA RefreshedSays ==
  ASSUME NEW a \in Row, NEW b \in Row
  PROVE  History!Refreshed(a, b) <=> b = a \/ Says(a, b)
<1>1. ASSUME History!Refreshed(a, b), b # a
      PROVE  Says(a, b)
  <2>1. b = [a EXCEPT !.kb = b.kb, !.info = b.info, !.url = b.url]
    BY <1>1 DEF History!Refreshed
  <2>2. b.product = a.product /\ b.build = a.build /\ b.manual = a.manual
    BY <2>1 DEF Row
  <2> QED
    BY <1>1, <2>2 DEF History!Refreshed, Says
<1>2. ASSUME Says(a, b)
      PROVE  History!Refreshed(a, b)
  <2>1. b.manual = a.manual
    BY <1>2 DEF Says, Row
  <2>2. b = [a EXCEPT !.kb = b.kb, !.info = b.info, !.url = b.url]
    BY <1>2, <2>1 DEF Says, Row
  <2> QED
    BY <1>2, <2>2 DEF History!Refreshed, History!Row, Row, Says
<1>3. b = a => History!Refreshed(a, b)
  BY DEF History!Refreshed
<1> QED
  BY <1>1, <1>2, <1>3

LEMMA RefreshedTransitive ==
  ASSUME NEW a \in Row, NEW b \in Row, NEW c \in Row,
         History!Refreshed(a, b), History!Refreshed(b, c)
  PROVE  History!Refreshed(a, c)
BY RefreshedSays DEF Says

LEMMA RefreshedKeeps ==
  ASSUME NEW a \in Row, NEW b \in Row, History!Refreshed(a, b)
  PROVE  b.manual <=> a.manual
BY RefreshedSays DEF Says

LEMMA ItemRefreshes ==
  ASSUME NEW r \in Row, NEW it \in Item
  PROVE  /\ History!Refreshed(r, RefreshedByBuild(r, it)) /\ KeyOf(RefreshedByBuild(r, it)) = KeyOf(r)
         /\ History!Refreshed(r, RefreshedByKey(r, it))   /\ KeyOf(RefreshedByKey(r, it)) = KeyOf(r)
BY DEF History!Refreshed, History!Row, Row, Item, RefreshedByBuild, RefreshedByKey, KeyOf

LEMMA KeysStayUnique ==
  ASSUME NEW t, UniqueKeys(t), NEW id, NEW r, WithKey(t, KeyOf(r)) \subseteq {id}
  PROVE  UniqueKeys(Put(t, id, r))
BY DEF UniqueKeys, WithKey, Put

LEMMA OverlayPut ==
  ASSUME NEW t, NEW w, NEW id, NEW r
  PROVE  /\ Overlay(t, Put(w, id, r)) = Put(Overlay(t, w), id, r)
         /\ id \notin DOMAIN w => Overlay(Put(t, id, r), w) = Put(Overlay(t, w), id, r)
BY DEF Overlay, Put

LEMMA OverlayDrop ==
  ASSUME NEW t, NEW w, NEW id, id \notin DOMAIN w
  PROVE  Overlay(Drop(t, id), w) = Drop(Overlay(t, w), id)
BY DEF Overlay, Drop

LEMMA OverlayEmpty ==
  ASSUME NEW t, IsTable(t)
  PROVE  Overlay(t, Empty) = t
BY DEF Overlay, Empty, IsTable

-----------------------------------------------------------------------------
(* What every kind of step does to the rows *)

LEMMA TablesTyped ==
  ASSUME PipelineInv
  PROVE  /\ TypeOK /\ Positions /\ IsTable(patches) /\ IsTable(work) /\ IsTable(View)
         /\ DOMAIN View = DOMAIN patches \cup DOMAIN work
         /\ \A i \in DOMAIN work : View[i] = work[i]
         /\ \A i \in DOMAIN patches : i \notin DOMAIN work => View[i] = patches[i]
         /\ \A i \in DOMAIN View : i \in Nat /\ i < nextId /\ View[i] \in Row
<1>1. TypeOK /\ Positions /\ IsTable(patches) /\ IsTable(work)
  BY DEF PipelineInv, TypeOK
<1>2. \A i \in DOMAIN View : i \in Nat /\ i < nextId /\ View[i] \in Row
  BY <1>1, ViewTyped, TableRow DEF PipelineInv, IdsAreFresh
<1> QED
  BY <1>1, <1>2, ViewTyped

LEMMA InvTyped ==
  ASSUME HistoryInv
  PROVE  /\ TypeOK /\ Positions /\ IsTable(patches) /\ IsTable(work) /\ IsTable(View)
         /\ DOMAIN View = DOMAIN patches \cup DOMAIN work
         /\ \A i \in DOMAIN work : View[i] = work[i]
         /\ \A i \in DOMAIN patches : i \notin DOMAIN work => View[i] = patches[i]
         /\ \A i \in DOMAIN View : i \in Nat /\ i < nextId /\ View[i] \in Row
BY TablesTyped DEF HistoryInv

\* What the transaction sees of a committed row is a refreshed version of it.
LEMMA ViewRefreshes ==
  ASSUME HistoryInv
  PROVE  \A id \in DOMAIN View :
           IF id \in DOMAIN patches THEN History!Refreshed(patches[id], View[id]) ELSE ~View[id].manual
<1> SUFFICES ASSUME NEW id \in DOMAIN View
             PROVE  IF id \in DOMAIN patches THEN History!Refreshed(patches[id], View[id])
                                             ELSE ~View[id].manual
  OBVIOUS
<1>1. CASE id \in DOMAIN work
  BY <1>1, InvTyped DEF HistoryInv, WorkRefreshes
<1>2. CASE id \notin DOMAIN work
  <2>1. id \in DOMAIN patches /\ View[id] = patches[id]
    BY <1>2, InvTyped
  <2> QED
    BY <2>1 DEF History!Refreshed
<1> QED
  BY <1>1, <1>2

\* The abstract step, or none.
HistoryStep == History!Extend \/ History!Correct \/ UNCHANGED <<patches, corrections>>

\* A statement loses nothing of what the transaction sees.
ViewGrows == \A id \in DOMAIN View : id \in DOMAIN View' /\ History!Refreshed(View[id], View'[id])

LEMMA NothingWritten ==
  ASSUME HistoryInv, UNCHANGED <<patches, work, corrections>>
  PROVE  KeysAreUnique' /\ WorkRefreshes' /\ HistoryStep /\ ViewGrows
<1>1. View' = View
  BY DEF View
<1> QED
  BY <1>1 DEF HistoryInv, KeysAreUnique, WorkRefreshes, HistoryStep, UniqueKeys, KeyOf, ViewGrows,
     History!Refreshed

\* A commit, a rollback or a kill.
LEMMA TransactionEnds ==
  ASSUME HistoryInv, work' = Empty, patches' \in {patches, View}, corrections' = corrections
  PROVE  KeysAreUnique' /\ WorkRefreshes' /\ HistoryStep
<1>1. IsTable(patches')
  BY InvTyped
<1>2. View' = patches'
  BY <1>1, OverlayEmpty DEF View
<1>3. UniqueKeys(patches')
  BY DEF HistoryInv, KeysAreUnique
<1>4. WorkRefreshes'
  BY EmptyIsTable DEF WorkRefreshes
<1>5. ASSUME patches' = patches
      PROVE  HistoryStep
  BY <1>5 DEF HistoryStep
<1>6. ASSUME patches' = View
      PROVE  HistoryStep
  <2>1. \A id \in DOMAIN patches : id \in DOMAIN patches' /\ History!Refreshed(patches[id], patches'[id])
    BY <1>6, InvTyped, ViewRefreshes
  <2>2. \A id \in DOMAIN patches' \ DOMAIN patches : ~patches'[id].manual
    BY <1>6, ViewRefreshes
  <2>3. History!IsTable(patches') /\ History!UniqueKeys(patches')
    BY <1>1, <1>3 DEF History!IsTable, IsTable, History!Row, Row, History!UniqueKeys, UniqueKeys,
       History!KeyOf, KeyOf
  <2>4. History!Extend
    BY <2>1, <2>2, <2>3 DEF History!Extend
  <2> QED
    BY <2>4 DEF HistoryStep
<1>7. UniqueKeys(View')
  BY <1>2, <1>3
<1> QED
  BY <1>3, <1>4, <1>5, <1>6, <1>7 DEF KeysAreUnique

\* A statement of the refresh.
LEMMA RowsWritten ==
  ASSUME HistoryInv, UNCHANGED <<patches, corrections>>, IsTable(work'),
         DOMAIN work \subseteq DOMAIN work', UniqueKeys(View'),
         \A id \in DOMAIN work' : IF id \in DOMAIN View THEN History!Refreshed(View[id], work'[id])
                                                        ELSE ~work'[id].manual
  PROVE  KeysAreUnique' /\ WorkRefreshes' /\ HistoryStep /\ ViewGrows
<1>1. ASSUME NEW id \in DOMAIN work'
      PROVE  IF id \in DOMAIN patches' THEN History!Refreshed(patches'[id], work'[id])
                                       ELSE ~work'[id].manual
  <2>1. work'[id] \in Row
    BY TableRow
  <2>2. CASE id \in DOMAIN View
    <3>1. View[id] \in Row /\ History!Refreshed(View[id], work'[id])
      BY <2>2, InvTyped
    <3>2. CASE id \in DOMAIN patches
      <4>1. patches[id] \in Row
        BY <3>2, InvTyped, TableRow
      <4>2. History!Refreshed(patches[id], View[id])
        BY <2>2, <3>2, ViewRefreshes
      <4>3. History!Refreshed(patches[id], work'[id])
        BY <2>1, <3>1, <4>1, <4>2, RefreshedTransitive
      <4> QED
        BY <3>2, <4>3
    <3>3. CASE id \notin DOMAIN patches
      BY <2>1, <2>2, <3>1, <3>3, ViewRefreshes, RefreshedKeeps
    <3> QED
      BY <3>2, <3>3
  <2>3. CASE id \notin DOMAIN View
    BY <2>3, InvTyped
  <2> QED
    BY <2>2, <2>3
<1>2. WorkRefreshes'
  BY <1>1 DEF WorkRefreshes
<1>3. ViewGrows
  <2>1. View' = Overlay(patches, work')
    BY DEF View
  <2>2. \A w : IsTable(w) =>
          /\ DOMAIN Overlay(patches, w) = DOMAIN patches \cup DOMAIN w
          /\ \A id \in DOMAIN w : Overlay(patches, w)[id] = w[id]
          /\ \A id \in DOMAIN patches : id \notin DOMAIN w => Overlay(patches, w)[id] = patches[id]
    BY InvTyped, OverlayIsTable
  <2>3. ASSUME NEW id \in DOMAIN View
        PROVE  id \in DOMAIN View' /\ History!Refreshed(View[id], View'[id])
    <3>1. CASE id \in DOMAIN work'
      BY <2>1, <2>2, <2>3, <3>1
    <3>2. CASE id \notin DOMAIN work'
      <4>1. id \in DOMAIN patches /\ View[id] = patches[id] /\ View'[id] = patches[id] /\ id \in DOMAIN View'
        BY <2>1, <2>2, <2>3, <3>2, InvTyped
      <4> QED
        BY <4>1 DEF History!Refreshed
    <3> QED
      BY <3>1, <3>2
  <2> QED
    BY <2>3 DEF ViewGrows
<1>4. KeysAreUnique' /\ HistoryStep
  BY DEF HistoryInv, KeysAreUnique, HistoryStep, UniqueKeys, KeyOf
<1> QED
  BY <1>2, <1>3, <1>4

-----------------------------------------------------------------------------
(* The steps of a refresh *)

LEMMA InsertWrites ==
  ASSUME HistoryInv, AtItem \/ pc = "insertBuild", WithKey(View, KeyOf(Current)) = {},
         work' = Put(work, nextId, Scraped(Current)), UNCHANGED <<patches, corrections>>
  PROVE  /\ KeysAreUnique' /\ WorkRefreshes' /\ HistoryStep /\ ViewGrows
         /\ nextId \notin DOMAIN View /\ View' = Put(View, nextId, Scraped(Current))
<1>1. Current \in Item
  BY AtItemFacts DEF HistoryInv
<1>2. Scraped(Current) \in Row /\ ~Scraped(Current).manual /\ KeyOf(Scraped(Current)) = KeyOf(Current)
  BY <1>1, ItemTyped DEF Scraped, KeyOf
<1>3. nextId \in Nat /\ nextId \notin DOMAIN View
  BY InvTyped DEF TypeOK
<1> DEFINE r == Scraped(Current)
<1> HIDE DEF r
<1>4. /\ IsTable(work') /\ DOMAIN work' = DOMAIN work \cup {nextId} /\ work'[nextId] = r
      /\ \A i \in DOMAIN work : i # nextId => work'[i] = work[i]
  <2>1. IsTable(work) /\ r \in Row /\ nextId \in Nat /\ work' = Put(work, nextId, r)
    BY <1>2, <1>3, InvTyped DEF r
  <2> QED
    BY ONLY <2>1, PutIsTable
<1>5. View' = Put(View, nextId, r)
  BY OverlayPut DEF View, r
<1>6. UniqueKeys(View')
  BY <1>2, <1>5, KeysStayUnique DEF HistoryInv, KeysAreUnique, r
<1>7. \A id \in DOMAIN work' : IF id \in DOMAIN View THEN History!Refreshed(View[id], work'[id])
                                                     ELSE ~work'[id].manual
  BY <1>2, <1>3, <1>4, InvTyped DEF History!Refreshed, r
<1>8. nextId \notin DOMAIN View /\ View' = Put(View, nextId, Scraped(Current))
  BY <1>3, <1>5 DEF r
<1> QED
  BY <1>4, <1>6, <1>7, <1>8, RowsWritten

\* An UPDATE of a row that the transaction sees.
LEMMA UpdateWrites ==
  ASSUME HistoryInv, NEW id \in DOMAIN View, NEW r \in Row, History!Refreshed(View[id], r),
         WithKey(View, KeyOf(r)) \subseteq {id},
         work' = Put(work, id, r), UNCHANGED <<patches, corrections>>
  PROVE  /\ KeysAreUnique' /\ WorkRefreshes' /\ HistoryStep /\ ViewGrows
         /\ DOMAIN View' = DOMAIN View /\ \A i \in DOMAIN View : i # id => View'[i] = View[i]
<1>1. id \in Nat
  BY InvTyped
<1>2. /\ IsTable(work') /\ DOMAIN work' = DOMAIN work \cup {id} /\ work'[id] = r
      /\ \A i \in DOMAIN work : i # id => work'[i] = work[i]
  <2>1. IsTable(work)
    BY InvTyped
  <2>2. \A i \in Nat, q \in Row :
          /\ IsTable(Put(work, i, q)) /\ DOMAIN Put(work, i, q) = DOMAIN work \cup {i}
          /\ Put(work, i, q)[i] = q /\ \A j \in DOMAIN work : j # i => Put(work, i, q)[j] = work[j]
    BY <2>1, PutIsTable
  <2> QED
    BY <1>1, <2>2
<1>3. View' = Put(View, id, r)
  BY OverlayPut DEF View
<1>4. UniqueKeys(View')
  BY <1>3, KeysStayUnique DEF HistoryInv, KeysAreUnique
<1>5. \A i \in DOMAIN work' : IF i \in DOMAIN View THEN History!Refreshed(View[i], work'[i])
                                                   ELSE ~work'[i].manual
  BY <1>2, InvTyped DEF History!Refreshed
<1>6. DOMAIN View' = DOMAIN View /\ \A i \in DOMAIN View : i # id => View'[i] = View[i]
  BY <1>3 DEF Put
<1> QED
  BY <1>2, <1>4, <1>5, <1>6, RowsWritten

\* A row keeps its key, and so the key stays its own.
LEMMA SameKey ==
  ASSUME HistoryInv, NEW id \in DOMAIN View
  PROVE  WithKey(View, KeyOf(View[id])) \subseteq {id}
BY DEF HistoryInv, KeysAreUnique, UniqueKeys, WithKey

LEMMA BuildRowWritten ==
  ASSUME HistoryInv, RefreshByBuild
  PROVE  KeysAreUnique' /\ WorkRefreshes' /\ HistoryStep /\ ViewGrows
<1>1. Current \in Item /\ UNCHANGED <<patches, corrections>>
  BY AtItemFacts DEF HistoryInv, RefreshByBuild
<1>2. CASE run.found \in DOMAIN View
  <2> DEFINE id == run.found
             r  == RefreshedByBuild(View[id], Current)
  <2>1. View[id] \in Row
    BY <1>2, InvTyped
  <2>2. r \in Row /\ History!Refreshed(View[id], r) /\ KeyOf(r) = KeyOf(View[id])
    BY <1>1, <2>1, ItemTyped, ItemRefreshes
  <2>3. work' = Put(work, id, r)
    BY <1>2 DEF RefreshByBuild
  <2>4. WithKey(View, KeyOf(r)) \subseteq {id}
    BY <1>2, <2>2, SameKey
  <2> HIDE DEF id, r
  <2>5. id \in DOMAIN View
    BY <1>2 DEF id
  <2> QED
    BY ONLY <1>1, <2>2, <2>3, <2>4, <2>5, HistoryInv, UpdateWrites
<1>3. CASE run.found \notin DOMAIN View
  BY <1>1, <1>3, NothingWritten DEF RefreshByBuild
<1> QED
  BY <1>2, <1>3

LEMMA KeyRowsWritten ==
  ASSUME HistoryInv, RefreshByKey
  PROVE  KeysAreUnique' /\ WorkRefreshes' /\ HistoryStep /\ ViewGrows
<1>1. Current \in Item /\ UNCHANGED <<patches, corrections>>
  BY AtItemFacts DEF HistoryInv, RefreshByKey
<1> DEFINE ids == WithKey(View, KeyOf(Current))
<1>2. work' = [id \in DOMAIN work \cup ids |->
                 IF id \in ids THEN RefreshedByKey(View[id], Current) ELSE work[id]]
  BY DEF RefreshByKey
<1>3. ids \subseteq DOMAIN View
  BY DEF WithKey
<1> HIDE DEF ids
<1>4. DOMAIN work' = DOMAIN work \cup ids
  BY <1>2
<1>5. \A id \in ids : /\ work'[id] \in Row /\ History!Refreshed(View[id], work'[id])
                      /\ KeyOf(work'[id]) = KeyOf(View[id])
  BY <1>1, <1>2, <1>3, InvTyped, ItemTyped, ItemRefreshes
<1>6. \A id \in DOMAIN work \ ids : work'[id] = View[id] /\ id \in DOMAIN View
  BY <1>2, InvTyped
<1>7. \A id \in DOMAIN work' : id \in DOMAIN View /\ work'[id] \in Row
                               /\ History!Refreshed(View[id], work'[id])
                               /\ KeyOf(work'[id]) = KeyOf(View[id])
  BY <1>3, <1>4, <1>5, <1>6, InvTyped DEF History!Refreshed
<1>8. IsTable(work')
  BY <1>2, <1>4, <1>7, InvTyped DEF IsTable
<1>9. DOMAIN View' = DOMAIN View /\ \A id \in DOMAIN View : KeyOf(View'[id]) = KeyOf(View[id])
  <2>1. View' = Overlay(patches, work')
    BY <1>1 DEF View
  <2>2. /\ DOMAIN View' = DOMAIN patches \cup DOMAIN work'
        /\ \A id \in DOMAIN work' : View'[id] = work'[id]
        /\ \A id \in DOMAIN patches : id \notin DOMAIN work' => View'[id] = patches[id]
    <3>1. IsTable(patches)
      BY InvTyped
    <3>2. \A w : IsTable(w) =>
            /\ DOMAIN Overlay(patches, w) = DOMAIN patches \cup DOMAIN w
            /\ \A id \in DOMAIN w : Overlay(patches, w)[id] = w[id]
            /\ \A id \in DOMAIN patches : id \notin DOMAIN w => Overlay(patches, w)[id] = patches[id]
      BY <3>1, OverlayIsTable
    <3> QED
      BY <1>8, <2>1, <3>2
  <2>3. DOMAIN View' = DOMAIN View
    BY <1>4, <1>7, <2>2, InvTyped
  <2>4. \A id \in DOMAIN View : id \notin DOMAIN work' => View'[id] = View[id]
    BY <1>4, <2>2, InvTyped
  <2> QED
    BY <1>7, <2>2, <2>3, <2>4
<1>10. UniqueKeys(View')
  BY <1>9 DEF HistoryInv, KeysAreUnique, UniqueKeys
<1> QED
  BY <1>1, <1>4, <1>7, <1>8, <1>10, RowsWritten

LEMMA HintWritten ==
  ASSUME HistoryInv, ApplyHint
  PROVE  KeysAreUnique' /\ WorkRefreshes' /\ HistoryStep /\ ViewGrows /\ HintsFit'
<1>1. pc = "hints" /\ run \in Locals /\ run.hintRows \subseteq HintRow /\ UNCHANGED <<patches, corrections>>
  BY InvTyped, RunTyped DEF ApplyHint, Hinted, TypeOK
<1>2. PICK h \in run.hintRows :
        \/ /\ run' = [run EXCEPT !.hintRows = @ \ {h}]
           /\ UNCHANGED <<work, pc>>
        \/ /\ h.id \in DOMAIN View
           /\ WithKey(View, KeyOf([View[h.id] EXCEPT !.kb = h.kb, !.url = h.url])) \subseteq {h.id}
           /\ work' = Put(work, h.id, [View[h.id] EXCEPT !.kb = h.kb, !.url = h.url])
           /\ run' = [run EXCEPT !.hintRows = @ \ {h}]
           /\ UNCHANGED pc
        \/ pc' = "aborted" /\ UNCHANGED <<work, run>>
  BY DEF ApplyHint, Hinted
<1>3. \A x : [run EXCEPT !.hintRows = x].hintRows = x
  BY <1>1 DEF Locals
<1>4. CASE run' = [run EXCEPT !.hintRows = @ \ {h}] /\ UNCHANGED <<work, pc>>
  <2>1. View' = View /\ run'.hintRows = run.hintRows \ {h}
    BY <1>1, <1>3, <1>4 DEF View
  <2>2. HintsFit'
    BY <1>1, <1>4, <2>1 DEF HistoryInv, HintsFit, Hintable
  <2> QED
    BY <1>1, <1>4, <2>2, NothingWritten
<1>5. CASE /\ h.id \in DOMAIN View
           /\ WithKey(View, KeyOf([View[h.id] EXCEPT !.kb = h.kb, !.url = h.url])) \subseteq {h.id}
           /\ work' = Put(work, h.id, [View[h.id] EXCEPT !.kb = h.kb, !.url = h.url])
           /\ run' = [run EXCEPT !.hintRows = @ \ {h}]
           /\ UNCHANGED pc
  <2> DEFINE id == h.id
             r  == [View[id] EXCEPT !.kb = h.kb, !.url = h.url]
  <2>1. id \in DOMAIN View /\ View[id] \in Row /\ Hintable(View[id]) /\ h \in HintRow
    BY <1>1, <1>5, InvTyped DEF HistoryInv, HintsFit
  <2>2. r \in Row /\ History!Refreshed(View[id], r)
    <3> DEFINE v == View[id]
    <3>1. v \in Row /\ Hintable(v) /\ h.kb \in KBs /\ h.url \in Urls
      BY <2>1 DEF HintRow
    <3>2. r = [v EXCEPT !.kb = h.kb, !.url = h.url]
      OBVIOUS
    <3> HIDE DEF v, r
    <3>3. r \in Row /\ Says(v, r)
      BY <3>1, <3>2 DEF Row, Hintable, Says
    <3> QED
      BY <3>1, <3>3, RefreshedSays DEF v
  <2>3. work' = Put(work, id, r) /\ WithKey(View, KeyOf(r)) \subseteq {id}
    BY <1>5
  <2> HIDE DEF id, r
  <2>4. /\ KeysAreUnique' /\ WorkRefreshes' /\ HistoryStep /\ ViewGrows
        /\ DOMAIN View' = DOMAIN View /\ \A i \in DOMAIN View : i # id => View'[i] = View[i]
    BY ONLY <1>1, <2>1, <2>2, <2>3, HistoryInv, UpdateWrites
  <2>5. run'.hintRows = run.hintRows \ {h} /\ pc' = pc
    BY <1>3, <1>5
  <2>6. \A g \in run'.hintRows : g \in run.hintRows /\ g.id # id
    BY <1>1, <2>5 DEF HistoryInv, HintsFit, id
  <2>7. HintsFit'
    BY <1>1, <2>4, <2>5, <2>6 DEF HistoryInv, HintsFit, Hintable
  <2> QED
    BY <2>4, <2>7
<1>6. CASE pc' = "aborted" /\ UNCHANGED <<work, run>>
  <2>1. HintsFit'
    BY <1>6 DEF HintsFit
  <2> QED
    BY <1>1, <1>6, <2>1, NothingWritten
<1> QED
  BY <1>2, <1>4, <1>5, <1>6

LEMMA RefreshRows ==
  ASSUME HistoryInv, RefreshStep
  PROVE  /\ KeysAreUnique' /\ WorkRefreshes' /\ HistoryStep
         /\ Unwind \/ ViewGrows
<1>1. CASE \/ StartRun \/ FetchRaises \/ FetchReturns \/ SkipUnknownProduct \/ SelectByBuild
           \/ SelectHintRows \/ FinishRun \/ NotifyNewPatches \/ NotifyFetchErrors \/ DeadlockAborts
  BY <1>1, NothingWritten DEF StartRun, FetchRaises, FetchReturns, SkipUnknownProduct, SelectByBuild,
     SelectHintRows, FinishRun, NotifyNewPatches, NotifyFetchErrors, DeadlockAborts
<1>2. CASE CommitSource \/ CommitHints \/ Unwind
  <2>1. /\ work' = Empty /\ patches' \in {patches, View} /\ corrections' = corrections
        /\ Unwind \/ patches' = View
    BY <1>2 DEF CommitSource, CommitHints, Unwind
  <2>2. ASSUME patches' = View
        PROVE  ViewGrows
    <3>1. View' = View
      BY <2>1, <2>2, InvTyped, OverlayEmpty DEF View
    <3> QED
      BY <3>1 DEF ViewGrows, History!Refreshed
  <2> QED
    BY <2>1, <2>2, TransactionEnds
<1>3. CASE InsertByBuild
  <2>1. CASE WithKey(View, KeyOf(Current)) = {}
    BY <1>3, <2>1, InsertWrites DEF InsertByBuild, Insert
  <2>2. CASE WithKey(View, KeyOf(Current)) # {}
    BY <1>3, <2>2, NothingWritten DEF InsertByBuild
  <2> QED
    BY <2>1, <2>2
<1>4. CASE InsertOnConflict
  <2>1. CASE WithKey(View, KeyOf(Current)) = {}
    BY <1>4, <2>1, InsertWrites DEF InsertOnConflict, Insert
  <2>2. CASE WithKey(View, KeyOf(Current)) # {}
    BY <1>4, <2>2, NothingWritten DEF InsertOnConflict
  <2> QED
    BY <2>1, <2>2
<1>5. CASE RefreshByBuild
  BY <1>5, BuildRowWritten
<1>6. CASE RefreshByKey
  BY <1>6, KeyRowsWritten
<1>7. CASE ApplyHint
  BY <1>7, HintWritten
<1> QED
  BY <1>1, <1>2, <1>3, <1>4, <1>5, <1>6, <1>7 DEF RefreshStep

-----------------------------------------------------------------------------
(* The operator *)

\* A table that differs from the committed one in one row which is not in "work".
LEMMA OneRowCorrected ==
  ASSUME HistoryInv, IsTable(patches'), work' = work, corrections' = corrections + 1,
         NEW id, id \notin DOMAIN work,
         UniqueKeys(patches'), UniqueKeys(View'),
         \A i \in (DOMAIN patches \cup DOMAIN patches') \ {id} :
           i \in DOMAIN patches \cap DOMAIN patches' /\ patches'[i] = patches[i],
         id \in DOMAIN patches \cup DOMAIN patches'
  PROVE  KeysAreUnique' /\ WorkRefreshes' /\ HistoryStep
<1>1. WorkRefreshes'
  BY DEF HistoryInv, WorkRefreshes
<1>2. History!IsTable(patches') /\ History!UniqueKeys(patches')
  BY DEF History!IsTable, IsTable, History!Row, Row, History!UniqueKeys, UniqueKeys, History!KeyOf, KeyOf
<1>3. History!Correct
  BY <1>2 DEF History!Correct
<1> QED
  BY <1>1, <1>3 DEF KeysAreUnique, HistoryStep

\* A key that no row of the refresh's transaction holds, and no committed row but
\* this one, is free in what the transaction sees, too.
LEMMA FreeKey ==
  ASSUME HistoryInv, NEW k, NEW id, ~KeyLocked(k), WithKey(patches, k) \subseteq {id}
  PROVE  WithKey(View, k) \subseteq {id}
BY InvTyped DEF KeyLocked, WithKey

LEMMA RowStored ==
  ASSUME HistoryInv, NEW id \in Nat, NEW r \in Row, id \notin DOMAIN work,
         ~KeyLocked(KeyOf(r)), WithKey(patches, KeyOf(r)) \subseteq {id},
         patches' = Put(patches, id, r), work' = work, corrections' = corrections + 1
  PROVE  KeysAreUnique' /\ WorkRefreshes' /\ HistoryStep
<1>1. IsTable(patches) /\ patches' = Put(patches, id, r)
  BY InvTyped
<1>2. /\ IsTable(patches') /\ DOMAIN patches' = DOMAIN patches \cup {id}
      /\ \A j \in DOMAIN patches : j # id => patches'[j] = patches[j]
  BY ONLY <1>1, id \in Nat, r \in Row, PutIsTable
<1>3. UniqueKeys(patches')
  BY KeysStayUnique DEF HistoryInv, KeysAreUnique
<1>4. View' = Put(View, id, r)
  BY OverlayPut DEF View
<1>5. UniqueKeys(View')
  BY <1>4, FreeKey, KeysStayUnique DEF HistoryInv, KeysAreUnique
<1> QED
  BY <1>2, <1>3, <1>5, OneRowCorrected

LEMMA AdminRows ==
  ASSUME HistoryInv, AdminStep
  PROVE  KeysAreUnique' /\ WorkRefreshes' /\ HistoryStep
<1>1. CASE AdminCreate
  <2>1. PICK p \in DOMAIN products, f \in Forms :
          LET row == [product |-> p, kb |-> f.kb, build |-> f.build,
                      info |-> f.info, url |-> f.url, manual |-> f.manual]
          IN /\ ~KeyLocked(KeyOf(row))
             /\ WithKey(patches, KeyOf(row)) = {}
             /\ patches' = Put(patches, nextId, row)
    BY <1>1 DEF AdminCreate
  <2> DEFINE row == [product |-> p, kb |-> f.kb, build |-> f.build,
                     info |-> f.info, url |-> f.url, manual |-> f.manual]
  <2>2. p \in Products /\ f \in Form
    BY <2>1, InvTyped, ListedIsProduct, FormsAssumption DEF TypeOK
  <2>3. row \in Row
    BY <2>2 DEF Row, Form
  <2>4. ~KeyLocked(KeyOf(row)) /\ WithKey(patches, KeyOf(row)) = {} /\ patches' = Put(patches, nextId, row)
    BY <2>1
  <2> HIDE DEF row
  <2>5. nextId \in Nat /\ nextId \notin DOMAIN work /\ work' = work /\ corrections' = corrections + 1
    BY <1>1, InvTyped DEF AdminCreate, TypeOK
  <2> QED
    BY <2>3, <2>4, <2>5, RowStored
<1>2. CASE AdminOpen \/ EditAborts
  BY <1>2, NothingWritten DEF AdminOpen, EditAborts
<1>3. CASE AdminStore
  <2>1. PICK e \in edits :
          /\ e.id \notin DOMAIN work
          /\ LET row == Changed(patches[e.id], e.loaded, e.form) IN
             \/ UNCHANGED <<patches, corrections>>
             \/ /\ e.id \in DOMAIN patches /\ ~KeyLocked(KeyOf(row))
                /\ WithKey(patches, KeyOf(row)) \subseteq {e.id}
                /\ patches' = Put(patches, e.id, row) /\ corrections' = corrections + 1
    BY <1>3 DEF AdminStore
  <2>2. work' = work
    BY <1>3 DEF AdminStore
  <2> DEFINE row == Changed(patches[e.id], e.loaded, e.form)
  <2>3. CASE UNCHANGED <<patches, corrections>>
    BY <2>2, <2>3, NothingWritten
  <2>4. CASE /\ e.id \in DOMAIN patches /\ ~KeyLocked(KeyOf(row))
             /\ WithKey(patches, KeyOf(row)) \subseteq {e.id}
             /\ patches' = Put(patches, e.id, row) /\ corrections' = corrections + 1
    <3>1. e.id \in Nat /\ patches[e.id] \in Row /\ e.form \in Form
      BY <2>4, InvTyped, TableRow DEF TypeOK, Edit
    <3>2. row \in Row
      BY <3>1, ChangedTyped
    <3> HIDE DEF row
    <3> QED
      BY <2>1, <2>2, <2>4, <3>1, <3>2, RowStored
  <2> QED
    BY <2>1, <2>3, <2>4
<1>4. CASE AdminDelete
  <2>1. PICK id \in DOMAIN patches \ DOMAIN work : patches' = Drop(patches, id)
    BY <1>4 DEF AdminDelete
  <2>2. work' = work /\ corrections' = corrections + 1
    BY <1>4 DEF AdminDelete
  <2>3. /\ IsTable(patches') /\ DOMAIN patches' = DOMAIN patches \ {id}
        /\ \A i \in DOMAIN patches : i # id => patches'[i] = patches[i]
    BY <2>1, InvTyped, DropIsTable
  <2>4. View' = Drop(View, id)
    BY <2>1, <2>2, OverlayDrop DEF View
  <2>5. \A t : UniqueKeys(t) => UniqueKeys(Drop(t, id))
    BY DEF UniqueKeys, Drop, KeyOf
  <2> QED
    BY <2>1, <2>2, <2>3, <2>4, <2>5, OneRowCorrected DEF HistoryInv, KeysAreUnique
<1> QED
  BY <1>1, <1>2, <1>3, <1>4 DEF AdminStep

-----------------------------------------------------------------------------
(* The hints *)

LEMMA StepsKeepHints ==
  ASSUME NEW r \in Locals
  PROVE  /\ Touch(r).hints = r.hints    /\ Touch(r).hintRows = r.hintRows
         /\ Advance(r).hints = r.hints  /\ Advance(r).hintRows = r.hintRows
         /\ Announce(r).hints = r.hints /\ Announce(r).hintRows = r.hintRows
         /\ Advance(Announce(r)).hints = r.hints /\ Advance(Announce(r)).hintRows = r.hintRows
         /\ Advance(Announce(Touch(r))).hints = r.hints
         /\ Advance(Announce(Touch(r))).hintRows = r.hintRows
         /\ \A id : /\ [Touch(r) EXCEPT !.found = id].hints = r.hints
                    /\ [Touch(r) EXCEPT !.found = id].hintRows = r.hintRows
BY DEF Touch, Advance, Announce, Locals

\* The upserts, and what else leaves the hints alone.
Upserts == \/ SkipUnknownProduct \/ SelectByBuild \/ InsertByBuild
           \/ RefreshByBuild \/ InsertOnConflict \/ RefreshByKey
LEMMA UpsertsKeepHints ==
  ASSUME TypeOK, Upserts
  PROVE  /\ run'.hints = run.hints /\ run'.hintRows = run.hintRows
         /\ pc \in Upserting /\ pc' # "hints"
<1>1. run \in Locals
  BY DEF TypeOK
<1>2. /\ \/ run' = run
         \/ run' = Touch(run) \/ run' = Advance(run)
         \/ run' = Advance(Announce(run)) \/ run' = Advance(Announce(Touch(run)))
         \/ \E id : run' = [Touch(run) EXCEPT !.found = id]
      /\ pc \in Upserting /\ pc' # "hints"
  <2>1. CASE SelectByBuild
    BY ONLY <2>1, Zenon DEF SelectByBuild, AtItem, Upserting
  <2>2. CASE SkipUnknownProduct
    BY ONLY <2>2, Zenon DEF SkipUnknownProduct, AtItem, Upserting
  <2>3. CASE InsertByBuild
    BY ONLY <2>3, Zenon DEF InsertByBuild, Insert, Upserting
  <2>4. CASE RefreshByBuild \/ RefreshByKey
    BY ONLY <2>4, Zenon DEF RefreshByBuild, RefreshByKey, Upserting
  <2>5. CASE InsertOnConflict
    BY ONLY <2>5, Zenon DEF InsertOnConflict, Insert, AtItem, Upserting
  <2> QED
    BY <2>1, <2>2, <2>3, <2>4, <2>5 DEF Upserts
<1>3. /\ Touch(run).hints = run.hints    /\ Touch(run).hintRows = run.hintRows
      /\ Advance(run).hints = run.hints  /\ Advance(run).hintRows = run.hintRows
      /\ Advance(Announce(run)).hints = run.hints /\ Advance(Announce(run)).hintRows = run.hintRows
      /\ Advance(Announce(Touch(run))).hints = run.hints
      /\ Advance(Announce(Touch(run))).hintRows = run.hintRows
      /\ \A id : /\ [Touch(run) EXCEPT !.found = id].hints = run.hints
                 /\ [Touch(run) EXCEPT !.found = id].hintRows = run.hintRows
  BY ONLY <1>1, StepsKeepHints, Zenon
<1> QED
  BY ONLY <1>2, <1>3, Zenon

LEMMA CommitsKeepHints ==
  ASSUME TypeOK, FetchRaises \/ CommitSource \/ FinishRun
  PROVE  run'.hints = run.hints /\ run'.hintRows = run.hintRows
<1>1. run \in Locals
  BY DEF TypeOK
<1>2. CASE FetchRaises
  BY <1>1, <1>2 DEF FetchRaises, Locals
<1>3. CASE CommitSource
  BY ONLY <1>1, <1>3 DEF CommitSource, Locals
<1>4. CASE FinishRun
  BY ONLY <1>1, <1>4 DEF FinishRun, Locals
<1> QED
  BY <1>2, <1>3, <1>4

LEMMA OperatorWrites ==
  ASSUME AdminStep
  PROVE  UNCHANGED <<run, pc, work, products, newProducts, pushes>>
BY DEF AdminStep, AdminCreate, AdminOpen, AdminStore, EditAborts, AdminDelete

LEMMA OperatorWaits ==
  ASSUME HistoryInv, AdminStep
  PROVE  MaxAdmin # 0 /\ UNCHANGED <<run, pc, work>>
<1>1. adminOps \in Nat /\ (MaxAdmin = 0 => edits = {})
  BY DEF HistoryInv, PipelineInv, TypeOK, Apart
<1> QED
  BY <1>1 DEF AdminStep, AdminCreate, AdminOpen, AdminStore, EditAborts, AdminDelete, OperatorActs

\* Who may do nothing disturbs nothing, and where no source gives hints nothing waits.
LEMMA NobodyDisturbs ==
  ASSUME HistoryInv
  PROVE  /\ NoHintsOffered \/ MaxAdmin = 0 => Considerate
         /\ MaxAdmin = 0 => Patient /\ KeepsReleases /\ KeepsBuilds /\ EditsKeepReleases
BY OperatorWaits DEF Considerate, Patient, KeepsReleases, KeepsBuilds, EditsKeepReleases, HistoryInv, Apart

LEMMA SelectedRowsFit ==
  ASSUME HistoryInv, SelectHintRows
  PROVE  HintsFit'
<1>1. run \in Locals /\ run.hints \in Hints /\ View' = View /\ pc' = "hints"
      /\ run' = [run EXCEPT !.hintRows = HintsFor(View, run.hints)]
  BY RunTyped, InvTyped DEF SelectHintRows, View
<1>2. run'.hintRows = HintsFor(View, run.hints)
  <2> DEFINE H == HintsFor(View, run.hints)
  <2> HIDE DEF H
  <2>1. [run EXCEPT !.hintRows = H].hintRows = H
    BY <1>1 DEF Locals
  <2> QED
    BY <1>1, <2>1 DEF H
<1>3. \A h \in HintsFor(View, run.hints) :
        /\ Hintable(View[h.id])
        /\ \A g \in HintsFor(View, run.hints) : g.id = h.id => g = h
  <2> DEFINE Kb(id)  == run.hints[<<View[id].product, MonthOf[View[id].info]>>].kb
             Url(id) == run.hints[<<View[id].product, MonthOf[View[id].info]>>].url
  <2>1. ASSUME NEW h \in HintsFor(View, run.hints)
        PROVE  Hintable(View[h.id]) /\ h = [id |-> h.id, kb |-> Kb(h.id), url |-> Url(h.id)]
    <3>1. PICK id \in DOMAIN View : /\ Hintable(View[id])
                                    /\ h = [id |-> id, kb |-> Kb(id), url |-> Url(id)]
      BY DEF HintsFor, Hintable
    <3> HIDE DEF Kb, Url
    <3>2. h.id = id
      BY <3>1
    <3> QED
      BY <3>1, <3>2
  <2> HIDE DEF Kb, Url
  <2> QED
    BY <2>1
<1> QED
  BY <1>1, <1>2, <1>3 DEF HintsFit

LEMMA HintsStayFit ==
  ASSUME [Considerate]_vars, HistoryInv, [Next]_vars
  PROVE  HintsFit'
<1>1. TypeOK /\ HintsFit
  BY DEF HistoryInv, PipelineInv
<1>2. CASE Upserts
  BY <1>1, <1>2, UpsertsKeepHints DEF HintsFit, Upserting
<1>3. CASE FetchRaises \/ CommitSource \/ FinishRun
  <2>1. pc' # "hints" /\ pc \notin {"hints", "aborted"}
    BY <1>3 DEF FetchRaises, CommitSource, FinishRun, SourcesDone
  <2> QED
    BY <1>1, <1>3, <2>1, CommitsKeepHints DEF HintsFit
<1>4. CASE FetchReturns
  <2>1. run \in Locals /\ pc = "fetch" /\ pc' = "upsert"
    BY <1>1, <1>4 DEF FetchReturns, TypeOK
  <2>2. PICK r \in Offers[Fetchers[run.src]] :
          run' = [run EXCEPT !.res = r, !.at = 1, !.errors = @ \o r.errors,
                             !.before = Len(run.notices), !.hints = Overlay(@, r.hints)]
    BY <1>4 DEF FetchReturns
  <2>3. run'.hintRows = run.hintRows
    BY ONLY <2>1, <2>2 DEF Locals
  <2> QED
    BY <1>1, <2>1, <2>3 DEF HintsFit
<1>5. CASE StartRun \/ NotifyFetchErrors \/ Unwind \/ Crash
  <2>1. run'.hintRows = {} /\ pc' # "hints"
    BY <1>5 DEF StartRun, NotifyFetchErrors, Unwind, Crash, IdleRun
  <2> QED
    BY <2>1 DEF HintsFit
<1>6. CASE CommitHints \/ NotifyNewPatches \/ DeadlockAborts
  BY <1>1, <1>6 DEF HintsFit, CommitHints, NotifyNewPatches, DeadlockAborts
<1>7. CASE SelectHintRows
  BY <1>7, SelectedRowsFit
<1>8. CASE ApplyHint
  BY <1>8, HintWritten
<1>9. CASE AdminStep
  <2>1. UNCHANGED <<run, pc, work>>
    BY <1>9, OperatorWaits
  <2>2. View' = Overlay(patches', work) /\ View = Overlay(patches, work)
    BY <2>1 DEF View
  <2>3. ASSUME pc = "hints", NEW h \in run.hintRows, h.id \in DOMAIN View'
        PROVE  Hintable(View'[h.id])
    <3>1. CASE h.id \in DOMAIN work
      <4>1. View'[h.id] = View[h.id] /\ h.id \in DOMAIN View
        BY <2>2, <3>1 DEF Overlay
      <4> QED
        BY <1>1, <2>3, <4>1 DEF HintsFit
    <3>2. CASE h.id \notin DOMAIN work
      <4>1. View'[h.id] = patches'[h.id] /\ h.id \in DOMAIN patches'
        BY <2>2, <2>3, <3>2 DEF Overlay
      <4>2. Considerate \/ UNCHANGED vars
        OBVIOUS
      <4>3. ASSUME UNCHANGED vars
            PROVE  Hintable(View'[h.id])
        BY <1>1, <2>3, <4>3 DEF HintsFit, vars, View
      <4> QED
        BY <1>9, <2>3, <4>1, <4>2, <4>3 DEF Considerate
    <3> QED
      BY <3>1, <3>2
  <2> QED
    BY <1>1, <2>1, <2>3 DEF HintsFit
<1>10. CASE UNCHANGED vars
  BY <1>1, <1>10 DEF HintsFit, vars, View, Hintable
<1> QED
  BY <1>2, <1>3, <1>4, <1>5, <1>6, <1>7, <1>8, <1>9, <1>10 DEF Next, RefreshStep, Upserts

LEMMA ApartStays ==
  ASSUME HistoryInv, [Next]_vars
  PROVE  Apart'
<1>1. TypeOK /\ Positions /\ Apart
  BY DEF HistoryInv, PipelineInv
<1>2. MaxAdmin = 0 => edits' = {}
  <2>1. CASE AdminStep
    BY <2>1, OperatorWaits
  <2>2. CASE RefreshStep \/ Crash \/ UNCHANGED vars
    BY <1>1, <2>2 DEF Apart, RefreshStep, Crash, vars, StartRun, FetchRaises, FetchReturns,
      CommitSource, SkipUnknownProduct, SelectByBuild, InsertByBuild, RefreshByBuild,
      InsertOnConflict, RefreshByKey, SelectHintRows, ApplyHint, CommitHints, FinishRun,
      NotifyNewPatches, NotifyFetchErrors, DeadlockAborts, Unwind
  <2> QED
    BY <2>1, <2>2 DEF Next
<1>3. ASSUME NoHintsOffered
      PROVE  DOMAIN run'.hints = {} /\ pc' # "hints"
  <2>1. DOMAIN run.hints = {} /\ pc # "hints"
    BY <1>1, <1>3 DEF Apart
  <2>2. CASE Upserts
    BY <1>1, <2>1, <2>2, UpsertsKeepHints
  <2>3. CASE FetchRaises \/ CommitSource \/ FinishRun
    BY <1>1, <2>1, <2>3, CommitsKeepHints DEF FetchRaises, CommitSource, FinishRun
  <2>4. CASE FetchReturns
    <3>1. run \in Locals /\ pc' = "upsert" /\ Fetchers[run.src] \in DOMAIN Offers
      BY <1>1, <2>4, FetchersAssumption DEF FetchReturns, TypeOK, Locals
    <3>2. PICK r \in Offers[Fetchers[run.src]] :
            run' = [run EXCEPT !.res = r, !.at = 1, !.errors = @ \o r.errors,
                               !.before = Len(run.notices), !.hints = Overlay(@, r.hints)]
      BY <2>4 DEF FetchReturns
    <3>3. run'.hints = Overlay(run.hints, r.hints)
      BY ONLY <3>1, <3>2 DEF Locals
    <3>4. DOMAIN r.hints = {}
      BY <1>3, <3>1, <3>2 DEF NoHintsOffered
    <3> QED
      BY <2>1, <3>1, <3>3, <3>4 DEF Overlay
  <2>5. CASE StartRun \/ NotifyFetchErrors \/ Unwind \/ Crash
    BY <2>5, EmptyIsTable DEF StartRun, NotifyFetchErrors, Unwind, Crash, IdleRun
  <2>6. CASE SelectHintRows \/ ApplyHint \/ CommitHints
    BY <2>1, <2>6 DEF SelectHintRows, ApplyHint, CommitHints
  <2>7. CASE NotifyNewPatches \/ DeadlockAborts \/ AdminStep \/ UNCHANGED vars
    BY <2>1, <2>7, OperatorWaits DEF NotifyNewPatches, DeadlockAborts, vars
  <2> QED
    BY <2>2, <2>3, <2>4, <2>5, <2>6, <2>7 DEF Next, RefreshStep, Upserts
<1> QED
  BY <1>2, <1>3 DEF Apart

-----------------------------------------------------------------------------
(* The history *)

LEMMA HistoryStarts == Init => HistoryInv /\ History!InitHistory
<1> SUFFICES ASSUME Init
             PROVE  HistoryInv /\ History!InitHistory
  OBVIOUS
<1>1. patches = Empty /\ work = Empty /\ View = Empty
  BY OverlayEmpty, EmptyIsTable DEF Init, View
<1>2. KeysAreUnique /\ WorkRefreshes
  BY <1>1, EmptyIsTable DEF KeysAreUnique, UniqueKeys, WorkRefreshes
<1>3. HintsFit /\ Apart
  BY EmptyIsTable DEF Init, HintsFit, Apart, IdleRun
<1>4. History!InitHistory
  BY DEF Init, History!InitHistory, History!Empty, Empty
<1> QED
  BY <1>2, <1>3, <1>4, InitEstablishes DEF HistoryInv

LEMMA HistoryGoesOn ==
  HistoryInv /\ [Next]_vars /\ [Considerate]_vars => HistoryInv' /\ HistoryStep
<1> SUFFICES ASSUME HistoryInv, [Considerate]_vars, [Next]_vars
             PROVE  HistoryInv' /\ HistoryStep
  OBVIOUS
<1>1. KeysAreUnique' /\ WorkRefreshes' /\ HistoryStep
  <2>1. CASE RefreshStep
    BY <2>1, RefreshRows
  <2>2. CASE Crash
    BY <2>2, TransactionEnds DEF Crash
  <2>3. CASE AdminStep
    BY <2>3, AdminRows
  <2>4. CASE UNCHANGED vars
    BY <2>4, NothingWritten DEF vars
  <2> QED
    BY <2>1, <2>2, <2>3, <2>4 DEF Next
<1>2. PipelineInv'
  BY NextKeeps DEF HistoryInv
<1> QED
  BY <1>1, <1>2, HintsStayFit, ApartStays DEF HistoryInv

\* The rows of a transaction are refreshed versions of committed ones, and their keys
\* are unique, in every reachable state.
THEOREM HistoryInvariant == Spec /\ HintsUndisturbed => []HistoryInv
<1>1. Init => HistoryInv
  BY HistoryStarts
<1>2. HistoryInv /\ [Next]_vars /\ [Considerate]_vars => HistoryInv'
  BY HistoryGoesOn
<1> QED
  BY <1>1, <1>2, PTL DEF Spec, HintsUndisturbed

\* The conditions on the operator hold of the instances where he has no requests, the one
\* about the hints also where no source gives any; who never touches a release does not
\* touch one that was found.
THEOREM QuietInstances ==
  Spec => /\ NoHintsOffered => HintsUndisturbed
          /\ MaxAdmin = 0 =>
               /\ HintsUndisturbed /\ FoundUndisturbed /\ ReleasesUndisturbed
               /\ BuildsUndisturbed /\ FormsKeepReleases
          /\ ReleasesUndisturbed => FoundUndisturbed
<1>1. Init => HistoryInv
  BY HistoryStarts
<1>2. HistoryInv /\ [Next]_vars /\ [Considerate]_vars => HistoryInv'
  BY HistoryGoesOn
<1>3. ASSUME NoHintsOffered
      PROVE  Spec => HintsUndisturbed
  <2>1. HistoryInv => [Considerate]_vars
    BY <1>3, NobodyDisturbs
  <2> QED
    BY <1>1, <1>2, <2>1, PTL DEF Spec, HintsUndisturbed
<1>4. ASSUME MaxAdmin = 0
      PROVE  Spec => /\ HintsUndisturbed /\ FoundUndisturbed /\ ReleasesUndisturbed
                     /\ BuildsUndisturbed /\ FormsKeepReleases
  <2>1. HistoryInv => /\ [Considerate]_vars /\ [Patient]_vars /\ [KeepsReleases]_vars
                      /\ [KeepsBuilds]_vars /\ [EditsKeepReleases]_vars
    BY <1>4, NobodyDisturbs
  <2> QED
    BY <1>1, <1>2, <2>1, PTL
    DEF Spec, HintsUndisturbed, FoundUndisturbed, ReleasesUndisturbed, BuildsUndisturbed, FormsKeepReleases
<1>5. ReleasesUndisturbed => FoundUndisturbed
  <2>1. [KeepsReleases]_vars => [Patient]_vars
    BY DEF KeepsReleases, Patient
  <2> QED
    BY <2>1, PTL DEF ReleasesUndisturbed, FoundUndisturbed
<1> QED
  BY <1>3, <1>4, <1>5

\* The pipeline implements the history of module PatchHistory: whatever the sources
\* report and wherever a run is killed, a refresh loses no row, duplicates no key and
\* leaves alone the rows of the operator (run_all_fetchers with the admin routes), unless
\* he writes to a row that waits for its hint (_apply_patch_kb_hints).
THEOREM HistoryIsKept == Spec /\ HintsUndisturbed => HistoryKept
<1>1. Init => HistoryInv /\ History!InitHistory
  BY HistoryStarts
<1>2. HistoryInv /\ [Next]_vars /\ [Considerate]_vars
        => HistoryInv' /\ [History!NextHistory]_<<patches, corrections>>
  BY HistoryGoesOn DEF HistoryStep, History!NextHistory
<1> QED
  BY <1>1, <1>2, PTL DEF Spec, HintsUndisturbed, HistoryKept, History!HistorySpec

\* Only the operator corrects; whatever else happens is an extension.
LEMMA RefreshExtends ==
  ASSUME HistoryInv, [Considerate]_vars, [Next]_vars, RefreshStep \/ Crash \/ UNCHANGED vars
  PROVE  \A id \in DOMAIN patches : id \in DOMAIN patches' /\ History!Refreshed(patches[id], patches'[id])
<1>1. corrections' = corrections /\ corrections \in Nat
  <2>1. corrections \in Nat
    BY InvTyped DEF TypeOK
  <2>2. CASE RefreshStep
    BY <2>1, <2>2 DEF RefreshStep, StartRun, FetchRaises, FetchReturns, CommitSource, SkipUnknownProduct,
       SelectByBuild, InsertByBuild, RefreshByBuild, InsertOnConflict, RefreshByKey, SelectHintRows,
       ApplyHint, CommitHints, FinishRun, NotifyNewPatches, NotifyFetchErrors, DeadlockAborts, Unwind
  <2>3. CASE Crash \/ UNCHANGED vars
    BY <2>1, <2>3 DEF Crash, vars
  <2> QED
    BY <2>1, <2>2, <2>3
<1>2. HistoryStep
  BY HistoryGoesOn
<1>3. CASE History!Extend
  BY <1>3 DEF History!Extend
<1>4. CASE patches' = patches
  BY <1>4 DEF History!Refreshed
<1> QED
  BY <1>1, <1>2, <1>3, <1>4 DEF HistoryStep, History!Correct

\* A row that a human protects keeps every column of it through every refresh, as long as
\* he does not protect it while it waits for its hint: what the README says of manual
\* entries, and when it is true (run hint_race shows that it is false without).
THEOREM ManualEditsAreKept == Spec /\ HintsUndisturbed => ManualEditsSurvive
<1> DEFINE Kept == RefreshStep => \A id \in DOMAIN patches :
                     patches[id].manual => id \in DOMAIN patches' /\ patches'[id] = patches[id]
<1>1. Init => HistoryInv
  BY HistoryStarts
<1>2. HistoryInv /\ [Next]_vars /\ [Considerate]_vars => HistoryInv' /\ [Kept]_vars
  BY HistoryGoesOn, RefreshExtends DEF History!Refreshed
<1> HIDE DEF Kept
<1>3. Spec /\ HintsUndisturbed => [][Kept]_vars
  BY <1>1, <1>2, PTL DEF Spec, HintsUndisturbed
<1> QED
  BY <1>3 DEF Kept, ManualEditsSurvive

-----------------------------------------------------------------------------
(***************************************************************************)
(* What the sources report is in the table.                                *)
(*                                                                         *)
(* A SELECT, or a conflict, decides what the next statement does: the      *)
(* invariant says that it is still true then, unless the operator has      *)
(* taken the row that was found from under the statement.  Each item       *)
(* behind run.at has a row of its own in "work": the operator's writes     *)
(* wait for it.                                                            *)
(***************************************************************************)

\* The local "at" and the record of fetch() through the upsert of one item.
LEMMA StepsKeepPlace ==
  ASSUME NEW r \in Locals
  PROVE  /\ Touch(r).at = r.at /\ Touch(r).res = r.res
         /\ Advance(r).at = r.at + 1 /\ Advance(r).res = r.res
         /\ Advance(Announce(r)).at = r.at + 1 /\ Advance(Announce(r)).res = r.res
         /\ Advance(Announce(Touch(r))).at = r.at + 1 /\ Advance(Announce(Touch(r))).res = r.res
         /\ \A id : /\ [Touch(r) EXCEPT !.found = id].at = r.at
                    /\ [Touch(r) EXCEPT !.found = id].res = r.res
                    /\ id \in Nat => [Touch(r) EXCEPT !.found = id].found = id
BY DEF Touch, Advance, Announce, Locals

\* What the SELECT, or the conflict, has found is still there.
FoundIsThere ==
  /\ pc = "refreshBuild" => /\ BuildOnly(Current)
                            /\ run.found \in WithBuild(View, Current.product, Current.build)
  /\ pc = "refreshKey" => /\ ~BuildOnly(Current)
                          /\ WithKey(View, KeyOf(Current)) # {}

\* The operator's request may come between the two statements.
LEMMA FoundSurvives ==
  ASSUME PipelineInv, FoundIsThere, AdminStep, Patient
  PROVE  FoundIsThere'
<1>1. /\ UNCHANGED <<run, pc, work>> /\ Current' = Current
      /\ View = Overlay(patches, work) /\ View' = Overlay(patches', work)
  BY OperatorWrites DEF Current, View
<1>2. ASSUME NEW id \in DOMAIN View, id \in DOMAIN work \/ id \in FoundRows
      PROVE  id \in DOMAIN View' /\ SameRelease(View[id], View'[id])
  <2>1. CASE id \in DOMAIN work
    BY <1>1, <2>1 DEF Overlay, SameRelease
  <2>2. CASE id \notin DOMAIN work
    <3>1. id \in DOMAIN patches /\ View[id] = patches[id]
      BY <1>1, <2>2 DEF Overlay
    <3>2. id \in DOMAIN patches' /\ SameRelease(patches[id], patches'[id])
      BY <1>2, <2>2, <3>1 DEF Patient, LeavesRelease
    <3> QED
      BY <1>1, <2>2, <3>1, <3>2 DEF Overlay
  <2> QED
    BY <2>1, <2>2
<1>3. CASE pc = "refreshBuild"
  <2>1. /\ run.found \in DOMAIN View /\ run.found \in FoundRows /\ BuildOnly(Current)
        /\ View[run.found].product = Current.product /\ View[run.found].build = Current.build
    BY <1>3 DEF FoundIsThere, WithBuild, FoundRows
  <2>2. run.found \in DOMAIN View' /\ SameRelease(View[run.found], View'[run.found])
    BY <1>2, <2>1
  <2> QED
    BY <1>1, <1>3, <2>1, <2>2 DEF FoundIsThere, WithBuild, SameRelease
<1>4. CASE pc = "refreshKey"
  <2>1. PICK id \in DOMAIN View : KeyOf(View[id]) = KeyOf(Current)
    BY <1>4 DEF FoundIsThere, WithKey
  <2>2. id \in DOMAIN work \/ id \in FoundRows
    BY <1>1, <1>4, <2>1 DEF Overlay, FoundRows, WithKey
  <2>3. id \in DOMAIN View' /\ SameRelease(View[id], View'[id])
    BY <1>2, <2>2
  <2>4. KeyOf(View'[id]) = KeyOf(Current)
    BY <1>4, <2>1, <2>3 DEF FoundIsThere, SameRelease, KeyOf, BuildOnly
  <2> QED
    BY <1>1, <1>4, <2>3, <2>4 DEF FoundIsThere, WithKey
<1> QED
  BY <1>1, <1>3, <1>4 DEF FoundIsThere

LEMMA FoundStaysThere ==
  ASSUME [Patient]_vars, PipelineInv, FoundIsThere, [Next]_vars
  PROVE  FoundIsThere'
<1>1. run \in Locals
  BY TablesTyped DEF TypeOK
<1>2. ASSUME SelectByBuild \/ InsertOnConflict, run'.res = run.res, run'.at = run.at, work' = work
      PROVE  Current' = Current /\ View' = View
  BY <1>2 DEF Current, View, SelectByBuild, InsertOnConflict
<1>3. CASE SelectByBuild
  <2>1. CASE pc' = "refreshBuild"
    <3>1. PICK id \in WithBuild(View, Current.product, Current.build) :
            run' = [Touch(run) EXCEPT !.found = id]
      BY ONLY <1>3, <2>1, Zenon DEF SelectByBuild
    <3>2. id \in Nat
      BY TablesTyped DEF WithBuild
    <3>3. run'.at = run.at /\ run'.res = run.res /\ run'.found = id
      BY ONLY <1>1, <3>1, <3>2, StepsKeepPlace, Zenon
    <3>4. Current' = Current /\ View' = View
      BY <1>2, <1>3, <3>3 DEF SelectByBuild
    <3> QED
      BY <1>3, <2>1, <3>3, <3>4 DEF FoundIsThere, SelectByBuild
  <2>2. CASE pc' # "refreshBuild"
    <3>1. pc' # "refreshKey"
      BY ONLY <1>3, Zenon DEF SelectByBuild
    <3> QED
      BY <2>2, <3>1 DEF FoundIsThere
  <2> QED
    BY <2>1, <2>2
<1>4. CASE InsertOnConflict
  <2>1. CASE WithKey(View, KeyOf(Current)) = {}
    BY <1>4, <2>1 DEF InsertOnConflict, Insert, FoundIsThere
  <2>2. CASE WithKey(View, KeyOf(Current)) # {}
    <3>1. pc' = "refreshKey" /\ run' = Touch(run) /\ work' = work /\ ~BuildOnly(Current)
      BY <1>4, <2>2 DEF InsertOnConflict
    <3>2. Current' = Current /\ View' = View
      BY <1>1, <1>2, <1>4, <3>1, StepsKeepPlace
    <3> QED
      BY <2>2, <3>1, <3>2 DEF FoundIsThere
  <2> QED
    BY <2>1, <2>2
<1>5. CASE UNCHANGED vars
  BY <1>5 DEF FoundIsThere, vars, View, Current
<1>6. CASE \/ StartRun \/ FetchRaises \/ FetchReturns \/ CommitSource \/ SkipUnknownProduct
           \/ InsertByBuild \/ RefreshByBuild \/ RefreshByKey
           \/ SelectHintRows \/ ApplyHint \/ CommitHints
           \/ FinishRun \/ NotifyNewPatches \/ NotifyFetchErrors \/ DeadlockAborts \/ Unwind \/ Crash
  <2>1. pc' \notin {"refreshBuild", "refreshKey"}
    BY <1>6 DEF AtItem, SourcesDone, StartRun, FetchRaises, FetchReturns, CommitSource,
       SkipUnknownProduct, InsertByBuild, Insert, RefreshByBuild, RefreshByKey,
       SelectHintRows, ApplyHint, CommitHints, FinishRun, NotifyNewPatches, NotifyFetchErrors,
       DeadlockAborts, Unwind, Crash
  <2> QED
    BY <2>1 DEF FoundIsThere
<1>7. CASE AdminStep
  <2>1. Patient \/ UNCHANGED vars
    OBVIOUS
  <2> QED
    BY <1>5, <1>7, <2>1, FoundSurvives
<1> QED
  BY <1>3, <1>4, <1>5, <1>6, <1>7 DEF Next, RefreshStep

-----------------------------------------------------------------------------
(* One item after another *)

\* The item is behind: it has its row, and the operator waits for it.
Advances ==
  /\ pc' = "upsert" /\ run'.at = run.at + 1 /\ run'.res = run.res
  /\ \A id \in DOMAIN work :
       /\ id \in DOMAIN work'
       /\ \/ work'[id] = work[id]
          \/ KeyOf(work'[id]) = KeyOf(work[id]) /\ Realises(work'[id], KeyOf(Current))
  /\ Known => \E id \in DOMAIN work' : /\ Realises(work'[id], KeyOf(Current))
                                       /\ work'[id].manual \/ work'[id].info = Current.info
\* The next statement is about the same item, or there is none.
Pauses == \/ run'.at = run.at /\ run'.res = run.res /\ work' = work
          \/ pc' = "aborted"

LEMMA InsertAdvances ==
  ASSUME PipelineInv, NEW t, t = run \/ t = Touch(run), Insert(t)
  PROVE  Advances
<1>1. run \in Locals
  BY TablesTyped DEF TypeOK
<1>2. run'.at = run.at + 1 /\ run'.res = run.res /\ pc' = "upsert"
  BY <1>1, StepsKeepPlace DEF Insert
<1>3. nextId \notin DOMAIN work /\ work' = Put(work, nextId, Scraped(Current))
  BY TablesTyped DEF Insert, TypeOK
<1>4. /\ DOMAIN work' = DOMAIN work \cup {nextId} /\ work'[nextId] = Scraped(Current)
      /\ \A id \in DOMAIN work : work'[id] = work[id]
  BY <1>3 DEF Put
<1>5. Realises(Scraped(Current), KeyOf(Current)) /\ Scraped(Current).info = Current.info
  BY DEF Realises, Scraped, KeyOf
<1> QED
  BY <1>2, <1>4, <1>5 DEF Advances

LEMMA RefreshedReflects ==
  ASSUME NEW r \in Row, NEW it \in Item
  PROVE  /\ RefreshedByBuild(r, it).manual \/ RefreshedByBuild(r, it).info = it.info
         /\ RefreshedByKey(r, it).manual \/ RefreshedByKey(r, it).info = it.info
BY DEF Row, Item, RefreshedByBuild, RefreshedByKey

LEMMA BuildRefreshAdvances ==
  ASSUME PipelineInv, FoundIsThere, RefreshByBuild
  PROVE  Advances
<1> DEFINE id == run.found
           r  == RefreshedByBuild(View[id], Current)
<1>1. run \in Locals /\ Current \in Item
  BY AtItemFacts, TablesTyped DEF RefreshByBuild, TypeOK
<1>2. id \in DOMAIN View /\ View[id].product = Current.product /\ View[id].build = Current.build
      /\ Current.kb = Blank
  BY DEF RefreshByBuild, FoundIsThere, WithBuild, BuildOnly
<1>3. View[id] \in Row /\ \A i \in DOMAIN work : View[i] = work[i]
  BY <1>2, TablesTyped
<1>4. r \in Row /\ KeyOf(r) = KeyOf(View[id]) /\ (r.manual \/ r.info = Current.info)
  BY <1>1, <1>3, ItemTyped, ItemRefreshes, RefreshedReflects
<1>5. work' = Put(work, id, r)
  BY <1>2 DEF RefreshByBuild
<1>6. Realises(r, KeyOf(Current))
  BY <1>2, <1>4 DEF Realises, KeyOf
<1>7. pc' = "upsert" /\ run'.at = run.at + 1 /\ run'.res = run.res
  BY <1>1, StepsKeepPlace DEF RefreshByBuild
<1> HIDE DEF id, r
<1>8. /\ DOMAIN work' = DOMAIN work \cup {id} /\ work'[id] = r
      /\ \A i \in DOMAIN work : i # id => work'[i] = work[i]
  BY <1>5 DEF Put
<1> QED
  BY <1>3, <1>4, <1>6, <1>7, <1>8 DEF Advances

LEMMA KeyRefreshAdvances ==
  ASSUME PipelineInv, FoundIsThere, RefreshByKey
  PROVE  Advances
<1> DEFINE ids == WithKey(View, KeyOf(Current))
<1>1. run \in Locals /\ Current \in Item
  BY AtItemFacts, TablesTyped DEF RefreshByKey, TypeOK
<1>2. work' = [id \in DOMAIN work \cup ids |->
                 IF id \in ids THEN RefreshedByKey(View[id], Current) ELSE work[id]]
  BY DEF RefreshByKey
<1>3. ids \subseteq DOMAIN View /\ ids # {} /\ \A id \in ids : KeyOf(View[id]) = KeyOf(Current)
  BY DEF WithKey, RefreshByKey, FoundIsThere
<1> HIDE DEF ids
<1>4. /\ DOMAIN work' = DOMAIN work \cup ids
      /\ \A id \in DOMAIN work' :
           work'[id] = IF id \in ids THEN RefreshedByKey(View[id], Current) ELSE work[id]
  BY <1>2
<1>5. \A id \in ids : LET r == RefreshedByKey(View[id], Current)
                      IN KeyOf(r) = KeyOf(Current) /\ (r.manual \/ r.info = Current.info)
  BY <1>1, <1>3, TablesTyped, ItemRefreshes, RefreshedReflects
<1>6. \A row : KeyOf(row) = KeyOf(Current) => Realises(row, KeyOf(Current))
  BY DEF Realises, KeyOf
<1>7. pc' = "upsert" /\ run'.at = run.at + 1 /\ run'.res = run.res
  BY <1>1, StepsKeepPlace DEF RefreshByKey
<1>8. \A id \in DOMAIN work : View[id] = work[id]
  BY TablesTyped
<1> QED
  BY <1>3, <1>4, <1>5, <1>6, <1>7, <1>8 DEF Advances

LEMMA UpsertsAdvance ==
  ASSUME PipelineInv, FoundIsThere, Upserts
  PROVE  Advances \/ Pauses
<1>1. run \in Locals
  BY TablesTyped DEF TypeOK
<1>2. CASE SkipUnknownProduct
  <2>1. work' = work /\ ~Known /\ pc' = "upsert" /\ run' = Advance(run)
    BY <1>2 DEF SkipUnknownProduct, AtItem
  <2> QED
    BY <1>1, <2>1, StepsKeepPlace DEF Advances
<1>3. CASE SelectByBuild
  <2>1. \/ run' = Touch(run) \/ \E id : run' = [Touch(run) EXCEPT !.found = id]
        \/ pc' = "aborted"
    BY ONLY <1>3, Zenon DEF SelectByBuild
  <2>2. work' = work
    BY <1>3 DEF SelectByBuild
  <2>3. /\ Touch(run).at = run.at /\ Touch(run).res = run.res
        /\ \A id : /\ [Touch(run) EXCEPT !.found = id].at = run.at
                   /\ [Touch(run) EXCEPT !.found = id].res = run.res
    BY ONLY <1>1, StepsKeepPlace, Zenon
  <2> QED
    BY ONLY <2>1, <2>2, <2>3, Zenon DEF Pauses
<1>4. CASE InsertByBuild
  <2>1. CASE WithKey(View, KeyOf(Current)) = {}
    BY <1>4, <2>1, InsertAdvances DEF InsertByBuild
  <2>2. CASE WithKey(View, KeyOf(Current)) # {}
    BY <1>4, <2>2 DEF InsertByBuild, Pauses
  <2> QED
    BY <2>1, <2>2
<1>5. CASE InsertOnConflict
  <2>1. CASE WithKey(View, KeyOf(Current)) = {}
    BY <1>5, <2>1, InsertAdvances DEF InsertOnConflict
  <2>2. CASE WithKey(View, KeyOf(Current)) # {}
    <3>1. run' = Touch(run) /\ work' = work
      BY <1>5, <2>2 DEF InsertOnConflict
    <3> QED
      BY <1>1, <3>1, StepsKeepPlace DEF Pauses
  <2> QED
    BY <2>1, <2>2
<1> QED
  BY <1>2, <1>3, <1>4, <1>5, BuildRefreshAdvances, KeyRefreshAdvances DEF Upserts

-----------------------------------------------------------------------------
(* What the items behind have left *)

\* The row says what the item does, unless a human or an item after it said otherwise.
ReflectedIn(row, items, i, at) ==
  /\ Realises(row, KeyOf(items[i]))
  /\ \/ row.manual \/ row.info = items[i].info
     \/ \E j \in DOMAIN items : i < j /\ j < at /\ Realises(row, KeyOf(items[j]))
Reflected ==
  pc \in Upserting =>
    \A i \in DOMAIN run.res.patches :
      i < run.at /\ run.res.patches[i].product \in DOMAIN products \cup DOMAIN newProducts =>
        \E id \in DOMAIN work : ReflectedIn(work[id], run.res.patches, i, run.at)

LEMMA AdvanceReflects ==
  ASSUME PipelineInv, Reflected, pc \in Upserting, Advances, run.at \in DOMAIN run.res.patches,
         UNCHANGED <<products, newProducts>>
  PROVE  Reflected'
<1>1. run.at \in Nat
  BY TablesTyped, RunTyped
<1>2. run'.res = run.res /\ run'.at = run.at + 1
  BY DEF Advances
<1> DEFINE items == run.res.patches
<1>3. Current = items[run.at]
  BY DEF Current
<1> HIDE DEF items
<1> SUFFICES ASSUME NEW i \in DOMAIN items, i < run.at + 1,
                    items[i].product \in DOMAIN products \cup DOMAIN newProducts
             PROVE  \E id \in DOMAIN work' : ReflectedIn(work'[id], items, i, run.at + 1)
  BY <1>2 DEF Reflected, items
<1>4. i \in Nat /\ run.at \in DOMAIN items
  BY TablesTyped, RunTyped DEF items
<1>5. CASE i = run.at
  BY <1>3, <1>5 DEF Advances, Known, ReflectedIn
<1>6. CASE i < run.at
  <2>1. PICK id \in DOMAIN work : ReflectedIn(work[id], items, i, run.at)
    BY <1>6 DEF Reflected, items
  <2>2. id \in DOMAIN work'
    BY DEF Advances
  <2>3. CASE work'[id] = work[id]
    <3>1. \A j \in DOMAIN items : j < run.at => j < run.at + 1
      BY <1>1, TablesTyped, RunTyped DEF items
    <3> QED
      BY <2>1, <2>2, <2>3, <3>1 DEF ReflectedIn
  <2>4. CASE KeyOf(work'[id]) = KeyOf(work[id]) /\ Realises(work'[id], KeyOf(Current))
    <3>1. Realises(work'[id], KeyOf(items[i]))
      BY <2>1, <2>4 DEF ReflectedIn, Realises, KeyOf
    <3>2. run.at < run.at + 1
      BY <1>1
    <3> QED
      BY <1>3, <1>4, <1>6, <2>2, <2>4, <3>1, <3>2 DEF ReflectedIn
  <2> QED
    BY <2>3, <2>4 DEF Advances
<1> QED
  BY <1>1, <1>4, <1>5, <1>6

LEMMA ReflectedStays ==
  ASSUME PipelineInv, FoundIsThere, Reflected, [Next]_vars
  PROVE  Reflected'
<1>1. CASE Upserts
  <2>1. UNCHANGED <<products, newProducts>> /\ pc \in Upserting
    BY <1>1, TablesTyped, UpsertsKeepResult, UpsertsKeepHints DEF Upserts
  <2>2. CASE Advances
    <3>1. run.at \in DOMAIN run.res.patches
      <4>1. AtItem \/ pc \in {"insertBuild", "refreshBuild", "refreshKey"}
        BY <1>1 DEF Upserts, SkipUnknownProduct, SelectByBuild, InsertByBuild, RefreshByBuild,
           InsertOnConflict, RefreshByKey
      <4> QED
        BY <4>1, AtItemFacts
    <3> QED
      BY <2>1, <2>2, <3>1, AdvanceReflects
  <2>3. CASE run'.at = run.at /\ run'.res = run.res /\ work' = work
    BY <2>1, <2>3 DEF Reflected
  <2>4. CASE pc' = "aborted"
    BY <2>4 DEF Reflected, Upserting
  <2> QED
    BY <1>1, <2>2, <2>3, <2>4, UpsertsAdvance DEF Pauses
<1>2. CASE FetchReturns
  <2>1. run'.at = 1 /\ pc' = "upsert"
    <3>1. run \in Locals
      BY TablesTyped DEF TypeOK
    <3>2. PICK r : run' = [run EXCEPT !.res = r, !.at = 1, !.errors = @ \o r.errors,
                                      !.before = Len(run.notices), !.hints = Overlay(@, r.hints)]
      BY <1>2 DEF FetchReturns
    <3> QED
      BY <1>2, <3>1, <3>2 DEF Locals, FetchReturns
  <2>2. TypeOK'
    BY NextKeeps DEF PipelineInv
  <2>3. \A i \in DOMAIN run'.res.patches : ~ (i < 1)
    <3>1. run'.res.patches \in Seq(Item)
      BY <2>2 DEF TypeOK, Locals, Result
    <3> QED
      BY <3>1
  <2> QED
    BY <2>1, <2>3 DEF Reflected
<1>3. CASE \/ StartRun \/ FetchRaises \/ CommitSource \/ SelectHintRows \/ ApplyHint
           \/ CommitHints \/ FinishRun \/ NotifyNewPatches \/ NotifyFetchErrors \/ DeadlockAborts \/ Unwind \/ Crash
  <2>1. pc' \notin Upserting
    BY <1>3 DEF Upserting, SourcesDone, StartRun, FetchRaises, CommitSource, SelectHintRows, ApplyHint,
       CommitHints, FinishRun, NotifyNewPatches, NotifyFetchErrors, DeadlockAborts, Unwind, Crash
  <2> QED
    BY <2>1 DEF Reflected
<1>4. CASE UNCHANGED vars
  BY <1>4 DEF Reflected, vars
<1>5. CASE AdminStep
  BY <1>5, OperatorWrites DEF Reflected
<1> QED
  BY <1>1, <1>2, <1>3, <1>4, <1>5 DEF Next, RefreshStep, Upserts

ReflectInv == PipelineInv /\ FoundIsThere /\ Reflected

\* A source's commit leaves every release it reported in the table, with its last
\* values unless a human protects the row: for any sources, hints and kills, however
\* often a release is listed, and with an operator who does not take the row of a
\* release from under the statement that refreshes it (_upsert_patch).
THEOREM SourcesAreReflected == Spec /\ FoundUndisturbed => SourceIsReflected
<1> DEFINE Reflects ==
       LET items == run.res.patches IN
       \A i \in DOMAIN items :
         items[i].product \in DOMAIN products' =>
           \E id \in DOMAIN patches' :
             /\ Realises(patches'[id], KeyOf(items[i]))
             /\ \/ patches'[id].manual
                \/ patches'[id].info = items[i].info
                \/ \E j \in DOMAIN items : j > i /\ Realises(patches'[id], KeyOf(items[j]))
<1>1. Init => ReflectInv
  <2>1. Init => FoundIsThere /\ Reflected
    BY DEF Init, FoundIsThere, Reflected, Upserting
  <2> QED
    BY <2>1, InitEstablishes DEF ReflectInv
<1>2. ReflectInv /\ [Next]_vars /\ [Patient]_vars => ReflectInv'
  BY NextKeeps, FoundStaysThere, ReflectedStays DEF ReflectInv
<1>3. ReflectInv /\ CommitSource => Reflects
  <2> SUFFICES ASSUME ReflectInv, CommitSource
               PROVE  Reflects
    OBVIOUS
  <2>1. /\ pc \in Upserting /\ run.at > Len(run.res.patches)
        /\ \A id \in DOMAIN work : id \in DOMAIN patches' /\ patches'[id] = work[id]
        /\ DOMAIN products' = DOMAIN products \cup DOMAIN newProducts
    BY DEF CommitSource, Upserting, View, Overlay
  <2>2. run.res.patches \in Seq(Item) /\ run.at \in Nat
    BY TablesTyped, RunTyped DEF ReflectInv
  <2>3. \A i \in DOMAIN run.res.patches : i \in Nat /\ i < run.at
    BY <2>1, <2>2
  <2> SUFFICES ASSUME NEW i \in DOMAIN run.res.patches,
                      run.res.patches[i].product \in DOMAIN products'
               PROVE  \E id \in DOMAIN patches' :
                        ReflectedIn(patches'[id], run.res.patches, i, run.at)
    <3>1. \A k, j \in DOMAIN run.res.patches : k < j => j > k
      BY <2>3
    <3> QED
      BY <3>1 DEF ReflectedIn
  <2> QED
    BY <2>1, <2>3 DEF ReflectInv, Reflected
<1>4. ReflectInv /\ [Next]_vars => [CommitSource => Reflects]_vars
  BY <1>3
<1> QED
  BY <1>1, <1>2, <1>4, PTL DEF Spec, FoundUndisturbed, SourceIsReflected

-----------------------------------------------------------------------------
(* One row per build *)

\* What the SELECT of the build-only branch found missing is still missing.
BuildIsNew ==
  pc = "insertBuild" => /\ BuildOnly(Current)
                        /\ WithBuild(View, Current.product, Current.build) = {}

LEMMA BuildStaysNew ==
  ASSUME [KeepsBuilds]_vars, HistoryInv, BuildIsNew, [Next]_vars
  PROVE  BuildIsNew'
<1>1. CASE SelectByBuild
  <2>1. CASE /\ WithBuild(View, Current.product, Current.build) = {}
             /\ pc' = "insertBuild" /\ run' = Touch(run)
    <3>1. run \in Locals /\ Current \in Item
      BY <1>1, InvTyped, AtItemFacts DEF SelectByBuild, TypeOK, HistoryInv
    <3>2. run'.res = run.res /\ run'.at = run.at
      BY <2>1, <3>1, TouchTyped
    <3>3. Current' = Current /\ View' = View
      BY <1>1, <3>2 DEF Current, View, SelectByBuild
    <3> QED
      BY <1>1, <2>1, <3>3 DEF BuildIsNew, SelectByBuild
  <2>2. CASE pc' # "insertBuild"
    BY <2>2 DEF BuildIsNew
  <2> QED
    BY ONLY <1>1, <2>1, <2>2, Zenon DEF SelectByBuild
<1>2. CASE UNCHANGED vars
  BY <1>2 DEF BuildIsNew, vars, View, Current
<1>3. CASE \/ StartRun \/ FetchRaises \/ FetchReturns \/ CommitSource \/ SkipUnknownProduct
           \/ InsertByBuild \/ RefreshByBuild \/ InsertOnConflict \/ RefreshByKey
           \/ SelectHintRows \/ ApplyHint \/ CommitHints
           \/ FinishRun \/ NotifyNewPatches \/ NotifyFetchErrors \/ DeadlockAborts \/ Unwind \/ Crash
  <2>1. pc' # "insertBuild"
    BY <1>3 DEF AtItem, SourcesDone, StartRun, FetchRaises, FetchReturns, CommitSource,
       SkipUnknownProduct, InsertByBuild, Insert, RefreshByBuild, InsertOnConflict, RefreshByKey,
       SelectHintRows, ApplyHint, CommitHints, FinishRun, NotifyNewPatches, NotifyFetchErrors,
       DeadlockAborts, Unwind, Crash
  <2> QED
    BY <2>1 DEF BuildIsNew
<1>4. CASE AdminStep /\ KeepsBuilds
  <2>1. /\ UNCHANGED <<run, pc, work>> /\ Current' = Current
        /\ View = Overlay(patches, work) /\ View' = Overlay(patches', work)
    BY <1>4, OperatorWrites DEF Current, View
  <2>2. ASSUME pc = "insertBuild", NEW id \in WithBuild(View', Current.product, Current.build)
        PROVE  id \in WithBuild(View, Current.product, Current.build)
    <3>1. Current.build # Blank /\ id \in DOMAIN View' /\ View'[id].build = Current.build
          /\ View'[id].product = Current.product
      BY <2>2 DEF BuildIsNew, BuildOnly, WithBuild
    <3>2. CASE id \in DOMAIN work
      BY <2>1, <3>1, <3>2 DEF Overlay, WithBuild
    <3>3. CASE id \notin DOMAIN work
      <4>1. id \in DOMAIN patches' /\ View'[id] = patches'[id]
        BY <2>1, <3>1, <3>3 DEF Overlay
      <4>2. id \in DOMAIN patches /\ SameRelease(patches[id], patches'[id])
        BY <1>4, <3>1, <4>1 DEF KeepsBuilds
      <4> QED
        BY <2>1, <3>1, <3>3, <4>1, <4>2 DEF Overlay, WithBuild, SameRelease
    <3> QED
      BY <3>2, <3>3
  <2>3. \A p, b : WithBuild(View', p, b) = {} <=> \A id : id \notin WithBuild(View', p, b)
    OBVIOUS
  <2> QED
    BY <2>1, <2>2, <2>3 DEF BuildIsNew
<1> QED
  BY <1>1, <1>2, <1>3, <1>4 DEF Next, RefreshStep

\* An item of some offer.
Reported(it) == \E f \in DOMAIN Offers : \E r \in Offers[f] : \E i \in DOMAIN r.patches : it = r.patches[i]

\* No two reports of a build disagree on its KB number.
BuildsHaveOneKB ==
  \A f, g \in DOMAIN Offers : \A r \in Offers[f], s \in Offers[g] :
    \A i \in DOMAIN r.patches, j \in DOMAIN s.patches :
      r.patches[i].build # Blank /\ r.patches[i].product = s.patches[j].product
        /\ r.patches[i].build = s.patches[j].build => r.patches[i].kb = s.patches[j].kb

OneRowEach(t) == \A i, j \in DOMAIN t : /\ t[i].product = t[j].product
                                        /\ t[i].build = t[j].build
                                        /\ t[i].build # Blank
                                        => i = j
\* A row has the KB number that was reported with its build, or had none.
KnownBuild(row) ==
  row.build # Blank =>
    \E it \in Item : /\ Reported(it) /\ it.product = row.product /\ it.build = row.build
                     /\ it.kb # Blank => row.kb = it.kb
BuildsKnown(t) == OneRowEach(t) /\ \A id \in DOMAIN t : KnownBuild(t[id])

ResultIsOffered == pc \in Upserting => /\ Fetchers[run.src] \in DOMAIN Offers
                                      /\ run.res \in Offers[Fetchers[run.src]]

BuildsInv == /\ HistoryInv /\ BuildIsNew /\ ResultIsOffered
             /\ BuildsKnown(patches) /\ BuildsKnown(View)

LEMMA OfferStays ==
  ASSUME HistoryInv, ResultIsOffered, [Next]_vars
  PROVE  ResultIsOffered'
<1>1. TypeOK /\ run \in Locals
  BY InvTyped DEF TypeOK
<1>2. CASE Upserts
  <2>1. run'.res = run.res /\ pc \in Upserting
    BY <1>1, <1>2, UpsertsKeepResult, UpsertsKeepHints DEF Upserts
  <2>2. run'.src = run.src
    <3>1. /\ Touch(run).src = run.src /\ Advance(run).src = run.src
          /\ Advance(Announce(run)).src = run.src /\ Advance(Announce(Touch(run))).src = run.src
          /\ \A id : [Touch(run) EXCEPT !.found = id].src = run.src
      BY <1>1 DEF Touch, Advance, Announce, Locals
    <3>2. \/ run' = run \/ run' = Touch(run) \/ run' = Advance(run)
          \/ run' = Advance(Announce(run)) \/ run' = Advance(Announce(Touch(run)))
          \/ \E id : run' = [Touch(run) EXCEPT !.found = id]
      <4>1. CASE SelectByBuild
        BY ONLY <4>1, Zenon DEF SelectByBuild
      <4>2. CASE SkipUnknownProduct \/ RefreshByBuild \/ RefreshByKey
        BY ONLY <4>2, Zenon DEF SkipUnknownProduct, RefreshByBuild, RefreshByKey
      <4>3. CASE InsertByBuild
        BY ONLY <4>3, Zenon DEF InsertByBuild, Insert
      <4>4. CASE InsertOnConflict
        BY ONLY <4>4, Zenon DEF InsertOnConflict, Insert
      <4> QED
        BY <1>2, <4>1, <4>2, <4>3, <4>4 DEF Upserts
    <3> QED
      BY ONLY <3>1, <3>2, Zenon
  <2> QED
    BY <2>1, <2>2 DEF ResultIsOffered
<1>3. CASE FetchReturns
  <2>1. run.src \in DOMAIN Fetchers /\ Fetchers[run.src] \in DOMAIN Offers
    BY <1>1, <1>3, OfferTyped, FetchersAssumption DEF FetchReturns
  <2>2. PICK r \in Offers[Fetchers[run.src]] :
          run' = [run EXCEPT !.res = r, !.at = 1, !.errors = @ \o r.errors,
                             !.before = Len(run.notices), !.hints = Overlay(@, r.hints)]
    BY <1>3 DEF FetchReturns
  <2>3. run'.res = r /\ run'.src = run.src
    BY <1>1, <2>2 DEF Locals
  <2> QED
    BY <2>1, <2>3 DEF ResultIsOffered
<1>4. CASE \/ StartRun \/ FetchRaises \/ CommitSource \/ SelectHintRows \/ ApplyHint
           \/ CommitHints \/ FinishRun \/ NotifyNewPatches \/ NotifyFetchErrors \/ DeadlockAborts \/ Unwind \/ Crash
  <2>1. pc' \notin Upserting
    BY <1>4 DEF Upserting, SourcesDone, StartRun, FetchRaises, CommitSource, SelectHintRows, ApplyHint,
       CommitHints, FinishRun, NotifyNewPatches, NotifyFetchErrors, DeadlockAborts, Unwind, Crash
  <2> QED
    BY <2>1 DEF ResultIsOffered
<1>5. CASE UNCHANGED vars \/ AdminStep
  BY <1>5, OperatorWaits DEF ResultIsOffered, vars
<1> QED
  BY <1>2, <1>3, <1>4, <1>5 DEF Next, RefreshStep, Upserts

\* A refreshed table keeps what is known of its builds.
LEMMA RefreshKnows ==
  ASSUME NEW t, NEW u, IsTable(t), IsTable(u), BuildsKnown(t), DOMAIN u = DOMAIN t,
         \A id \in DOMAIN t : History!Refreshed(t[id], u[id])
  PROVE  BuildsKnown(u)
<1>1. \A id \in DOMAIN u : /\ t[id] \in Row /\ u[id] \in Row
                           /\ u[id].product = t[id].product /\ u[id].build = t[id].build
                           /\ u[id].kb = t[id].kb \/ t[id].kb = Blank
  BY TableRow, RefreshedSays DEF Says
<1>2. OneRowEach(u)
  BY <1>1 DEF BuildsKnown, OneRowEach
<1>3. \A id \in DOMAIN u : KnownBuild(u[id])
  BY <1>1 DEF BuildsKnown, KnownBuild
<1> QED
  BY <1>2, <1>3 DEF BuildsKnown

\* So does a table in which the rows with a build are about the releases they were about.
LEMMA EditKnows ==
  ASSUME NEW t, NEW u, BuildsKnown(t),
         \A id \in DOMAIN u : u[id].build # Blank => id \in DOMAIN t /\ SameRelease(t[id], u[id])
  PROVE  BuildsKnown(u)
<1>1. OneRowEach(u)
  BY DEF BuildsKnown, OneRowEach, SameRelease
<1>2. \A id \in DOMAIN u : KnownBuild(u[id])
  BY DEF BuildsKnown, KnownBuild, SameRelease
<1> QED
  BY <1>1, <1>2 DEF BuildsKnown

LEMMA EditsKnow ==
  ASSUME BuildsInv, AdminStep, KeepsBuilds
  PROVE  BuildsKnown(patches') /\ BuildsKnown(View')
<1>1. BuildsKnown(patches')
  BY EditKnows DEF BuildsInv, KeepsBuilds
<1>2. work' = work /\ View = Overlay(patches, work) /\ View' = Overlay(patches', work)
  BY OperatorWrites DEF View
<1>3. ASSUME NEW id \in DOMAIN View', View'[id].build # Blank
      PROVE  id \in DOMAIN View /\ SameRelease(View[id], View'[id])
  <2>1. CASE id \in DOMAIN work
    BY <1>2, <2>1 DEF Overlay, SameRelease
  <2>2. CASE id \notin DOMAIN work
    <3>1. id \in DOMAIN patches' /\ View'[id] = patches'[id]
      BY <1>2, <1>3, <2>2 DEF Overlay
    <3>2. id \in DOMAIN patches /\ SameRelease(patches[id], patches'[id])
      BY <1>3, <3>1 DEF KeepsBuilds
    <3> QED
      BY <1>2, <2>2, <3>1, <3>2 DEF Overlay
  <2> QED
    BY <2>1, <2>2
<1> QED
  BY <1>1, <1>3, EditKnows DEF BuildsInv

\* BuildsHaveOneKB, for two items.
LEMMA OneKB ==
  ASSUME BuildsHaveOneKB, NEW a, NEW b, Reported(a), Reported(b),
         a.build # Blank, a.product = b.product, a.build = b.build
  PROVE  a.kb = b.kb
BY DEF BuildsHaveOneKB, Reported

LEMMA InsertKnows ==
  ASSUME BuildsHaveOneKB, BuildsInv, AtItem \/ pc = "insertBuild",
         pc = "insertBuild" \/ ~BuildOnly(Current), WithKey(View, KeyOf(Current)) = {},
         NEW t, Insert(t), UNCHANGED <<patches, corrections>>
  PROVE  BuildsKnown(View')
<1>1. nextId \notin DOMAIN View /\ View' = Put(View, nextId, Scraped(Current))
  BY InsertWrites DEF Insert, BuildsInv
<1>2. /\ DOMAIN View' = DOMAIN View \cup {nextId} /\ View'[nextId] = Scraped(Current)
      /\ \A id \in DOMAIN View : View'[id] = View[id]
  BY <1>1 DEF Put
<1>3. Current \in Item /\ Reported(Current)
  <2>1. Current \in Item /\ run.at \in DOMAIN run.res.patches
    BY AtItemFacts DEF BuildsInv, HistoryInv
  <2>2. pc \in Upserting
    BY DEF AtItem, Upserting
  <2> QED
    BY <2>1, <2>2 DEF BuildsInv, ResultIsOffered, Reported, Current
<1>4. KnownBuild(Scraped(Current))
  BY <1>3 DEF KnownBuild, Scraped
<1>5. ASSUME NEW id \in DOMAIN View, Current.build # Blank,
             View[id].product = Current.product, View[id].build = Current.build
      PROVE  FALSE
  <2>1. CASE pc = "insertBuild"
    BY <1>5, <2>1 DEF BuildsInv, BuildIsNew, WithBuild
  <2>2. CASE ~BuildOnly(Current)
    <3>1. PICK it \in Item : /\ Reported(it) /\ it.product = View[id].product /\ it.build = View[id].build
                             /\ it.kb # Blank => View[id].kb = it.kb
      <4>1. KnownBuild(View[id]) /\ View[id].build # Blank
        BY <1>5 DEF BuildsInv, BuildsKnown
      <4> QED
        BY ONLY <4>1 DEF KnownBuild
    <3>2. it.kb = Current.kb
      BY <1>3, <1>5, <3>1, OneKB
    <3>3. KeyOf(View[id]) = KeyOf(Current)
      BY <1>5, <2>2, <3>1, <3>2 DEF BuildOnly, KeyOf
    <3> QED
      BY <3>3 DEF WithKey
  <2> QED
    BY <2>1, <2>2
<1>6. OneRowEach(View')
  BY <1>2, <1>5 DEF OneRowEach, Scraped, BuildsInv, BuildsKnown
<1> QED
  BY <1>2, <1>4, <1>6 DEF BuildsKnown, BuildsInv

LEMMA StepsKnow ==
  ASSUME [KeepsBuilds]_vars, BuildsHaveOneKB, BuildsInv, HistoryInv', [Next]_vars
  PROVE  BuildsKnown(View')
<1>1. HistoryInv /\ IsTable(patches) /\ IsTable(View) /\ IsTable(patches') /\ IsTable(View')
  <2>1. IsTable(patches') /\ IsTable(work') /\ View' = Overlay(patches', work')
    BY DEF HistoryInv, PipelineInv, TypeOK, View
  <2>2. \A t, u : IsTable(t) /\ IsTable(u) => IsTable(Overlay(t, u))
    BY OverlayIsTable
  <2> QED
    BY <2>1, <2>2, InvTyped DEF BuildsInv
<1>2. CASE work' = Empty /\ patches' \in {patches, View}
  <2>1. View' = patches'
    BY <1>1, <1>2, OverlayEmpty DEF View
  <2> QED
    BY <1>2, <2>1 DEF BuildsInv
<1>3. ASSUME RefreshStep, ~Unwind, DOMAIN View' = DOMAIN View
      PROVE  BuildsKnown(View')
  BY <1>1, <1>3, RefreshRows, RefreshKnows DEF ViewGrows, BuildsInv
<1>4. CASE View' = View
  BY <1>4 DEF BuildsInv
<1>5. CASE InsertByBuild
  <2>1. CASE WithKey(View, KeyOf(Current)) = {}
    BY <1>5, <2>1, InsertKnows DEF InsertByBuild
  <2>2. CASE WithKey(View, KeyOf(Current)) # {}
    BY <1>4, <1>5, <2>2 DEF InsertByBuild, View
  <2> QED
    BY <2>1, <2>2
<1>6. CASE InsertOnConflict
  <2>1. CASE WithKey(View, KeyOf(Current)) = {}
    BY <1>6, <2>1, InsertKnows DEF InsertOnConflict
  <2>2. CASE WithKey(View, KeyOf(Current)) # {}
    BY <1>4, <1>6, <2>2 DEF InsertOnConflict, View
  <2> QED
    BY <2>1, <2>2
<1>7. CASE RefreshByBuild \/ RefreshByKey \/ ApplyHint
  <2>1. RefreshStep /\ ~Unwind /\ patches' = patches
    BY <1>7 DEF RefreshStep, Unwind, RefreshByBuild, RefreshByKey, ApplyHint
  <2>2. DOMAIN work \subseteq DOMAIN work' /\ DOMAIN work' \subseteq DOMAIN View
    <3>1. DOMAIN work \subseteq DOMAIN View
      BY <1>1, InvTyped
    <3>2. CASE RefreshByBuild
      BY <3>1, <3>2 DEF RefreshByBuild, Put
    <3>3. CASE RefreshByKey
      <4>1. \A k : WithKey(View, k) \subseteq DOMAIN View
        BY DEF WithKey
      <4> QED
        BY <3>1, <3>3, <4>1 DEF RefreshByKey
    <3>4. CASE ApplyHint
      BY <3>1, <3>4 DEF ApplyHint, Hinted, Put
    <3> QED
      BY <1>7, <3>2, <3>3, <3>4
  <2>3. DOMAIN View' = DOMAIN View
    BY <2>1, <2>2 DEF View, Overlay
  <2> QED
    BY <1>3, <2>1, <2>3
<1>8. CASE CommitSource \/ CommitHints \/ Unwind \/ Crash
  BY <1>2, <1>8 DEF CommitSource, CommitHints, Unwind, Crash
<1>9. CASE \/ StartRun \/ FetchRaises \/ FetchReturns \/ SkipUnknownProduct \/ SelectByBuild
           \/ SelectHintRows \/ FinishRun \/ NotifyNewPatches \/ NotifyFetchErrors \/ DeadlockAborts \/ UNCHANGED vars
  BY <1>4, <1>9 DEF StartRun, FetchRaises, FetchReturns, SkipUnknownProduct, SelectByBuild,
     SelectHintRows, FinishRun, NotifyNewPatches, NotifyFetchErrors, DeadlockAborts, vars, View
<1>10. CASE AdminStep /\ KeepsBuilds
  BY <1>10, EditsKnow
<1> QED
  BY <1>5, <1>6, <1>7, <1>8, <1>9, <1>10 DEF Next, RefreshStep

LEMMA BuildsGoOn ==
  BuildsHaveOneKB /\ BuildsInv /\ [Next]_vars /\ [Considerate]_vars /\ [KeepsBuilds]_vars => BuildsInv'
<1> SUFFICES ASSUME BuildsHaveOneKB, BuildsInv, [Next]_vars, [Considerate]_vars, [KeepsBuilds]_vars
             PROVE  BuildsInv'
  OBVIOUS
<1>1. HistoryInv /\ HistoryInv' /\ HistoryStep
  BY HistoryGoesOn DEF BuildsInv
<1>2. BuildIsNew' /\ ResultIsOffered'
  BY <1>1, BuildStaysNew, OfferStays DEF BuildsInv
<1>3. BuildsKnown(View')
  BY <1>1, StepsKnow
<1>4. BuildsKnown(patches')
  <2>1. CASE patches' = patches
    BY <2>1 DEF BuildsInv
  <2>2. CASE patches' = View
    BY <2>2 DEF BuildsInv
  <2>3. CASE AdminStep /\ ~UNCHANGED vars
    BY <2>3, EditsKnow
  <2>4. ~AdminStep \/ UNCHANGED vars => patches' = patches \/ patches' = View
    BY DEF Next, RefreshStep, Crash, vars, StartRun, FetchRaises,
       FetchReturns, CommitSource, SkipUnknownProduct, SelectByBuild, InsertByBuild, RefreshByBuild,
       InsertOnConflict, RefreshByKey, SelectHintRows, ApplyHint, CommitHints, FinishRun,
       NotifyNewPatches, NotifyFetchErrors, DeadlockAborts, Unwind
  <2> QED
    BY <2>1, <2>2, <2>3, <2>4
<1> QED
  BY <1>1, <1>2, <1>3, <1>4 DEF BuildsInv

LEMMA BuildsStart == Init => BuildsInv
<1> SUFFICES ASSUME Init
             PROVE  BuildsInv
  OBVIOUS
<1>1. BuildIsNew /\ ResultIsOffered
  BY DEF Init, BuildIsNew, ResultIsOffered, Upserting
<1>2. patches = Empty /\ View = Empty
  BY OverlayEmpty, EmptyIsTable DEF Init, View
<1>3. BuildsKnown(patches) /\ BuildsKnown(View)
  BY <1>2, EmptyIsTable DEF BuildsKnown, OneRowEach
<1> QED
  BY <1>1, <1>3, HistoryStarts DEF BuildsInv

\* A build has one row, however often and by however many sources it is reported,
\* whichever hint fills in its KB number in between and wherever a run is killed
\* (the build-only branch of _upsert_patch), as long as the sources agree on the KB
\* number that goes with a build and the operator leaves the builds to them.
THEOREM BuildsHaveOneRow ==
  BuildsHaveOneKB /\ Spec /\ HintsUndisturbed /\ BuildsUndisturbed => []OneRowPerBuild
<1> SUFFICES ASSUME BuildsHaveOneKB
             PROVE  Spec /\ HintsUndisturbed /\ BuildsUndisturbed => []OneRowPerBuild
  OBVIOUS
<1>1. Init => BuildsInv
  BY BuildsStart
<1>2. BuildsInv /\ [Next]_vars /\ [Considerate]_vars /\ [KeepsBuilds]_vars => BuildsInv'
  BY BuildsGoOn
<1>3. BuildsInv => OneRowPerBuild
  BY DEF BuildsInv, BuildsKnown, OneRowEach, OneRowPerBuild
<1> QED
  BY <1>1, <1>2, <1>3, PTL DEF Spec, HintsUndisturbed, BuildsUndisturbed

-----------------------------------------------------------------------------
(* No exception leaves run_all_fetchers *)

\* A form leaves the build of the row it was filled in for, and its KB number if there is
\* no build; the row, if it is still there, has the build it had.
EditFits(e) == /\ e.form.build = e.loaded.build
               /\ e.loaded.build = Blank => e.form.kb = e.loaded.kb
               /\ e.id < nextId
               /\ e.id \in DOMAIN View => View[e.id].build = e.loaded.build
EditsInv == \A e \in edits : EditFits(e)

\* What such a form stores is about the release its row was about.
LEMMA FormKeepsRow ==
  ASSUME EditsInv, HistoryInv, NEW e \in edits, e.id \in DOMAIN patches \ DOMAIN work
  PROVE  LET row == Changed(patches[e.id], e.loaded, e.form)
         IN /\ row.product = patches[e.id].product /\ row.build = patches[e.id].build
            /\ row.build = Blank => row.kb = patches[e.id].kb
<1>1. patches[e.id] \in Row /\ View[e.id] = patches[e.id] /\ e.id \in DOMAIN View
  BY InvTyped, TableRow
<1>2. /\ e.form.build = e.loaded.build /\ patches[e.id].build = e.loaded.build
      /\ e.loaded.build = Blank => e.form.kb = e.loaded.kb
  BY <1>1 DEF EditsInv, EditFits
<1> QED
  BY <1>1, <1>2 DEF Changed, Row

\* Its key is held by its own row or by none, so it does not wait for the refresh.
LEMMA NoDeadlock ==
  ASSUME BuildsInv, EditsInv
  PROVE  \A e \in edits : ~Deadlocked(e)
<1> SUFFICES ASSUME NEW e \in edits, e.id \in DOMAIN patches \ DOMAIN work
             PROVE  ~KeyLocked(KeyOf(Changed(patches[e.id], e.loaded, e.form)))
  BY DEF Deadlocked, WaitsForTheRefresh
<1> DEFINE row == Changed(patches[e.id], e.loaded, e.form)
<1>1. HistoryInv /\ OneRowEach(patches) /\ OneRowEach(View) /\ UniqueKeys(patches) /\ UniqueKeys(View)
  BY DEF BuildsInv, BuildsKnown, HistoryInv, KeysAreUnique
<1>2. /\ row.product = patches[e.id].product /\ row.build = patches[e.id].build
      /\ row.build = Blank => row.kb = patches[e.id].kb
  BY <1>1, FormKeepsRow
<1>3. e.id \in DOMAIN View /\ View[e.id] = patches[e.id]
  BY <1>1, InvTyped
<1> HIDE DEF row
<1>4. ASSUME NEW t, OneRowEach(t), UniqueKeys(t), e.id \in DOMAIN t, t[e.id] = patches[e.id]
      PROVE  WithKey(t, KeyOf(row)) \subseteq {e.id}
  <2>1. ASSUME NEW j \in WithKey(t, KeyOf(row))
        PROVE  j = e.id
    <3>1. j \in DOMAIN t /\ KeyOf(t[j]) = KeyOf(row)
      BY <2>1 DEF WithKey
    <3>2. t[j].product = row.product /\ t[j].kb = row.kb /\ t[j].build = row.build
      BY <3>1 DEF KeyOf
    <3>3. CASE row.build # Blank
      BY <1>2, <1>4, <3>1, <3>2, <3>3 DEF OneRowEach
    <3>4. CASE row.build = Blank
      BY <1>2, <1>4, <3>1, <3>2, <3>4 DEF UniqueKeys, KeyOf
    <3> QED
      BY <3>3, <3>4
  <2> QED
    BY <2>1
<1>5. WithKey(patches, KeyOf(row)) \subseteq {e.id} /\ WithKey(View, KeyOf(row)) \subseteq {e.id}
  BY <1>1, <1>3, <1>4
<1> QED
  BY <1>5 DEF KeyLocked, row

\* A step of the refresh shows the transaction no row it did not see but the one it
\* inserts, and a row keeps its build.
LEMMA RefreshKeepsBuilds ==
  ASSUME HistoryInv, RefreshStep
  PROVE  /\ edits' = edits /\ nextId' \in {nextId, nextId + 1}
         /\ DOMAIN View' \subseteq DOMAIN View \cup {nextId}
         /\ \A id \in DOMAIN View \cap DOMAIN View' : View'[id].build = View[id].build
<1>1. edits' = edits /\ nextId' \in {nextId, nextId + 1}
  BY DEF RefreshStep, StartRun, FetchRaises, FetchReturns, CommitSource, SkipUnknownProduct,
     SelectByBuild, InsertByBuild, RefreshByBuild, InsertOnConflict, Insert, RefreshByKey,
     SelectHintRows, ApplyHint, CommitHints, FinishRun, NotifyNewPatches, NotifyFetchErrors,
     DeadlockAborts, Unwind
<1>2. DOMAIN work' \subseteq DOMAIN View \cup {nextId} /\ DOMAIN patches' \subseteq DOMAIN View
  <2>1. DOMAIN work \subseteq DOMAIN View /\ DOMAIN patches \subseteq DOMAIN View
    BY InvTyped
  <2>2. CASE CommitSource \/ CommitHints \/ Unwind
    BY <2>1, <2>2, EmptyIsTable DEF CommitSource, CommitHints, Unwind
  <2>3. CASE InsertByBuild \/ InsertOnConflict
    BY <2>1, <2>3 DEF InsertByBuild, InsertOnConflict, Insert, Put
  <2>4. CASE RefreshByBuild
    BY <2>1, <2>4 DEF RefreshByBuild, Put
  <2>5. CASE RefreshByKey
    <3>1. \A k : WithKey(View, k) \subseteq DOMAIN View
      BY DEF WithKey
    <3> QED
      BY <2>1, <2>5, <3>1 DEF RefreshByKey
  <2>6. CASE ApplyHint
    BY <2>1, <2>6 DEF ApplyHint, Hinted, Put
  <2>7. CASE \/ StartRun \/ FetchRaises \/ FetchReturns \/ SkipUnknownProduct \/ SelectByBuild
             \/ SelectHintRows \/ FinishRun \/ NotifyNewPatches \/ NotifyFetchErrors \/ DeadlockAborts
    BY <2>1, <2>7 DEF StartRun, FetchRaises, FetchReturns, SkipUnknownProduct, SelectByBuild,
       SelectHintRows, FinishRun, NotifyNewPatches, NotifyFetchErrors, DeadlockAborts
  <2> QED
    BY <2>2, <2>3, <2>4, <2>5, <2>6, <2>7 DEF RefreshStep
<1>3. DOMAIN View' \subseteq DOMAIN View \cup {nextId}
  <2>1. DOMAIN View' = DOMAIN patches' \cup DOMAIN work'
    BY DEF View, Overlay
  <2> QED
    BY <1>2, <2>1
<1>4. ASSUME NEW id \in DOMAIN View, id \in DOMAIN View'
      PROVE  View'[id].build = View[id].build
  <2>1. View[id] \in Row
    BY <1>4, InvTyped
  <2>2. CASE Unwind
    <3>1. View' = patches
      BY <2>2, InvTyped, OverlayEmpty DEF Unwind, View
    <3>2. patches[id] \in Row /\ History!Refreshed(patches[id], View[id])
      BY <1>4, <3>1, InvTyped, TableRow, ViewRefreshes
    <3> QED
      BY <2>1, <3>1, <3>2, RefreshedSays DEF Says
  <2>3. CASE ~Unwind
    <3>1. History!Refreshed(View[id], View'[id])
      BY <1>4, <2>3, RefreshRows DEF ViewGrows
    <3> QED
      BY <2>1, <3>1 DEF History!Refreshed, Row
  <2> QED
    BY <2>2, <2>3
<1> QED
  BY <1>1, <1>3, <1>4

\* Neither does a step of the operator show the refresh a row it did not see but the one
\* he creates, and his forms leave the builds of their rows.
LEMMA EditsKeepBuilds ==
  ASSUME HistoryInv, EditsInv, AdminStep
  PROVE  /\ nextId' \in {nextId, nextId + 1} /\ DOMAIN View' \subseteq DOMAIN View \cup {nextId}
         /\ \A id \in DOMAIN View \cap DOMAIN View' : View'[id].build = View[id].build
<1>1. nextId' \in {nextId, nextId + 1} /\ work' = work
  BY DEF AdminStep, AdminCreate, AdminOpen, AdminStore, EditAborts, AdminDelete
<1>2. View' = Overlay(patches', work) /\ View = Overlay(patches, work)
  BY <1>1 DEF View
<1>3. /\ DOMAIN patches' \subseteq DOMAIN patches \cup {nextId}
      /\ \A id \in (DOMAIN patches \cap DOMAIN patches') \ DOMAIN work : patches'[id].build = patches[id].build
  <2>1. CASE AdminCreate
    <3>1. PICK r : patches' = Put(patches, nextId, r)
      BY <2>1 DEF AdminCreate
    <3>2. nextId \notin DOMAIN patches
      BY InvTyped DEF TypeOK
    <3> QED
      BY <3>1, <3>2 DEF Put
  <2>2. CASE AdminOpen \/ EditAborts
    BY <2>2 DEF AdminOpen, EditAborts
  <2>3. CASE AdminStore
    <3>1. PICK e \in edits :
            \/ patches' = patches
            \/ /\ e.id \in DOMAIN patches \ DOMAIN work
               /\ patches' = Put(patches, e.id, Changed(patches[e.id], e.loaded, e.form))
      BY <2>3 DEF AdminStore
    <3>2. CASE patches' = patches
      BY <3>2
    <3>3. CASE /\ e.id \in DOMAIN patches \ DOMAIN work
               /\ patches' = Put(patches, e.id, Changed(patches[e.id], e.loaded, e.form))
      <4>1. Changed(patches[e.id], e.loaded, e.form).build = patches[e.id].build
        BY <3>3, FormKeepsRow
      <4> QED
        BY <3>3, <4>1 DEF Put
    <3> QED
      BY <3>1, <3>2, <3>3
  <2>4. CASE AdminDelete
    BY <2>4 DEF AdminDelete, Drop
  <2> QED
    BY <2>1, <2>2, <2>3, <2>4 DEF AdminStep
<1> QED
  BY <1>1, <1>2, <1>3 DEF Overlay

LEMMA EditsGoOn ==
  ASSUME HistoryInv, HistoryInv', EditsInv, [EditsKeepReleases]_vars, [Next]_vars
  PROVE  EditsInv'
<1>1. nextId \in Nat /\ \A e \in edits : e.id \in Nat
  BY InvTyped DEF TypeOK, Edit
<1>2. ASSUME nextId' \in {nextId, nextId + 1}, DOMAIN View' \subseteq DOMAIN View \cup {nextId},
             \A id \in DOMAIN View \cap DOMAIN View' : View'[id].build = View[id].build,
             NEW e \in edits
      PROVE  EditFits(e)'
  BY <1>1, <1>2 DEF EditsInv, EditFits
<1>3. CASE RefreshStep
  <2>1. edits' = edits
    BY <1>3, RefreshKeepsBuilds
  <2> QED
    BY <1>2, <1>3, <2>1, RefreshKeepsBuilds DEF EditsInv
<1>4. CASE Crash
  BY <1>4 DEF Crash, EditsInv
<1>5. CASE AdminStep /\ ~UNCHANGED vars
  <2>1. EditsKeepReleases
    BY <1>5
  <2>2. ASSUME NEW e \in edits', e \notin edits
        PROVE  EditFits(e)'
    <3>1. AdminOpen
      BY <1>5, <2>2 DEF AdminStep, AdminCreate, AdminStore, EditAborts, AdminDelete
    <3>2. PICK id \in DOMAIN patches, f \in Forms : e = [id |-> id, loaded |-> patches[id], form |-> f]
      BY <2>2, <3>1 DEF AdminOpen
    <3>3. patches[id] \in Row /\ f \in Form /\ id \in DOMAIN View /\ id < nextId
      BY <3>2, InvTyped, TableRow, FormsAssumption
    <3>4. SameRelease(patches[id], Changed(patches[id], patches[id], f))
      BY <1>5, <2>1, <2>2, <3>2 DEF EditsKeepReleases
    <3>5. f.build = patches[id].build /\ (patches[id].build = Blank => f.kb = patches[id].kb)
      BY <3>3, <3>4 DEF SameRelease, Changed, Row
    <3>6. nextId' = nextId /\ View' = View
      BY <3>1 DEF AdminOpen, View
    <3>7. View[id].build = patches[id].build
      <4>1. View[id] \in Row /\ History!Refreshed(patches[id], View[id])
        BY <3>3, InvTyped, ViewRefreshes
      <4> QED
        BY <3>3, <4>1, RefreshedSays DEF Says
    <3> QED
      BY <3>2, <3>3, <3>5, <3>6, <3>7 DEF EditFits
  <2>3. ASSUME NEW e \in edits
        PROVE  EditFits(e)'
    BY <1>2, <1>5, <2>3, EditsKeepBuilds
  <2> QED
    BY <2>2, <2>3 DEF EditsInv
<1>6. CASE UNCHANGED vars
  <2>1. edits' = edits /\ nextId' = nextId /\ View' = View
    BY <1>6 DEF vars, View
  <2> QED
    BY <2>1 DEF EditsInv, EditFits
<1> QED
  BY <1>3, <1>4, <1>5, <1>6 DEF Next

\* Each of the three statements that may raise finds what the invariant says,
\* and no edit holds its row while it waits for the refresh.
LEMMA NothingRaises ==
  ASSUME BuildsInv, EditsInv, RunNeverAborts, [Next]_vars
  PROVE  RunNeverAborts'
<1>1. OneRowEach(View) /\ HistoryInv
  BY DEF BuildsInv, BuildsKnown
<1>2. CASE SelectByBuild
  <2>1. Current.build # Blank
    BY <1>2 DEF SelectByBuild, BuildOnly
  <2>2. \A i, j \in WithBuild(View, Current.product, Current.build) : i = j
    BY <1>1, <2>1 DEF OneRowEach, WithBuild
  <2>3. \/ pc' = "insertBuild" \/ pc' = "refreshBuild"
        \/ \E i, j \in WithBuild(View, Current.product, Current.build) : i # j
    BY ONLY <1>2, Zenon DEF SelectByBuild
  <2> QED
    BY <2>2, <2>3 DEF RunNeverAborts
<1>3. CASE InsertByBuild
  <2>1. WithKey(View, KeyOf(Current)) \subseteq WithBuild(View, Current.product, Current.build)
    BY DEF WithKey, WithBuild, KeyOf
  <2>2. WithBuild(View, Current.product, Current.build) = {}
    BY <1>3 DEF InsertByBuild, BuildsInv, BuildIsNew
  <2>3. WithKey(View, KeyOf(Current)) = {}
    BY <2>1, <2>2
  <2> QED
    BY <1>3, <2>3 DEF InsertByBuild, Insert, RunNeverAborts
<1>4. CASE ApplyHint
  <2>1. PICK h \in run.hintRows :
          LET hinted == [View[h.id] EXCEPT !.kb = h.kb, !.url = h.url]
          IN \/ pc' = pc
             \/ h.id \in DOMAIN View /\ ~ (WithKey(View, KeyOf(hinted)) \subseteq {h.id})
    BY <1>4 DEF ApplyHint, Hinted
  <2> DEFINE hinted == [View[h.id] EXCEPT !.kb = h.kb, !.url = h.url]
  <2>2. ASSUME h.id \in DOMAIN View
        PROVE  WithKey(View, KeyOf(hinted)) \subseteq {h.id}
    <3>1. View[h.id] \in Row /\ View[h.id].build # Blank
      BY <1>1, <1>4, <2>1, <2>2, InvTyped DEF ApplyHint, Hinted, HistoryInv, HintsFit, Hintable
    <3>2. KeyOf(hinted).product = View[h.id].product /\ KeyOf(hinted).build = View[h.id].build
      BY <3>1 DEF KeyOf, Row
    <3> HIDE DEF hinted
    <3> QED
      BY <1>1, <2>2, <3>1, <3>2 DEF WithKey, KeyOf, OneRowEach
  <2> QED
    BY <2>1, <2>2 DEF RunNeverAborts
<1>5. CASE \/ StartRun \/ FetchRaises \/ FetchReturns \/ CommitSource \/ SkipUnknownProduct
           \/ RefreshByBuild \/ InsertOnConflict \/ RefreshByKey \/ SelectHintRows \/ CommitHints
           \/ FinishRun \/ NotifyNewPatches \/ NotifyFetchErrors \/ Unwind \/ Crash
  BY <1>5 DEF RunNeverAborts, AtItem, StartRun, FetchRaises, FetchReturns, CommitSource,
     SkipUnknownProduct, Insert, RefreshByBuild, InsertOnConflict, RefreshByKey,
     SelectHintRows, CommitHints, FinishRun, NotifyNewPatches, NotifyFetchErrors, Unwind, Crash
<1>6. CASE AdminStep \/ UNCHANGED vars
  BY <1>6, OperatorWrites DEF RunNeverAborts, vars
<1>7. ~DeadlockAborts
  BY NoDeadlock DEF DeadlockAborts
<1> QED
  BY <1>2, <1>3, <1>4, <1>5, <1>6, <1>7 DEF Next, RefreshStep

\* No statement of a run raises, so no run is aborted by one, however sources fail and
\* wherever runs are killed, as long as the sources agree on the KB number that goes with
\* a build, the operator leaves the builds to them, and each form keeps the release of the
\* row it was filled in for: when "one bad source must not kill the run" is true of the
\* database as well (run manual_entry shows that it is false when he enters a second row
\* of a build; a form that changes the key of a row can deadlock with the refresh).
THEOREM RunsNeverAbort ==
  BuildsHaveOneKB /\ Spec /\ HintsUndisturbed /\ BuildsUndisturbed /\ FormsKeepReleases
    => []RunNeverAborts
<1> SUFFICES ASSUME BuildsHaveOneKB
             PROVE  Spec /\ HintsUndisturbed /\ BuildsUndisturbed /\ FormsKeepReleases
                      => []RunNeverAborts
  OBVIOUS
<1>1. Init => BuildsInv /\ EditsInv /\ RunNeverAborts
  BY BuildsStart DEF Init, EditsInv, RunNeverAborts
<1>2. /\ BuildsInv /\ EditsInv /\ RunNeverAborts /\ [Next]_vars
      /\ [Considerate]_vars /\ [KeepsBuilds]_vars /\ [EditsKeepReleases]_vars
      => BuildsInv' /\ EditsInv' /\ RunNeverAborts'
  <2>1. BuildsInv /\ [Next]_vars /\ [Considerate]_vars /\ [KeepsBuilds]_vars => BuildsInv'
    BY BuildsGoOn
  <2>2. BuildsInv => HistoryInv
    BY DEF BuildsInv
  <2>3. BuildsInv' => HistoryInv'
    BY DEF BuildsInv
  <2>4. BuildsInv /\ BuildsInv' /\ EditsInv /\ [EditsKeepReleases]_vars /\ [Next]_vars => EditsInv'
    BY <2>2, <2>3, EditsGoOn
  <2> QED
    BY <2>1, <2>4, NothingRaises
<1> QED
  BY <1>1, <1>2, PTL DEF Spec, HintsUndisturbed, BuildsUndisturbed, FormsKeepReleases
=============================================================================
