------------------------ MODULE DashboardReaderProofs ------------------------
(***************************************************************************)
(* What a visitor was shown stays true while refreshes commit in between:  *)
(* the row that a page displays may be read, searched and opened by three  *)
(* statements at three times, and each commit of a refresh only extends    *)
(* the history (HistoryStep of module HistoryProofs).  An operator may     *)
(* change or delete that row, but each write of his is counted, so the     *)
(* invariant speaks of a row as long as nothing was written since.         *)
(*                                                                         *)
(* A download selects the rows by the products it has read before, so that *)
(* it is complete rests on the foreign key, too: a row is never committed  *)
(* before its product.                                                     *)
(***************************************************************************)
EXTENDS DashboardReader, HistoryProofs, FiniteSetTheorems, WellFoundedInduction

USE DEF dbVars, txnVars, sentVars, adminVars, NoRow

-----------------------------------------------------------------------------
(* The foreign keys *)

\* A row is of a stored product once it is committed: _upsert_patch is called with
\* the ids of the products that the transaction has written before the rows.
ProductsAreStored ==
  /\ \A id \in DOMAIN patches : patches[id].product \in DOMAIN products
  /\ \A id \in DOMAIN work : work[id].product \in DOMAIN products \cup DOMAIN newProducts
  /\ pc \notin Upserting \cup {"aborted"} => DOMAIN newProducts = {}
  /\ pc = "insertBuild" => Known

LEMMA ViewIsStored ==
  ASSUME TypeOK, ProductsAreStored, NEW id \in DOMAIN View
  PROVE  View[id].product \in DOMAIN products \cup DOMAIN newProducts
BY ViewTyped DEF ProductsAreStored

\* A statement that is over has written rows of known products, or changed the
\* product of none.
LEMMA WritesAreStored ==
  ASSUME TypeOK, ProductsAreStored, UNCHANGED <<patches, products, newProducts>>,
         pc \in Upserting, pc' \in (Upserting \ {"insertBuild"}) \cup {"aborted"},
         \A id \in DOMAIN work' :
           \/ id \in DOMAIN View /\ work'[id].product = View[id].product
           \/ Known /\ work'[id].product = Current.product
  PROVE  ProductsAreStored'
BY ViewIsStored DEF ProductsAreStored, Known

LEMMA InsertStores ==
  ASSUME PipelineInv, ProductsAreStored, AtItem \/ pc = "insertBuild", Known, NEW t, Insert(t),
         UNCHANGED <<patches, products, newProducts>>
  PROVE  ProductsAreStored'
<1>1. nextId \in Nat /\ IsTable(work) /\ TypeOK
  BY DEF PipelineInv, TypeOK
<1>2. Scraped(Current) \in Row /\ Scraped(Current).product = Current.product
  BY AtItemFacts, ItemTyped DEF Scraped
<1>3. work' = Put(work, nextId, Scraped(Current)) /\ pc' = "upsert"
  BY DEF Insert
<1>4. /\ DOMAIN work' = DOMAIN work \cup {nextId} /\ work'[nextId] = Scraped(Current)
      /\ \A i \in DOMAIN work : i # nextId => work'[i] = work[i]
  BY <1>3 DEF Put
<1>5. \A id \in DOMAIN work' :
        \/ id \in DOMAIN View /\ work'[id].product = View[id].product
        \/ Known /\ work'[id].product = Current.product
  BY <1>1, <1>2, <1>4, ViewTyped
<1>6. pc \in Upserting
  BY DEF AtItem, Upserting
<1> QED
  BY <1>1, <1>3, <1>5, <1>6, WritesAreStored DEF Upserting

LEMMA UpsertsStore ==
  ASSUME PipelineInv, ProductsAreStored, Upserts
  PROVE  ProductsAreStored'
<1>1. /\ TypeOK /\ run \in Locals /\ pc \in Upserting
      /\ UNCHANGED <<patches, products, newProducts>>
  BY UpsertsKeepHints DEF PipelineInv, TypeOK, Upserts, SkipUnknownProduct, SelectByBuild,
     InsertByBuild, RefreshByBuild, InsertOnConflict, RefreshByKey
<1>2. CASE work' = work /\ pc' \in (Upserting \ {"insertBuild"}) \cup {"aborted"}
  BY <1>1, <1>2, ViewTyped, WritesAreStored
<1>3. CASE SkipUnknownProduct
  BY <1>2, <1>3 DEF SkipUnknownProduct, AtItem, Upserting
<1>4. CASE SelectByBuild
  <2>1. /\ work' = work /\ Known
        /\ \/ pc' \in {"refreshBuild", "aborted"}
           \/ pc' = "insertBuild" /\ run' = Touch(run)
    BY <1>4 DEF SelectByBuild
  <2>2. CASE run' = Touch(run) /\ pc' = "insertBuild"
    <3>1. run'.at = run.at /\ run'.res = run.res
      BY <1>1, <2>2 DEF Touch, Locals
    <3> QED
      BY <1>1, <2>1, <2>2, <3>1 DEF ProductsAreStored, Known, Current, Upserting
  <2> QED
    BY <1>2, <2>1, <2>2 DEF Upserting
<1>5. CASE InsertByBuild
  BY <1>1, <1>2, <1>5, InsertStores DEF InsertByBuild, ProductsAreStored
<1>6. CASE InsertOnConflict
  BY <1>1, <1>2, <1>6, InsertStores DEF InsertOnConflict, Upserting
<1>7. CASE RefreshByBuild
  <2>1. pc' = "upsert" /\ Current \in Item
    BY <1>7, AtItemFacts DEF RefreshByBuild
  <2>2. CASE run.found \in DOMAIN View
    <3> DEFINE r == RefreshedByBuild(View[run.found], Current)
    <3>1. run.found \in Nat /\ View[run.found] \in Row
      BY <1>1, <2>2, ViewTyped, TableRow
    <3>2. r \in Row /\ r.product = View[run.found].product
      BY <2>1, <3>1, ItemTyped DEF RefreshedByBuild, Row
    <3>3. work' = Put(work, run.found, r)
      BY <1>7, <2>2 DEF RefreshByBuild
    <3> HIDE DEF r
    <3>4. /\ DOMAIN work' = DOMAIN work \cup {run.found} /\ work'[run.found] = r
          /\ \A i \in DOMAIN work : i # run.found => work'[i] = work[i]
      BY <3>3 DEF Put
    <3> QED
      BY <1>1, <2>1, <2>2, <3>2, <3>4, ViewTyped, WritesAreStored DEF Upserting
  <2>3. CASE run.found \notin DOMAIN View
    BY <1>2, <1>7, <2>1, <2>3 DEF RefreshByBuild, Upserting
  <2> QED
    BY <2>2, <2>3
<1>8. CASE RefreshByKey
  <2>1. pc' = "upsert" /\ Current \in Item
    BY <1>8, AtItemFacts DEF RefreshByKey
  <2> DEFINE ids == WithKey(View, KeyOf(Current))
  <2>2. work' = [id \in DOMAIN work \cup ids |->
                   IF id \in ids THEN RefreshedByKey(View[id], Current) ELSE work[id]]
    BY <1>8 DEF RefreshByKey
  <2>3. \A id \in ids : id \in DOMAIN View /\ RefreshedByKey(View[id], Current).product = View[id].product
    BY <1>1, ViewTyped, TableRow DEF WithKey, RefreshedByKey, Row
  <2> HIDE DEF ids
  <2>4. \A id \in DOMAIN work' : id \in DOMAIN View /\ work'[id].product = View[id].product
    BY <1>1, <2>2, <2>3, ViewTyped
  <2> QED
    BY <1>1, <2>1, <2>4, WritesAreStored DEF Upserting
<1> QED
  BY <1>3, <1>4, <1>5, <1>6, <1>7, <1>8 DEF Upserts

\* The rows that become visible are of stored products: those of a source with its
\* products, those that a hint has changed as they were.
LEMMA CommitsStore ==
  ASSUME PipelineInv, ProductsAreStored, CommitSource \/ CommitHints
  PROVE  ProductsAreStored'
<1>1. TypeOK /\ DOMAIN work' = {} /\ patches' = View
  BY EmptyIsTable DEF PipelineInv, CommitSource, CommitHints
<1>2. CASE CommitSource
  <2>1. DOMAIN products' = DOMAIN products \cup DOMAIN newProducts /\ DOMAIN newProducts' = {} /\ pc' = "fetch"
    BY <1>2, EmptyIsTable DEF CommitSource, Overlay
  <2> QED
    BY <1>1, <2>1, ViewIsStored DEF ProductsAreStored
<1>3. CASE CommitHints
  <2>1. DOMAIN newProducts = {} /\ UNCHANGED <<products, newProducts>> /\ pc' = "finish"
    BY <1>3 DEF CommitHints, ProductsAreStored, Upserting
  <2> QED
    BY <1>1, <2>1, ViewIsStored DEF ProductsAreStored
<1> QED
  BY <1>2, <1>3

LEMMA HintStores ==
  ASSUME PipelineInv, ProductsAreStored, ApplyHint
  PROVE  ProductsAreStored'
<1>1. TypeOK /\ pc = "hints" /\ UNCHANGED <<patches, products, newProducts>>
  BY DEF PipelineInv, ApplyHint
<1>2. PICK h \in run.hintRows :
        \/ work' = work /\ pc' \in {"hints", "aborted"}
        \/ /\ h.id \in DOMAIN View /\ pc' = "hints"
           /\ work' = Put(work, h.id, [View[h.id] EXCEPT !.kb = h.kb, !.url = h.url])
  BY <1>1 DEF ApplyHint, Hinted
<1>3. CASE work' = work /\ pc' \in {"hints", "aborted"}
  BY <1>1, <1>3 DEF ProductsAreStored, Upserting
<1>4. CASE /\ h.id \in DOMAIN View /\ pc' = "hints"
           /\ work' = Put(work, h.id, [View[h.id] EXCEPT !.kb = h.kb, !.url = h.url])
  <2> DEFINE r == [View[h.id] EXCEPT !.kb = h.kb, !.url = h.url]
  <2>1. h \in HintRow /\ View[h.id] \in Row /\ h.id \in Nat
    BY <1>1, <1>4, RunTyped, ViewTyped, TableRow DEF TypeOK, Locals
  <2>2. r \in Row /\ r.product = View[h.id].product
    BY <2>1, HintedTyped DEF Row
  <2>3. work' = Put(work, h.id, r)
    BY <1>4
  <2> HIDE DEF r
  <2>4. /\ DOMAIN work' = DOMAIN work \cup {h.id} /\ work'[h.id] = r
        /\ \A i \in DOMAIN work : i # h.id => work'[i] = work[i]
    BY <2>3 DEF Put
  <2>5. \A id \in DOMAIN work' : work'[id].product \in DOMAIN products
    BY <1>1, <1>4, <2>2, <2>4, ViewIsStored DEF ProductsAreStored, Upserting
  <2> QED
    BY <1>1, <1>4, <2>5 DEF ProductsAreStored, Upserting
<1> QED
  BY <1>2, <1>3, <1>4

\* The operator creates a row for a stored product, and no form changes it.
LEMMA AdminStores ==
  ASSUME PipelineInv, ProductsAreStored, AdminStep
  PROVE  ProductsAreStored'
<1>1. /\ TypeOK /\ IsTable(patches) /\ edits \subseteq Edit /\ nextId \in Nat
      /\ UNCHANGED <<products, work, newProducts, pc, run>>
  BY DEF PipelineInv, TypeOK, AdminStep, AdminCreate, AdminOpen, AdminStore, EditAborts, AdminDelete
<1>2. SUFFICES \A id \in DOMAIN patches' : patches'[id].product \in DOMAIN products
  BY <1>1 DEF ProductsAreStored, Known, Current
<1>3. CASE AdminCreate
  <2>1. PICK row \in Row : patches' = Put(patches, nextId, row) /\ row.product \in DOMAIN products
    <3>1. PICK p \in DOMAIN products, f \in Forms :
            LET row == [product |-> p, kb |-> f.kb, build |-> f.build,
                        info |-> f.info, url |-> f.url, manual |-> f.manual]
            IN patches' = Put(patches, nextId, row)
      BY <1>3 DEF AdminCreate
    <3>2. f \in Form /\ p \in Products
      BY <1>1, FormsAssumption, ListedIsProduct DEF TypeOK
    <3> QED
      BY <3>1, <3>2 DEF Form, Row
  <2>2. /\ DOMAIN patches' = DOMAIN patches \cup {nextId} /\ patches'[nextId] = row
        /\ \A i \in DOMAIN patches : i # nextId => patches'[i] = patches[i]
    BY <2>1 DEF Put
  <2> QED
    BY <2>1, <2>2 DEF ProductsAreStored
<1>4. CASE patches' = patches
  BY <1>4 DEF ProductsAreStored
<1>5. CASE AdminStore
  <2>1. PICK e \in edits :
          \/ patches' = patches
          \/ /\ e.id \in DOMAIN patches
             /\ patches' = Put(patches, e.id, Changed(patches[e.id], e.loaded, e.form))
    BY <1>5 DEF AdminStore
  <2>2. CASE /\ e.id \in DOMAIN patches
             /\ patches' = Put(patches, e.id, Changed(patches[e.id], e.loaded, e.form))
    <3> DEFINE r == Changed(patches[e.id], e.loaded, e.form)
    <3>1. e.id \in Nat /\ patches[e.id] \in Row /\ e.form \in Form
      BY <1>1, <2>2, TableRow DEF Edit
    <3>2. r.product = patches[e.id].product
      BY <3>1 DEF Changed, Row
    <3>3. patches' = Put(patches, e.id, r)
      BY <2>2
    <3> HIDE DEF r
    <3>4. /\ DOMAIN patches' = DOMAIN patches \cup {e.id} /\ patches'[e.id] = r
          /\ \A i \in DOMAIN patches : i # e.id => patches'[i] = patches[i]
      BY <3>3 DEF Put
    <3> QED
      BY <2>2, <3>2, <3>4 DEF ProductsAreStored
  <2> QED
    BY <1>4, <2>1, <2>2
<1>6. CASE AdminDelete
  <2>1. PICK id : patches' = Drop(patches, id)
    BY <1>6 DEF AdminDelete
  <2> QED
    BY <2>1 DEF Drop, ProductsAreStored
<1> QED
  BY <1>3, <1>4, <1>5, <1>6 DEF AdminStep, AdminOpen, EditAborts

LEMMA ProductsStayStored ==
  ASSUME PipelineInv, ProductsAreStored, [Next]_vars
  PROVE  ProductsAreStored'
<1>1. CASE \/ StartRun \/ FetchRaises \/ SelectHintRows \/ FinishRun \/ NotifyNewPatches
           \/ NotifyFetchErrors \/ DeadlockAborts
  BY <1>1 DEF ProductsAreStored, Upserting, StartRun, FetchRaises, SelectHintRows, FinishRun,
     NotifyNewPatches, NotifyFetchErrors, DeadlockAborts, SourcesDone
<1>2. CASE FetchReturns
  <2>1. DOMAIN newProducts = {} /\ pc' = "upsert" /\ UNCHANGED <<patches, work, products>>
    BY <1>2 DEF FetchReturns, ProductsAreStored, Upserting
  <2> QED
    BY <2>1 DEF ProductsAreStored, Upserting
<1>3. CASE Unwind \/ Crash
  <2>1. DOMAIN work' = {} /\ DOMAIN newProducts' = {} /\ pc' = "idle" /\ UNCHANGED <<patches, products>>
    BY <1>3, EmptyIsTable DEF Unwind, Crash
  <2> QED
    BY <2>1 DEF ProductsAreStored
<1>4. CASE UNCHANGED vars
  BY <1>4 DEF vars, ProductsAreStored, Known, Current
<1> QED
  BY <1>1, <1>2, <1>3, <1>4, UpsertsStore, CommitsStore, HintStores, AdminStores
     DEF Next, RefreshStep, Upserts

-----------------------------------------------------------------------------
(* What visitors have been shown *)

\* Each row is in the table t, still says what it said, and is of the product it was
\* shown for.
InTable(t, latest) ==
  \A p \in DOMAIN latest :
    /\ latest[p].id \in DOMAIN t
    /\ StillSays(t[latest[p].id], latest[p].row)
    /\ latest[p].row.product = p

\* The rows that a download was asked for are there, and it goes through their products.
OnOffer(t, ids, ps) == \A id \in ids : id \in DOMAIN t /\ t[id].product \in ps

Request(r) ==
  /\ r = [at |-> r.at, products |-> r.products, latest |-> r.latest, ids |-> r.ids, since |-> r.since]
  /\ r.at = "rows" => \E p : r.products = {p}

Sightings ==
  /\ Request(reading)
  /\ reading.since \in Nat /\ reading.since <= corrections
  /\ shown.since \in Nat /\ shown.since <= corrections
  /\ reading.at = "search" /\ corrections = reading.since => InTable(patches, reading.latest)
  /\ corrections = shown.since => InTable(patches, shown.latest)
  /\ reading.at = "export" /\ corrections = reading.since =>
       OnOffer(patches, reading.ids, reading.products)

ReaderInv == HistoryInv /\ ProductsAreStored /\ Sightings

-----------------------------------------------------------------------------
(* A commit between two statements *)

LEMMA ExtensionKeepsRows ==
  ASSUME HistoryInv, HistoryInv', History!Extend, NEW latest, InTable(patches, latest)
  PROVE  InTable(patches', latest)
<1> SUFFICES ASSUME NEW p \in DOMAIN latest
             PROVE  /\ latest[p].id \in DOMAIN patches'
                    /\ StillSays(patches'[latest[p].id], latest[p].row)
                    /\ latest[p].row.product = p
  BY DEF InTable
<1> DEFINE id == latest[p].id
<1>1. id \in DOMAIN patches /\ StillSays(patches[id], latest[p].row) /\ latest[p].row.product = p
  BY DEF InTable
<1>2. id \in DOMAIN patches' /\ History!Refreshed(patches[id], patches'[id])
  BY <1>1 DEF History!Extend
<1>3. patches[id] \in Row /\ patches'[id] \in Row
  BY <1>1, <1>2, TableRow DEF HistoryInv, PipelineInv, TypeOK
<1>4. patches'[id] = patches[id] \/ Says(patches[id], patches'[id])
  BY <1>2, <1>3, RefreshedSays
<1>5. StillSays(patches'[id], latest[p].row)
  BY <1>1, <1>4 DEF StillSays, Says
<1> QED
  BY <1>1, <1>2, <1>5

LEMMA ExtensionKeepsOffer ==
  ASSUME HistoryInv, HistoryInv', History!Extend, NEW ids, NEW ps, OnOffer(patches, ids, ps)
  PROVE  OnOffer(patches', ids, ps)
<1> SUFFICES ASSUME NEW id \in ids
             PROVE  id \in DOMAIN patches' /\ patches'[id].product \in ps
  BY DEF OnOffer
<1>1. id \in DOMAIN patches /\ patches[id].product \in ps
  BY DEF OnOffer
<1>2. id \in DOMAIN patches' /\ History!Refreshed(patches[id], patches'[id])
  BY <1>1 DEF History!Extend
<1>3. patches[id] \in Row /\ patches'[id] \in Row
  BY <1>1, <1>2, TableRow DEF HistoryInv, PipelineInv, TypeOK
<1>4. patches'[id] = patches[id] \/ Says(patches[id], patches'[id])
  BY <1>2, <1>3, RefreshedSays
<1> QED
  BY <1>1, <1>2, <1>4 DEF Says

\* A step of the pipeline, while a request is read or when it is killed.
LEMMA TablesMoveOn ==
  ASSUME ReaderInv, HistoryInv', HistoryStep,
         UNCHANGED shown, reading' = reading \/ reading' = NotReading
  PROVE  Sightings'
<1>1. HistoryInv /\ Sightings /\ corrections \in Nat /\ corrections' \in Nat
  BY DEF ReaderInv, HistoryInv, PipelineInv, TypeOK
<1>2. Request(reading') /\ reading'.since \in Nat /\ reading'.since <= corrections
      /\ (reading'.at \in {"search", "export"} => reading' = reading)
  BY <1>1 DEF Sightings, NotReading, Request
<1>3. CASE corrections' = corrections + 1
  BY <1>1, <1>2, <1>3 DEF Sightings
<1>4. CASE /\ corrections' = corrections
           /\ \A latest : InTable(patches, latest) => InTable(patches', latest)
           /\ \A ids, ps : OnOffer(patches, ids, ps) => OnOffer(patches', ids, ps)
  BY <1>1, <1>2, <1>4 DEF Sightings
<1>5. CASE History!Extend
  BY <1>1, <1>4, <1>5, ExtensionKeepsRows, ExtensionKeepsOffer DEF History!Extend
<1>6. CASE History!Correct
  BY <1>3, <1>6 DEF History!Correct
<1>7. CASE UNCHANGED <<patches, corrections>>
  BY <1>4, <1>7
<1> QED
  BY <1>5, <1>6, <1>7 DEF HistoryStep

-----------------------------------------------------------------------------
(* The statements of a visitor *)

LEMMA LatestIsInTable ==
  ASSUME ReaderInv, ReadLatest, UNCHANGED vars
  PROVE  Sightings'
<1>1. PICK pick \in [{p \in Products : Newest(RowsOf(p)) # {}} -> DOMAIN patches] :
        /\ \A p \in DOMAIN pick : pick[p] \in Newest(RowsOf(p))
        /\ reading' = [reading EXCEPT !.at = "search",
             !.latest = [p \in DOMAIN pick |-> [id |-> pick[p], row |-> patches[pick[p]]]]]
  BY DEF ReadLatest
<1> DEFINE latest == [p \in DOMAIN pick |-> [id |-> pick[p], row |-> patches[pick[p]]]]
<1>2. InTable(patches, latest)
  BY <1>1 DEF InTable, StillSays, Newest, RowsOf
<1> HIDE DEF latest
<1>3. reading' = [reading EXCEPT !.at = "search", !.latest = latest] /\ Sightings
  BY <1>1 DEF ReaderInv, latest
<1>4. Request(reading') /\ reading'.latest = latest /\ reading'.since = reading.since
      /\ reading'.at = "search"
  BY <1>3 DEF Sightings, Request
<1>5. UNCHANGED <<patches, corrections, shown>>
  BY DEF ReadLatest, vars
<1> QED
  BY <1>2, <1>3, <1>4, <1>5 DEF Sightings

\* What is in a page was in the table when the page was begun, and still is.
LEMMA PageIsInTable ==
  ASSUME ReaderInv, DeliverPage
  PROVE  /\ shown'.since = reading.since
         /\ corrections = reading.since => InTable(patches, shown'.latest)
<1>1. Sightings /\ reading.at = "search"
  BY DEF ReaderInv, DeliverPage
<1> DEFINE latest == [p \in reading.products \cap DOMAIN reading.latest |-> reading.latest[p]]
<1>2. InTable(patches, reading.latest) => InTable(patches, latest)
  BY DEF InTable
<1>3. shown'.since = reading.since /\ shown'.latest = latest
  BY DEF DeliverPage
<1> QED
  BY <1>1, <1>2, <1>3 DEF Sightings

LEMMA VisitorReads ==
  ASSUME ReaderInv, ReaderStep, UNCHANGED vars
  PROVE  Sightings'
<1>1. Sightings /\ UNCHANGED <<patches, corrections>> /\ corrections \in Nat
  BY DEF ReaderInv, HistoryInv, PipelineInv, TypeOK, vars
<1>2. Request(NotReading) /\ NotReading.at = "nothing" /\ NotReading.since = 0
      /\ NoPage.since = 0 /\ InTable(patches, NoPage.latest)
  BY EmptyIsTable DEF Request, NotReading, NoPage, InTable
<1>3. CASE OpenPage \/ OpenExport
  <2>1. /\ shown' = NoPage /\ reading'.since = corrections
        /\ reading'.at \in {"latest", "export"} /\ Request(reading')
        /\ reading'.at = "export" => reading'.ids = DOMAIN patches /\ reading'.products = DOMAIN products
    BY <1>3 DEF OpenPage, OpenExport, NotReading, Request
  <2>2. OnOffer(patches, DOMAIN patches, DOMAIN products)
    BY DEF ReaderInv, ProductsAreStored, OnOffer
  <2> QED
    BY <1>1, <1>2, <2>1, <2>2 DEF Sightings
<1>4. CASE OpenHistory
  <2>1. shown' = shown /\ reading'.since = 0 /\ reading'.at = "rows" /\ Request(reading')
    BY <1>4 DEF OpenHistory, NotReading, Request
  <2> QED
    BY <1>1, <2>1 DEF Sightings
<1>5. CASE ReadLatest
  BY <1>5, LatestIsInTable
<1>6. CASE DeliverPage
  <2>1. reading' = NotReading
    BY <1>6 DEF DeliverPage
  <2> QED
    BY <1>1, <1>2, <1>6, <2>1, PageIsInTable DEF Sightings
<1>7. CASE SendHistory
  BY <1>1, <1>2, <1>7 DEF SendHistory, Sightings
<1>8. CASE Exports
  <2>1. reading' = NotReading /\ shown' = shown
    BY <1>8 DEF Exports, SendExport
  <2> QED
    BY <1>1, <1>2, <2>1 DEF Sightings
<1> QED
  BY <1>3, <1>4, <1>5, <1>6, <1>7, <1>8 DEF ReaderStep

-----------------------------------------------------------------------------
(* The theorems *)

LEMMA ReaderStarts == InitReader => ReaderInv
<1> SUFFICES ASSUME InitReader
             PROVE  ReaderInv
  OBVIOUS
<1>1. HistoryInv /\ corrections = 0
  BY HistoryStarts DEF InitReader, Init
<1>2. reading = NotReading /\ shown = NoPage
  BY DEF InitReader
<1>3. ProductsAreStored
  BY EmptyIsTable DEF InitReader, Init, ProductsAreStored
<1> QED
  BY <1>1, <1>2, <1>3, EmptyIsTable DEF ReaderInv, Sightings, Request, NotReading, NoPage, InTable

LEMMA ReaderGoesOn ==
  ASSUME ReaderInv, [ReaderNext]_<<vars, readerVars>>, [Considerate]_vars
  PROVE  ReaderInv'
<1>1. [Next]_vars
  BY DEF ReaderNext, CrashWithReader, Next
<1>2. HistoryInv' /\ ProductsAreStored' /\ HistoryStep
  BY <1>1, HistoryGoesOn, ProductsStayStored DEF ReaderInv, HistoryInv
<1>3. CASE ReaderStep /\ UNCHANGED vars
  BY <1>2, <1>3, VisitorReads DEF ReaderInv
<1>4. CASE UNCHANGED readerVars
  BY <1>2, <1>4, TablesMoveOn DEF ReaderInv, readerVars
<1>5. CASE CrashWithReader
  BY <1>2, <1>5, TablesMoveOn DEF ReaderInv, CrashWithReader
<1> QED
  BY <1>3, <1>4, <1>5 DEF ReaderNext

\* What a visitor has been shown is in the table, in every reachable state, until the
\* operator writes.
THEOREM ReaderInvariant == ReaderSpec /\ HintsUndisturbed => []ReaderInv
<1>1. InitReader => ReaderInv
  BY ReaderStarts
<1>2. ReaderInv /\ [ReaderNext]_<<vars, readerVars>> /\ [Considerate]_vars => ReaderInv'
  BY ReaderGoesOn
<1> QED
  BY <1>1, <1>2, PTL DEF ReaderSpec, HintsUndisturbed

\* The filter box finds each product by what its row displays, though refreshes commit
\* between the two statements that read them (_load_dashboard_data).
THEOREM SearchCoversThePage == ReaderSpec /\ HintsUndisturbed => ShownIsSearchable
<1>1. ASSUME ReaderInv, DeliverPage, corrections = reading.since, NEW p \in DOMAIN shown'.latest
      PROVE  {shown'.latest[p].row.kb, shown'.latest[p].row.build} \ {Blank} \subseteq shown'.words[p]
  <2> DEFINE id == shown'.latest[p].id
             seen == shown'.latest[p].row
  <2>1. id \in DOMAIN patches /\ StillSays(patches[id], seen) /\ seen.product = p
    BY <1>1, PageIsInTable DEF InTable
  <2>2. id \in RowsOf(p) /\ p \in reading.products
    BY <1>1, <2>1 DEF RowsOf, StillSays, DeliverPage
  <2>3. shown'.words[p] = WordsOf(RowsOf(p))
    BY <1>1, <2>2 DEF DeliverPage, SearchBlob
  <2>4. {seen.kb, seen.build} \ {Blank} \subseteq {patches[id].kb, patches[id].build} \ {Blank}
    BY <2>1 DEF StillSays
  <2> QED
    BY <2>2, <2>3, <2>4 DEF WordsOf
<1>2. ReaderInv => [DeliverPage /\ corrections = reading.since =>
         \A p \in DOMAIN shown'.latest :
           {shown'.latest[p].row.kb, shown'.latest[p].row.build} \ {Blank} \subseteq shown'.words[p]
       ]_<<vars, readerVars>>
  BY <1>1
<1> QED
  BY <1>2, ReaderInvariant, PTL DEF ShownIsSearchable

\* The panel of a product has the row that the page displays for it, whatever was
\* committed and killed in between (product_history).
THEOREM PanelsHaveTheirRow == ReaderSpec /\ HintsUndisturbed => HistoryHasWhatIsShown
<1>1. ASSUME ReaderInv, SendHistory, corrections = shown.since,
             NEW p \in reading.products \cap DOMAIN shown.latest
      PROVE  LET seen == shown.latest[p]
             IN seen.id \in DOMAIN sent' /\ StillSays(sent'[seen.id], seen.row)
  <2> DEFINE seen == shown.latest[p]
  <2>1. /\ seen.id \in DOMAIN patches /\ StillSays(patches[seen.id], seen.row)
        /\ seen.row.product = p
    BY <1>1 DEF ReaderInv, Sightings, InTable
  <2>2. reading.products = {p}
    BY <1>1 DEF ReaderInv, Sightings, Request, SendHistory
  <2>3. sent' = Only(RowsOf(p))
    BY <1>1, <2>2 DEF SendHistory, HistoryOf
  <2>4. seen.id \in RowsOf(p)
    BY <2>1 DEF RowsOf, StillSays
  <2> QED
    BY <2>1, <2>3, <2>4 DEF Only
<1>2. ReaderInv => [SendHistory /\ corrections = shown.since =>
         \A p \in reading.products \cap DOMAIN shown.latest :
           LET seen == shown.latest[p]
           IN seen.id \in DOMAIN sent' /\ StillSays(sent'[seen.id], seen.row)
       ]_<<vars, readerVars>>
  BY <1>1
<1> QED
  BY <1>2, ReaderInvariant, PTL DEF HistoryHasWhatIsShown

-----------------------------------------------------------------------------
(* The download *)

\* Of finitely many rows, one with a date is the newest: there are fewer and fewer
\* that are later.
LEMMA OneIsNewest ==
  ASSUME TypeOK, NEW ids \in SUBSET DOMAIN patches, IsFiniteSet(ids), NEW dated \in ids, Date(dated) # NoDate
  PROVE  Newest(ids) # {}
<1> DEFINE D == {id \in ids : Date(id) # NoDate}
           Later(id) == {other \in D : Date(other) > Date(id)}
           Laters == {Later(id) : id \in D}
<1>1. \A id \in D : Date(id) \in Nat
  BY DateAssumption, TableRow DEF TypeOK, Date, Row
<1>2. Laters \subseteq FiniteSubsetsOf(ids) /\ Laters # {}
  <2>1. \A S \in SUBSET ids : S \in FiniteSubsetsOf(ids)
    BY FS_Subset DEF FiniteSubsetsOf
  <2>2. \A id \in D : Later(id) \in SUBSET ids
    OBVIOUS
  <2>3. dated \in D
    OBVIOUS
  <2> QED
    BY <2>1, <2>2, <2>3
<1>3. PICK X \in Laters : \A Y \in Laters : ~ (<<Y, X>> \in StrictSubsetOrdering(ids))
  <2>1. IsWellFoundedOn(StrictSubsetOrdering(ids), FiniteSubsetsOf(ids))
    BY FS_StrictSubsetOrderingWellFounded
  <2> HIDE DEF Laters
  <2> QED
    BY <1>2, <2>1, WFMin
<1>4. PICK last \in D : X = Later(last)
  OBVIOUS
<1>5. ASSUME NEW other \in D, Date(other) > Date(last)
      PROVE  FALSE
  <2>1. Later(other) \subseteq Later(last) /\ other \in Later(last) /\ other \notin Later(other)
    BY <1>1, <1>5
  <2>2. <<Later(other), Later(last)>> \in StrictSubsetOrdering(ids)
    BY <2>1 DEF StrictSubsetOrdering
  <2> QED
    BY <1>3, <1>4, <2>2
<1>6. last \in Newest(ids)
  BY <1>1, <1>5 DEF Newest
<1> QED
  BY <1>6

LEMMA FinitelyManyRows ==
  ASSUME PipelineInv
  PROVE  IsFiniteSet(DOMAIN patches)
<1>1. nextId \in Nat /\ DOMAIN patches \subseteq 0 .. nextId
  BY DEF PipelineInv, TypeOK, IdsAreFresh, IsTable
<1>2. IsFiniteSet(0 .. nextId)
  BY <1>1, FS_Interval
<1> QED
  BY <1>1, <1>2, FS_Subset

\* A download has every row that was there when it was asked for and that its
\* exclusions leave, or a newer one of its product if only the newest are wanted, though
\* the rows are selected after the products (_build_export_data).
THEOREM DownloadsAreComplete == ReaderSpec /\ HintsUndisturbed => ExportIsComplete
<1> DEFINE Answered(scope, without) ==
      /\ \A id \in DOMAIN sent' : sent'[id].build \notin without
      /\ corrections = reading.since =>
           \A id \in reading.ids :
             patches[id].build \notin without =>
               \/ id \in DOMAIN sent'
               \/ /\ scope = "latest"
                  /\ \/ Date(id) = NoDate
                     \/ \E other \in DOMAIN sent' : /\ sent'[other].product = patches[id].product
                                                    /\ DateOf[sent'[other].info] > Date(id)
<1>1. ASSUME ReaderInv, NEW scope \in Scopes, NEW without, SendExport(scope, without)
      PROVE  Answered(scope, without)
  <2>1. TypeOK /\ IsFiniteSet(DOMAIN patches)
    BY <1>1, FinitelyManyRows DEF ReaderInv, HistoryInv, PipelineInv
  <2>2. sent' = Only(UNION {Exported(p, scope, without) : p \in reading.products})
    BY <1>1 DEF SendExport
  <2>3. \A p : /\ Exported(p, scope, without) \subseteq RowsOf(p)
               /\ \A id \in Exported(p, scope, without) : patches[id].build \notin without
    BY DEF Exported, Newest
  <2>4. /\ \A id \in DOMAIN sent' : sent'[id] = patches[id] /\ patches[id].build \notin without
        /\ \A p \in reading.products : Exported(p, scope, without) \subseteq DOMAIN sent'
    BY <2>2, <2>3 DEF Only
  <2>5. ASSUME corrections = reading.since, NEW id \in reading.ids, patches[id].build \notin without,
               id \notin DOMAIN sent'
        PROVE  /\ scope = "latest"
               /\ \/ Date(id) = NoDate
                  \/ \E other \in DOMAIN sent' : /\ sent'[other].product = patches[id].product
                                                 /\ DateOf[sent'[other].info] > Date(id)
    <3> DEFINE p == patches[id].product
               wanted == {row \in RowsOf(p) : patches[row].build \notin without}
    <3>1. id \in DOMAIN patches /\ p \in reading.products
      BY <1>1, <2>5 DEF ReaderInv, Sightings, OnOffer, SendExport
    <3>2. id \in wanted /\ wanted \subseteq DOMAIN patches
      BY <2>5, <3>1 DEF RowsOf
    <3>3. id \notin Exported(p, scope, without)
      BY <2>4, <2>5, <3>1
    <3>4. scope = "latest" /\ Exported(p, scope, without) = Newest(wanted)
      BY <1>1, <3>2, <3>3 DEF Exported, Scopes
    <3>5. ASSUME Date(id) # NoDate
          PROVE  \E other \in DOMAIN sent' : /\ sent'[other].product = p
                                             /\ DateOf[sent'[other].info] > Date(id)
      <4>1. IsFiniteSet(wanted)
        BY <2>1, <3>2, FS_Subset
      <4> HIDE DEF wanted
      <4>2. PICK other \in Newest(wanted) : TRUE
        BY <2>1, <3>2, <3>5, <4>1, OneIsNewest
      <4>3. other \in DOMAIN sent' /\ other \in wanted /\ Date(id) <= Date(other) /\ Date(other) # NoDate
        BY <2>4, <3>1, <3>2, <3>4, <3>5, <4>2 DEF Newest
      <4>4. Date(id) \in Nat /\ Date(other) \in Nat
        BY <2>1, <3>2, <3>5, <4>3, DateAssumption, TableRow DEF TypeOK, Date, Row
      <4>5. Date(id) # Date(other)
        BY <3>2, <3>3, <3>4, <3>5, <4>2 DEF Newest
      <4>6. patches[other].product = p
        BY <4>3 DEF wanted, RowsOf
      <4> QED
        BY <2>4, <4>3, <4>4, <4>5, <4>6 DEF Date
    <3> QED
      BY <3>4, <3>5
  <2> QED
    BY <2>4, <2>5
<1>2. ReaderInv => [\A scope \in Scopes, preview, oob \in BOOLEAN :
                      LET without == Excluded(preview, oob) IN
                      SendExport(scope, without) => Answered(scope, without)]_<<vars, readerVars>>
  BY <1>1
<1> QED
  BY <1>2, ReaderInvariant, PTL DEF ExportIsComplete
=============================================================================
