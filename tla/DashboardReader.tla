--------------------------- MODULE DashboardReader ---------------------------
(***************************************************************************)
(* The readers of the tables while refreshes and the operator write them:  *)
(* the dashboard (_load_dashboard_data), the panel of a product's history  *)
(* (product_history, list_patches) and the download (_build_export_data),  *)
(* in app/routers/web.py and app/routers/api.py.                           *)
(*                                                                         *)
(* Each is a session of several SELECTs under READ COMMITTED: every        *)
(* statement sees what is committed when it starts, so the parts of one    *)
(* page may come from before and after a commit.  One visitor comes at a    *)
(* time: a page and one of its panels, or a download.  The order of the    *)
(* products, the status bar (module Dashboard) and wording are left out.   *)
(***************************************************************************)
EXTENDS RefreshPipeline

CONSTANTS DateOf,   \* the release_date of an info
          NoDate,   \* NULL
          Previews, \* the builds whose update_type is "Preview"
          OutOfBand \* the builds whose update_type is "Out-of-Band"

ASSUME DateAssumption ==
  /\ NoDate \notin Nat /\ DateOf \in [Infos -> Nat \cup {NoDate}]
  /\ \A i \in Infos : DateOf[i] = NoDate <=> MonthOf[i] = NoMonth
ASSUME TypeAssumption == Previews \subseteq Builds /\ OutOfBand \subseteq Builds

VARIABLES
  reading, \* the request being read, and the statement it is at
  shown,   \* the page the visitor has before him
  sent     \* the answer the last visitor left with: a history or a download

readerVars == <<reading, shown, sent>>

\* "ids" and "since" are history: the rows, and the operator's writes, when the
\* first statement of a download or a page was executed.
NotReading == [at |-> "nothing", products |-> {}, latest |-> Empty, ids |-> {}, since |-> 0]
NoPage     == [latest |-> Empty, words |-> Empty, since |-> 0]

InitReader == Init /\ reading = NotReading /\ shown = NoPage /\ sent = Empty

-----------------------------------------------------------------------------
(* What the statements select *)

RowsOf(p)  == {id \in DOMAIN patches : patches[id].product = p}
Date(id)   == DateOf[patches[id].info]
Newest(ids) == {id \in ids : /\ Date(id) # NoDate
                             /\ \A other \in ids : Date(other) # NoDate => Date(other) <= Date(id)}
Only(ids)  == [id \in ids |-> patches[id]]

\* The words of a product's search_blob: its KB numbers and builds.
WordsOf(ids) == UNION {{patches[id].kb, patches[id].build} \ {Blank} : id \in ids}

\* Mutant: a product is found by what its row displays only.
WordsOfNewest(p) == WordsOf(Newest(RowsOf(p)))
SearchBlob(p) == WordsOf(RowsOf(p))

\* Mutant: an INNER JOIN on the release date.
DatedHistory(p) == {id \in RowsOf(p) : Date(id) # NoDate}
HistoryOf(p) == RowsOf(p)

-----------------------------------------------------------------------------
(* The dashboard *)

OpenPage ==
  /\ reading = NotReading
  /\ reading' = [NotReading EXCEPT !.at = "latest", !.products = DOMAIN products,
                                   !.since = corrections]
  /\ shown' = NoPage /\ sent' = Empty

\* The row of the newest date; last_seen_at, which decides between several, is left out.
ReadLatest ==
  /\ reading.at = "latest"
  /\ \E pick \in [{p \in Products : Newest(RowsOf(p)) # {}} -> DOMAIN patches] :
       /\ \A p \in DOMAIN pick : pick[p] \in Newest(RowsOf(p))
       /\ reading' = [reading EXCEPT !.at = "search",
            !.latest = [p \in DOMAIN pick |-> [id |-> pick[p], row |-> patches[pick[p]]]]]
  /\ UNCHANGED <<shown, sent>>

\* The search words, and the page.
DeliverPage ==
  /\ reading.at = "search"
  /\ shown' = [latest |-> [p \in reading.products \cap DOMAIN reading.latest |-> reading.latest[p]],
               words  |-> [p \in reading.products |-> SearchBlob(p)],
               since  |-> reading.since]
  /\ reading' = NotReading
  /\ UNCHANGED sent

-----------------------------------------------------------------------------
(* The history of a product *)

\* The product is looked up first.  Products are never deleted, so a panel of the page
\* is never "Not found".
OpenHistory ==
  /\ reading = NotReading
  /\ \E p \in DOMAIN shown.words :
       /\ p \in DOMAIN products
       /\ reading' = [NotReading EXCEPT !.at = "rows", !.products = {p}]
  /\ UNCHANGED <<shown, sent>>

SendHistory ==
  /\ reading.at = "rows"
  /\ \E p \in reading.products : sent' = Only(HistoryOf(p))
  /\ reading' = NotReading /\ shown' = NoPage

-----------------------------------------------------------------------------
(* The download *)

Scopes == {"all", "latest"}

OpenExport ==
  /\ reading = NotReading
  /\ reading' = [NotReading EXCEPT !.at = "export", !.products = DOMAIN products,
                                   !.ids = DOMAIN patches, !.since = corrections]
  /\ shown' = NoPage /\ sent' = Empty

\* The builds that exclude_preview and exclude_oob leave out.
Excluded(preview, oob) ==
  (IF preview THEN Previews ELSE {}) \cup (IF oob THEN OutOfBand ELSE {})

\* Mutant: the scope is applied before the exclusions.
ScopedFirst(p, scope, without) ==
  {id \in IF scope = "all" THEN RowsOf(p) ELSE Newest(RowsOf(p)) : patches[id].build \notin without}

Exported(p, scope, without) ==
  LET wanted == {id \in RowsOf(p) : patches[id].build \notin without}
  IN IF scope = "all" THEN wanted ELSE Newest(wanted)

SendExport(scope, without) ==
  /\ reading.at = "export"
  /\ sent' = Only(UNION {Exported(p, scope, without) : p \in reading.products})
  /\ reading' = NotReading
  /\ UNCHANGED shown

Exports == \E scope \in Scopes, preview, oob \in BOOLEAN : SendExport(scope, Excluded(preview, oob))

-----------------------------------------------------------------------------
ReaderStep == OpenPage \/ ReadLatest \/ DeliverPage \/ OpenHistory \/ SendHistory
              \/ OpenExport \/ Exports

\* A killed process answers nothing; the page stays in the browser.
CrashWithReader == Crash /\ reading' = NotReading /\ UNCHANGED <<shown, sent>>

ReaderNext ==
  \/ (RefreshStep \/ AdminStep) /\ UNCHANGED readerVars
  \/ CrashWithReader
  \/ ReaderStep /\ UNCHANGED vars

ReaderSpec == InitReader /\ [][ReaderNext]_<<vars, readerVars>>

-----------------------------------------------------------------------------
(* Properties *)

\* The row says of this release at least what it said when it was shown; a hint may
\* have filled in its KB number since.
StillSays(row, seen) ==
  /\ row.product = seen.product /\ row.build = seen.build
  /\ seen.kb # Blank => row.kb = seen.kb

\* The filter box finds a product by what its row displays (all_tables.html:
\* "Covers every patch this product has"), though the latest patch and the search
\* words come from two statements with commits of refreshes between them.
ShownIsSearchable ==
  [][DeliverPage /\ corrections = reading.since =>
       \A p \in DOMAIN shown'.latest :
         {shown'.latest[p].row.kb, shown'.latest[p].row.build} \ {Blank} \subseteq shown'.words[p]
    ]_<<vars, readerVars>>

\* The panel of a product on the page opens on the patch that the page displays,
\* whatever the refreshes and crashes since the page was read ("the full set of rows
\* for a product IS its history", class Patch), unless the operator wrote something.
HistoryHasWhatIsShown ==
  [][SendHistory /\ corrections = shown.since =>
       \A p \in reading.products \cap DOMAIN shown.latest :
         LET seen == shown.latest[p]
         IN seen.id \in DOMAIN sent' /\ StillSays(sent'[seen.id], seen.row)
    ]_<<vars, readerVars>>

\* A download leaves nothing out that was committed when it was asked for, but what
\* its exclusions say; in a "latest" one, each product with a dated patch that is not
\* excluded has its newest ("skips straight to the newest regular patch").
ExportIsComplete ==
  [][\A scope \in Scopes, preview, oob \in BOOLEAN :
       LET without == Excluded(preview, oob) IN
       SendExport(scope, without) =>
         /\ \A id \in DOMAIN sent' : sent'[id].build \notin without
         /\ corrections = reading.since =>
              \A id \in reading.ids :
                patches[id].build \notin without =>
                  \/ id \in DOMAIN sent'
                  \/ /\ scope = "latest"
                     /\ \/ Date(id) = NoDate
                        \/ \E other \in DOMAIN sent' : /\ sent'[other].product = patches[id].product
                                                       /\ DateOf[sent'[other].info] > Date(id)
    ]_<<vars, readerVars>>
=============================================================================
