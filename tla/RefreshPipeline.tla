--------------------------- MODULE RefreshPipeline ---------------------------
(***************************************************************************)
(* One refresh after another, as run_all_fetchers performs them under      *)
(* _refresh_lock (app/refresh_service.py), on a database that the operator *)
(* edits through /admin (app/routers/admin.py) at the same time.           *)
(*                                                                         *)
(* Every await on the database is a point where the operator's requests    *)
(* interleave, so the pipeline takes one step per SQL statement that can   *)
(* see or disturb them.  The refresh's open transaction is "work": the     *)
(* rows it has written and not committed.  The rows of "work" are locked;  *)
(* PostgreSQL makes another writer of them wait, and READ COMMITTED makes  *)
(* every statement of the refresh see the committed table under "work".    *)
(***************************************************************************)
EXTENDS ProductTable, FiniteSets

CONSTANTS Fetchers,    \* get_fetchers(): the sources, in the order they run
          Offers,      \* fetcher -> the results its fetch() may have
          Errors,      \* error messages
          MaxRuns,     \* bound: runs started
          MaxAdmin,    \* bound: requests of the operator
          Forms,       \* the admin forms the operator may submit
          CrashAt       \* the control points at which the process may be killed

\* What fetch() did: raised, or returned a FetchResult.
Result == [raised : BOOLEAN, errors : Seq(Errors), warned : BOOLEAN,
           products : Listings, patches : Seq(Item), hints : Hints]

\* The fields of admin/patch_form.html.
Form == [kb : KBs \cup {Blank}, build : Builds \cup {Blank},
         info : Infos, url : Urls, manual : BOOLEAN]

ASSUME FetchersAssumption == /\ Fetchers \in Seq(DOMAIN Offers)
                             /\ \A f \in DOMAIN Offers : Offers[f] \subseteq Result
ASSUME FormsAssumption    == Forms \subseteq Form
ASSUME BoundsAssumption   == MaxRuns \in Nat /\ MaxAdmin \in Nat

VARIABLES
  patches,   \* table patches, committed
  products,  \* table products, committed
  runs,      \* table fetch_runs; the run in progress is the last one
  sources,   \* table fetch_run_sources
  work,      \* patches written by the refresh's open transaction
  newProducts, \* products written by it
  nextId,    \* the serial of patches.id
  pc, run,   \* control point and local variables of run_all_fetchers
  pushes,    \* new-patch notifications sent
  alerts,    \* error notifications sent
  edits,     \* edit requests between their SELECT and their UPDATE
  adminOps,  \* requests of the operator so far
  corrections \* history: the operator's writes so far

dbVars    == <<patches, products, runs, sources>>
txnVars   == <<work, newProducts>>
sentVars  == <<pushes, alerts>>
adminVars == <<edits, adminOps, corrections>>
vars == <<dbVars, txnVars, nextId, pc, run, sentVars, adminVars>>

View  == Overlay(patches, work)
NoRow == 0
NoResult == [raised |-> FALSE, errors |-> <<>>, warned |-> FALSE,
             products |-> Empty, patches |-> <<>>, hints |-> Empty]

\* The locals of run_all_fetchers: is_first_run, the source it is at and its
\* result, the patch_info it is at, existing_id, len(new_notices) before the
\* source, and the accumulators.
IdleRun == [first |-> FALSE, src |-> 1, res |-> NoResult, at |-> 1, found |-> NoRow,
            before |-> 0, notices |-> <<>>, errors |-> <<>>, touched |-> {},
            hints |-> Empty, hintRows |-> {}, alert |-> FALSE]

Init ==
  /\ patches = Empty /\ products = Empty /\ runs = <<>> /\ sources = <<>>
  /\ work = Empty /\ newProducts = Empty /\ nextId = 1
  /\ pc = "idle" /\ run = IdleRun
  /\ pushes = <<>> /\ alerts = <<>>
  /\ edits = {} /\ adminOps = 0 /\ corrections = 0

-----------------------------------------------------------------------------
(* The sources, one at a time *)

\* is_first_run counts the runs before this run's own row is committed.
StartRun ==
  /\ pc = "idle"
  /\ Len(runs) < MaxRuns
  /\ runs' = Append(runs, [status |-> "running", new |-> 0, errors |-> <<>>])
  /\ run' = [IdleRun EXCEPT !.first = (runs = <<>>)]
  /\ pc' = "fetch"
  /\ UNCHANGED <<patches, products, sources, txnVars, nextId, sentVars, adminVars>>

SourceRow(status, new) ==
  [run |-> Len(runs), fetcher |-> Fetchers[run.src], status |-> status, new |-> new]

\* fetch() raised: the source is recorded as failed and the run goes on.
FetchRaises ==
  /\ pc = "fetch"
  /\ run.src <= Len(Fetchers)
  /\ \E r \in Offers[Fetchers[run.src]] :
       /\ r.raised
       /\ run' = [run EXCEPT !.errors = @ \o r.errors, !.src = @ + 1]
  /\ sources' = Append(sources, SourceRow("error", 0))
  /\ UNCHANGED <<patches, products, runs, txnVars, nextId, pc, sentVars, adminVars>>

\* fetch() returned: its products are upserted before its patches.
FetchReturns ==
  /\ pc = "fetch"
  /\ run.src <= Len(Fetchers)
  /\ \E r \in Offers[Fetchers[run.src]] :
       /\ ~r.raised
       /\ newProducts' = Upserted(products, r.products)
       /\ run' = [run EXCEPT !.res = r, !.at = 1, !.errors = @ \o r.errors,
                             !.before = Len(run.notices),
                             !.hints = Overlay(@, r.hints)]
  /\ pc' = "upsert"
  /\ UNCHANGED <<dbVars, work, nextId, sentVars, adminVars>>

SourceStatus ==
  IF run.res.errors # <<>> THEN "partial" ELSE IF run.res.warned THEN "warning" ELSE "success"

\* Every patch of the source is in: its rows become visible together.
CommitSource ==
  /\ pc = "upsert"
  /\ run.at > Len(run.res.patches)
  /\ patches' = View
  /\ products' = Overlay(products, newProducts)
  /\ sources' = Append(sources, SourceRow(SourceStatus, Len(run.notices) - run.before))
  /\ work' = Empty /\ newProducts' = Empty
  /\ run' = [run EXCEPT !.src = @ + 1, !.res = NoResult, !.at = 1, !.before = 0]
  /\ pc' = "fetch"
  /\ UNCHANGED <<runs, nextId, sentVars, adminVars>>

-----------------------------------------------------------------------------
(* _upsert_patch, one SQL statement at a time *)

Current == run.res.patches[run.at]
AtItem  == pc = "upsert" /\ run.at <= Len(run.res.patches)
Known   == Current.product \in DOMAIN products \cup DOMAIN newProducts
Touch(r) == [r EXCEPT !.touched = @ \cup {Current.product}]
Advance(r) == [r EXCEPT !.at = @ + 1, !.found = NoRow]
Announce(r) == [r EXCEPT !.notices = Append(@, KeyOf(Current))]

SkipUnknownProduct ==
  /\ AtItem /\ ~Known
  /\ run' = Advance(run)
  /\ UNCHANGED <<dbVars, txnVars, nextId, pc, sentVars, adminVars>>

\* scalar_one_or_none() on the rows of this build: more than one row raises.
SelectByBuild ==
  /\ AtItem /\ Known /\ BuildOnly(Current)
  /\ LET ids == WithBuild(View, Current.product, Current.build) IN
     \/ /\ ids = {}
        /\ pc' = "insertBuild" /\ run' = Touch(run)
     \/ \E id \in ids :
        /\ ids = {id}
        /\ pc' = "refreshBuild" /\ run' = [Touch(run) EXCEPT !.found = id]
     \/ \E i, j \in ids :
        /\ i # j
        /\ pc' = "aborted" /\ run' = run
  /\ UNCHANGED <<dbVars, txnVars, nextId, sentVars, adminVars>>

Insert(t) ==
  /\ work' = Put(work, nextId, Scraped(Current))
  /\ nextId' = nextId + 1
  /\ run' = Advance(Announce(t))
  /\ pc' = "upsert"

\* The INSERT of the build-only branch has no ON CONFLICT: a row that the
\* operator committed under the same key since the SELECT makes it raise.
InsertByBuild ==
  /\ pc = "insertBuild"
  /\ IF WithKey(View, KeyOf(Current)) = {}
     THEN Insert(run)
     ELSE pc' = "aborted" /\ UNCHANGED <<work, nextId, run>>
  /\ UNCHANGED <<dbVars, newProducts, sentVars, adminVars>>

\* Both UPDATEs by id; the first (last_seen_at) locks the row for the second.
\* They do nothing if the row was deleted since the SELECT.
RefreshByBuild ==
  /\ pc = "refreshBuild"
  /\ work' = IF run.found \in DOMAIN View
             THEN Put(work, run.found, RefreshedByBuild(View[run.found], Current))
             ELSE work
  /\ run' = Advance(run)
  /\ pc' = "upsert"
  /\ UNCHANGED <<dbVars, newProducts, nextId, sentVars, adminVars>>

\* INSERT ... ON CONFLICT DO NOTHING RETURNING id.  A conflicting row is not locked.
InsertOnConflict ==
  /\ AtItem /\ Known /\ ~BuildOnly(Current)
  /\ IF WithKey(View, KeyOf(Current)) = {}
     THEN Insert(Touch(run))
     ELSE pc' = "refreshKey" /\ run' = Touch(run) /\ UNCHANGED <<work, nextId>>
  /\ UNCHANGED <<dbVars, newProducts, sentVars, adminVars>>

\* Both UPDATEs by (product, kb, build).
RefreshByKey ==
  /\ pc = "refreshKey"
  /\ LET ids == WithKey(View, KeyOf(Current)) IN
     work' = [id \in DOMAIN work \cup ids |->
                IF id \in ids THEN RefreshedByKey(View[id], Current) ELSE work[id]]
  /\ run' = Advance(run)
  /\ pc' = "upsert"
  /\ UNCHANGED <<dbVars, newProducts, nextId, sentVars, adminVars>>

-----------------------------------------------------------------------------
(* _apply_patch_kb_hints, once every source has committed *)

SourcesDone == pc = "fetch" /\ run.src > Len(Fetchers)

SelectHintRows ==
  /\ SourcesDone /\ DOMAIN run.hints # {}
  /\ run' = [run EXCEPT !.hintRows = HintsFor(View, run.hints)]
  /\ pc' = "hints"
  /\ UNCHANGED <<dbVars, txnVars, nextId, sentVars, adminVars>>

\* UPDATE ... WHERE id = patch_id, in no particular order: neither the KB
\* number nor manually_edited is looked at again.
Hinted(h) == [View[h.id] EXCEPT !.kb = h.kb, !.url = h.url]
ApplyHint ==
  /\ pc = "hints"
  /\ \E h \in run.hintRows :
       LET hinted == Hinted(h)
           done   == [run EXCEPT !.hintRows = @ \ {h}]
       IN \/ /\ h.id \notin DOMAIN View
             /\ run' = done
             /\ UNCHANGED <<work, pc>>
          \/ /\ h.id \in DOMAIN View
             /\ WithKey(View, KeyOf(hinted)) \subseteq {h.id}
             /\ work' = Put(work, h.id, hinted)
             /\ run' = done
             /\ UNCHANGED pc
          \/ /\ h.id \in DOMAIN View
             /\ ~ (WithKey(View, KeyOf(hinted)) \subseteq {h.id})
             /\ pc' = "aborted"
             /\ UNCHANGED <<work, run>>
  /\ UNCHANGED <<dbVars, newProducts, nextId, sentVars, adminVars>>

CommitHints ==
  /\ pc = "hints" /\ run.hintRows = {}
  /\ patches' = View /\ work' = Empty
  /\ pc' = "finish"
  /\ UNCHANGED <<products, runs, sources, newProducts, nextId, run, sentVars, adminVars>>

-----------------------------------------------------------------------------
(* The outcome of the run and its notifications *)

RunStatus ==
  IF run.errors = <<>> THEN "success" ELSE IF run.touched = {} THEN "error" ELSE "partial"

\* Mutant: the query forgets "FetchRun.id != run.id".
OwnErrors == runs[Len(runs)].errors

\* FetchRun.error of the run with the highest id but this one.
PreviousErrors == IF Len(runs) > 1 THEN runs[Len(runs) - 1].errors ELSE <<>>

FinishRun ==
  /\ pc = "finish" \/ (SourcesDone /\ DOMAIN run.hints = {})
  /\ runs' = [runs EXCEPT ![Len(runs)] =
                [status |-> RunStatus, new |-> Len(run.notices), errors |-> run.errors]]
  /\ run' = [run EXCEPT !.alert = run.errors # <<>> /\ run.errors # PreviousErrors]
  /\ pc' = "notify"
  /\ UNCHANGED <<patches, products, sources, txnVars, nextId, sentVars, adminVars>>

\* Mutants: a run with a failed source pushes nothing; the push of a source is
\* sent before its commit.
ShouldPushSuccess == run.notices # <<>> /\ ~run.first /\ run.errors = <<>>
NotifyEarly ==
  /\ pc = "upsert" /\ run.notices # <<>>
  /\ pushes' = Append(pushes, [run |-> Len(runs), notices |-> run.notices])
  /\ run' = [run EXCEPT !.notices = <<>>]
  /\ UNCHANGED <<dbVars, txnVars, nextId, pc, alerts, adminVars>>

ShouldPush == run.notices # <<>> /\ ~run.first

\* A push that cannot be delivered is logged and forgotten: sent means tried.
NotifyNewPatches ==
  /\ pc = "notify"
  /\ pushes' = IF ShouldPush
               THEN Append(pushes, [run |-> Len(runs), notices |-> run.notices])
               ELSE pushes
  /\ pc' = "alert"
  /\ UNCHANGED <<dbVars, txnVars, nextId, run, alerts, adminVars>>

NotifyFetchErrors ==
  /\ pc = "alert"
  /\ alerts' = IF run.alert THEN Append(alerts, Len(runs)) ELSE alerts
  /\ pc' = "idle" /\ run' = IdleRun
  /\ UNCHANGED <<dbVars, txnVars, nextId, pushes, adminVars>>

\* Mutant: the lock is not released by an exception.
NoUnwind == pc = "aborted" /\ UNCHANGED vars

\* An exception out of run_all_fetchers: the session rolls back, the lock is
\* released, and the run's row stays as it was committed, "running".
Unwind ==
  /\ pc = "aborted"
  /\ pc' = "idle" /\ run' = IdleRun
  /\ work' = Empty /\ newProducts' = Empty
  /\ UNCHANGED <<dbVars, nextId, sentVars, adminVars>>

-----------------------------------------------------------------------------
(* The two transactions wait for each other.  An UPDATE of the operator     *)
(* that gives its row a key the refresh holds has locked the row; if the    *)
(* refresh needs that row before its commit, PostgreSQL aborts one of them. *)

\* Is the key held by a row the refresh has inserted, refreshed or re-keyed?
KeyLocked(k) == (WithKey(patches, k) \cup WithKey(View, k)) \cap DOMAIN work # {}

\* The ORM writes the columns in which the form differs from the loaded row.
Changed(row, loaded, f) ==
  [row EXCEPT !.kb     = IF f.kb # loaded.kb         THEN f.kb     ELSE @,
              !.build  = IF f.build # loaded.build   THEN f.build  ELSE @,
              !.info   = IF f.info # loaded.info     THEN f.info   ELSE @,
              !.url    = IF f.url # loaded.url       THEN f.url    ELSE @,
              !.manual = IF f.manual # loaded.manual THEN f.manual ELSE @]

\* The committed rows that the refresh's next statement waits for if another writer
\* holds them: those it updates, and those whose key it inserts or sets.
NextRows ==
  CASE pc = "refreshBuild" -> {run.found}
    [] pc \in {"insertBuild", "refreshKey"} \/ (AtItem /\ Known /\ ~BuildOnly(Current)) ->
         WithKey(patches, KeyOf(Current))
    [] pc = "hints" ->
         UNION {{h.id} \cup WithKey(patches, KeyOf(Hinted(h))) : h \in {g \in run.hintRows : g.id \in DOMAIN View}}
    [] OTHER -> {}

WaitsForTheRefresh(e) == /\ e.id \in DOMAIN patches \ DOMAIN work
                         /\ KeyLocked(KeyOf(Changed(patches[e.id], e.loaded, e.form)))
Deadlocked(e) == WaitsForTheRefresh(e) /\ e.id \in NextRows

\* The refresh is the victim.
DeadlockAborts ==
  /\ \E e \in edits : Deadlocked(e)
  /\ pc' = "aborted"
  /\ UNCHANGED <<dbVars, txnVars, nextId, run, sentVars, adminVars>>

\* The edit is the victim, and changes nothing.
EditAborts ==
  /\ \E e \in edits : Deadlocked(e) /\ edits' = edits \ {e}
  /\ UNCHANGED <<dbVars, txnVars, nextId, pc, run, sentVars, adminOps, corrections>>

-----------------------------------------------------------------------------
RefreshStep ==
  \/ StartRun \/ FetchRaises \/ FetchReturns \/ CommitSource
  \/ SkipUnknownProduct \/ SelectByBuild \/ InsertByBuild \/ RefreshByBuild
  \/ InsertOnConflict \/ RefreshByKey
  \/ SelectHintRows \/ ApplyHint \/ CommitHints
  \/ FinishRun \/ NotifyNewPatches \/ NotifyFetchErrors \/ DeadlockAborts \/ Unwind

\* The process is killed in the middle of a run (and of an edit).
Crash ==
  /\ pc \in CrashAt \ {"idle"}
  /\ pc' = "idle" /\ run' = IdleRun
  /\ work' = Empty /\ newProducts' = Empty /\ edits' = {}
  /\ UNCHANGED <<dbVars, nextId, sentVars, adminOps, corrections>>

-----------------------------------------------------------------------------
(* The operator.  A writer of a row, or of a key, that the refresh has      *)
(* written and not committed waits: its action is not enabled.             *)

OperatorActs == adminOps < MaxAdmin /\ adminOps' = adminOps + 1

\* admin_create_patch: a plain INSERT.  (On a key that exists it fails and
\* changes nothing.)
AdminCreate ==
  /\ OperatorActs
  /\ \E p \in DOMAIN products, f \in Forms :
       LET row == [product |-> p, kb |-> f.kb, build |-> f.build,
                   info |-> f.info, url |-> f.url, manual |-> f.manual]
       IN /\ ~KeyLocked(KeyOf(row))
          /\ WithKey(patches, KeyOf(row)) = {}
          /\ patches' = Put(patches, nextId, row)
  /\ nextId' = nextId + 1 /\ corrections' = corrections + 1
  /\ UNCHANGED <<products, runs, sources, txnVars, pc, run, sentVars, edits>>

\* admin_update_patch up to its assignments.  A form equal to the row it loads
\* writes nothing, and is left out.
AdminOpen ==
  /\ OperatorActs
  /\ \E id \in DOMAIN patches, f \in Forms :
       /\ Changed(patches[id], patches[id], f) # patches[id]
       /\ edits' = edits \cup {[id |-> id, loaded |-> patches[id], form |-> f]}
  /\ UNCHANGED <<dbVars, txnVars, nextId, pc, run, sentVars, corrections>>

\* commit() of admin_update_patch: a row that is gone, or a key that another
\* row has, is an error that changes nothing.
AdminStore ==
  /\ \E e \in edits :
       LET row == Changed(patches[e.id], e.loaded, e.form) IN
       /\ e.id \notin DOMAIN work
       /\ edits' = edits \ {e}
       /\ \/ /\ e.id \notin DOMAIN patches
             /\ UNCHANGED <<patches, corrections>>
          \/ /\ e.id \in DOMAIN patches
             /\ ~KeyLocked(KeyOf(row))
             /\ ~ (WithKey(patches, KeyOf(row)) \subseteq {e.id})
             /\ UNCHANGED <<patches, corrections>>
          \/ /\ e.id \in DOMAIN patches
             /\ ~KeyLocked(KeyOf(row))
             /\ WithKey(patches, KeyOf(row)) \subseteq {e.id}
             /\ patches' = Put(patches, e.id, row)
             /\ corrections' = corrections + 1
  /\ UNCHANGED <<products, runs, sources, txnVars, nextId, pc, run, sentVars, adminOps>>

AdminDelete ==
  /\ OperatorActs
  /\ \E id \in DOMAIN patches \ DOMAIN work : patches' = Drop(patches, id)
  /\ corrections' = corrections + 1
  /\ UNCHANGED <<products, runs, sources, txnVars, nextId, pc, run, sentVars, edits>>

AdminStep == AdminCreate \/ AdminOpen \/ AdminStore \/ EditAborts \/ AdminDelete

-----------------------------------------------------------------------------
Next == RefreshStep \/ Crash \/ AdminStep
Spec == Init /\ [][Next]_vars

\* The event loop runs a task that can run: the pipeline does not stop halfway,
\* and neither does an edit request.
FairSpec == Spec /\ WF_vars(RefreshStep) /\ WF_vars(AdminStore)

-----------------------------------------------------------------------------
(* What some of the properties ask of the operator: that the row a statement  *)
(* of the refresh is about has not been taken from under it since its SELECT  *)

\* The KB number of a release known by its build alone may be filled in.
SameRelease(old, new) == /\ new.product = old.product /\ new.build = old.build
                         /\ new.kb = old.kb \/ (old.kb = Blank /\ old.build # Blank)
LeavesRelease(id) == id \in DOMAIN patches' /\ SameRelease(patches[id], patches'[id])

\* Of the row that a SELECT, or a conflict, has found and that is not updated yet.
FoundRows == CASE pc = "refreshBuild" -> {run.found}
               [] pc = "refreshKey"   -> WithKey(patches, KeyOf(Current))
               [] OTHER               -> {}
Patient == AdminStep => \A id \in FoundRows \cap DOMAIN patches : LeavesRelease(id)

\* Of every row, at any time: he deletes none, and corrects no product, build or KB number.
KeepsReleases == AdminStep => \A id \in DOMAIN patches : LeavesRelease(id)

\* Of the rows with a build: he enters none, and gives none another product, build or KB number.
KeepsBuilds == AdminStep => \A id \in DOMAIN patches' : patches'[id].build # Blank =>
                 id \in DOMAIN patches /\ SameRelease(patches[id], patches'[id])

\* Of the forms he submits: each keeps the release of the row it was filled in for.
\* (Without a new key, an edit never holds its row while it waits for the refresh.)
EditsKeepReleases ==
  AdminStep => \A e \in edits' \ edits : SameRelease(e.loaded, Changed(e.loaded, e.loaded, e.form))

\* Of the rows that wait for a hint: each stays as it was selected for it, or is deleted.
Hintable(row) == row.kb = Blank /\ row.build # Blank /\ ~row.manual
Considerate == pc = "hints" /\ AdminStep =>
                 \A h \in run.hintRows : h.id \in DOMAIN patches' => Hintable(patches'[h.id])

-----------------------------------------------------------------------------
(* Properties *)

PC == {"idle", "fetch", "upsert", "insertBuild", "refreshBuild", "refreshKey",
       "hints", "finish", "notify", "alert", "aborted"}
RunRow    == [status : {"running", "success", "partial", "error"}, new : Nat, errors : Seq(Errors)]
SourceType == [run : Nat, fetcher : DOMAIN Offers,
               status : {"success", "warning", "partial", "error"}, new : Nat]
Locals == [first : BOOLEAN, src : Nat \ {0}, res : Result, at : Nat \ {0}, found : Nat,
           before : Nat, notices : Seq(Key), errors : Seq(Errors), touched : SUBSET Products,
           hints : Hints, hintRows : SUBSET HintRow, alert : BOOLEAN]
Edit   == [id : Nat, loaded : Row, form : Form]

\* Every table holds rows of its type, and the locals of run_all_fetchers are
\* what its assignments make them (models.py, refresh_service.py).
TypeOK ==
  /\ IsTable(patches) /\ IsTable(work)
  /\ products \in Listings /\ newProducts \in Listings
  /\ runs \in Seq(RunRow) /\ sources \in Seq(SourceType)
  /\ nextId \in Nat /\ pc \in PC /\ run \in Locals
  /\ pushes \in Seq([run : Nat, notices : Seq(Key)]) /\ alerts \in Seq(Nat)
  /\ edits \subseteq Edit /\ adminOps \in Nat
  /\ corrections \in Nat

\* A release identified by its build alone keeps one row however often it is
\* seen and whenever a hint fills in its KB number (the build-only branch of
\* _upsert_patch; tests: test_kb_hint_survives_next_runs_build_only_reupsert).
OneRowPerBuild ==
  \A i, j \in DOMAIN patches :
    /\ patches[i].product = patches[j].product
    /\ patches[i].build = patches[j].build
    /\ patches[i].build # Blank
    => i = j

\* A notification never announces a release that another notification, or a
\* line before it, announced already, crashes and hints notwithstanding
\* (new_notices in run_all_fetchers).
AnnouncedOnce ==
  \A p, q \in DOMAIN pushes : \A i \in DOMAIN pushes[p].notices, j \in DOMAIN pushes[q].notices :
    pushes[p].notices[i] = pushes[q].notices[j] => p = q /\ i = j

Realises(row, key) == /\ row.product = key.product /\ row.build = key.build
                      /\ key.kb # Blank => row.kb = key.kb

\* What a notification announces is in the table for good: no rollback or crash
\* takes back a row that was pushed (notifications go out after the commits).
PushedIsStored ==
  \A p \in DOMAIN pushes : \A i \in DOMAIN pushes[p].notices :
    \E id \in DOMAIN patches : Realises(patches[id], pushes[p].notices[i])

\* A run that completed, whatever some of its sources did, has pushed its finds
\* exactly once, and the first run of a database none (run_all_fetchers).
CompletedRunsPush ==
  pc = "idle" =>
    \A r \in DOMAIN runs :
      runs[r].status # "running" =>
        Cardinality({p \in DOMAIN pushes : pushes[p].run = r})
          = IF r > 1 /\ runs[r].new > 0 THEN 1 ELSE 0

\* "A refresh that finds new patches sends exactly one push" (README,
\* Notifications), but for the very first run.
EveryFindIsPushed ==
  pc = "idle" =>
    \A s \in DOMAIN sources :
      sources[s].new > 0 /\ sources[s].run # 1 =>
        Cardinality({p \in DOMAIN pushes : pushes[p].run = sources[s].run}) = 1

\* A source's commit leaves every release it reported in the table, with the
\* values of its last report unless a human protects the row: stored rows heal
\* when a source corrects itself (the last part of _upsert_patch).
SourceIsReflected ==
  [][CommitSource =>
       LET items == run.res.patches IN
       \A i \in DOMAIN items :
         items[i].product \in DOMAIN products' =>
           \E id \in DOMAIN patches' :
             /\ Realises(patches'[id], KeyOf(items[i]))
             /\ \/ patches'[id].manual
                \/ patches'[id].info = items[i].info
                \/ \E j \in DOMAIN items : j > i /\ Realises(patches'[id], KeyOf(items[j]))
    ]_vars

\* The date at which a product's support ends is never lost, whichever source lists
\* the product without one, and whatever becomes of the run; it changes only to
\* what a source says, with the whole of that source's listing (_upsert_product).
EndDateIsKept ==
  [][/\ \A p \in DOMAIN products :
          p \in DOMAIN products' /\ (products'[p].end = NoEnd => products[p].end = NoEnd)
     /\ products' # products =>
          \A p \in DOMAIN run.res.products :
            LET said == run.res.products[p]
            IN /\ p \in DOMAIN products' /\ products'[p].ended = said.ended
               /\ said.end # NoEnd => products'[p].end = said.end
    ]_vars

\* The operator is alerted about a run exactly when it failed in a way the run
\* before it had not (the comment on should_notify_errors): once per change,
\* whichever runs were aborted in between.
AlertExactly ==
  pc = "idle" =>
    \A r \in DOMAIN runs :
      (\E a \in DOMAIN alerts : alerts[a] = r)
        <=> runs[r].errors # <<>> /\ (r = 1 \/ runs[r].errors # runs[r - 1].errors)

\* A row that a human protects still says the same of its release.
KeepsManual(old, new) ==
  old.manual => /\ new.manual
                /\ new.product = old.product /\ new.build = old.build /\ new.info = old.info
InfoSurvives == \A id \in DOMAIN patches :
  patches[id].manual => id \in DOMAIN patches' /\ KeepsManual(patches[id], patches'[id])

\* A refresh never changes what a row protected by manually_edited says of its
\* release, whenever the operator protected it: the flag is tested by the UPDATE
\* itself, and the row it has updated stays locked until the commit.
ManualInfoSurvives == [][RefreshStep => InfoSurvives]_vars

\* While the refresh holds rows it has not committed, they agree with what the
\* operator has protected; ids are never reused; the locals point at an item.
Positions ==
  /\ run.before <= Len(run.notices)
  /\ pc \in {"upsert", "insertBuild", "refreshBuild", "refreshKey"} => run.src \in DOMAIN Fetchers
  /\ pc \in {"insertBuild", "refreshBuild", "refreshKey"} => run.at \in DOMAIN run.res.patches
IdsAreFresh == \A id \in DOMAIN patches \cup DOMAIN work : id < nextId
WorkKeepsManual ==
  \A id \in DOMAIN patches \cap DOMAIN work : KeepsManual(patches[id], work[id])

\* The inductive invariant behind ManualInfoSurvives.
PipelineInv == TypeOK /\ Positions /\ IdsAreFresh /\ WorkKeepsManual

\* "An entry edited or created here gets manually_edited = true and is no longer
\* overwritten by future automatic refreshes" (README, Admin area): the whole row.
ManualEditsSurvive ==
  [][RefreshStep => \A id \in DOMAIN patches :
       patches[id].manual => id \in DOMAIN patches' /\ patches'[id] = patches[id]
    ]_vars

\* "One bad source must not kill the run" (run_all_fetchers), and a manual entry
\* that collides with a scraped one does not make the scraper's upsert fail
\* (admin_create_patch): no exception leaves run_all_fetchers.
RunNeverAborts == pc # "aborted"

\* The table implements the history it promises (module PatchHistory).
History == INSTANCE PatchHistory WITH table <- patches
HistoryKept == History!HistorySpec

\* Whatever happens to a run, it gives _refresh_lock back.
EveryRunEnds == pc # "idle" ~> pc = "idle"
=============================================================================
