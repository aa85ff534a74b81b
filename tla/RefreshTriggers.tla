--------------------------- MODULE RefreshTriggers ---------------------------
(***************************************************************************)
(* Who starts a refresh, and when it runs: the page's POST /refresh, the   *)
(* operator's "refresh now", the scheduler's job and the startup task all  *)
(* end in run_all_fetchers, which begins by taking _refresh_lock           *)
(* (app/refresh_service.py, scheduler.py, main.py).                        *)
(*                                                                         *)
(* Everything runs on one event loop: callbacks run one at a time, first   *)
(* come first served ("ready"), and a task created by a callback takes its *)
(* first step behind the callbacks that are ready already.  A run itself is *)
(* what RefreshPipeline models; here it lasts for as long as it likes.     *)
(***************************************************************************)
EXTENDS Naturals, Sequences, FiniteSets

CONSTANTS MaxRequests,   \* bound: requests received
          MaxJobs,       \* bound: scheduler jobs started
          MaxRestarts,   \* bound: restarts of the process
          FetchOnStartup \* settings.fetch_on_startup

ASSUME ConstantsAssumption ==
  MaxRequests \in Nat /\ MaxJobs \in Nat /\ MaxRestarts \in Nat /\ FetchOnStartup \in BOOLEAN

VARIABLES
  ready,    \* callbacks ready to run, oldest first
  state,    \* of each task: see States
  trigger,  \* of each task: who asked for it
  created,  \* tasks created so far
  locked,   \* _refresh_lock: Lock._locked
  waiters,  \* _refresh_lock: Lock._waiters, as the tasks that wait
  recent,   \* did _last_run_started_at fall in the debounce window?
  requests, jobs, restarts \* so far

lockVars == <<locked, waiters>>
countVars == <<requests, jobs, restarts>>
taskVars == <<state, trigger, created>>
vars == <<ready, taskVars, lockVars, recent, countVars>>

Tasks    == 1 .. 1 + MaxRequests + MaxJobs + MaxRestarts
NoTask   == 0
States   == {"none", "created", "waiting", "woken", "running", "done", "lost"}
Triggers == {"none", "startup", "scheduler", "page", "admin"}
Callback(what, t) == [what |-> what, task |-> t]
Callbacks == [what : {"page", "admin"}, task : {NoTask}]
               \cup [what : {"start", "wake"}, task : Tasks]

Running == {t \in Tasks : state[t] = "running"}
Live    == {t \in Tasks : state[t] \in {"created", "waiting", "woken", "running"}}

-----------------------------------------------------------------------------
(* Triggers *)

\* The lifespan handler: the startup task, if any, is created before a request
\* is served.
BootTask(n) == IF FetchOnStartup THEN {n} ELSE {}
Boot(n)     == IF FetchOnStartup THEN <<Callback("start", n)>> ELSE <<>>

Init ==
  /\ state = [t \in Tasks |-> IF t \in BootTask(1) THEN "created" ELSE "none"]
  /\ trigger = [t \in Tasks |-> IF t \in BootTask(1) THEN "startup" ELSE "none"]
  /\ created = Cardinality(BootTask(1)) /\ ready = Boot(1)
  /\ locked = FALSE /\ waiters = <<>>
  /\ recent = FALSE /\ requests = 0 /\ jobs = 0 /\ restarts = 0

\* asyncio.create_task(run_all_fetchers(...)) by a callback that leaves "rest".
\* (Tasks is large enough for every request, job and restart.)
Create(who, rest) ==
  /\ created + 1 \in Tasks
  /\ created' = created + 1
  /\ state' = [state EXCEPT ![created + 1] = "created"]
  /\ trigger' = [trigger EXCEPT ![created + 1] = who]
  /\ ready' = Append(rest, Callback("start", created + 1))

\* The job of start_scheduler comes due: max_instances=1 skips it while its last
\* instance lives, and a misfire (a loop busy for over a second) skips it too,
\* which is this action not being taken.
SchedulerDue ==
  /\ jobs < MaxJobs /\ jobs' = jobs + 1
  /\ \A t \in Live : trigger[t] # "scheduler"
  /\ Create("scheduler", ready)
  /\ UNCHANGED <<lockVars, recent, requests, restarts>>

\* A request reaches the handler of POST /refresh or of POST /admin/refresh.
Request ==
  /\ requests < MaxRequests
  /\ requests' = requests + 1
  /\ \E who \in {"page", "admin"} : ready' = Append(ready, Callback(who, NoTask))
  /\ UNCHANGED <<taskVars, lockVars, recent, jobs, restarts>>

Debounced(who) == who = "page" /\ recent

\* maybe_trigger_refresh, without an await: "page" has force=False.
MaybeTriggerRefresh ==
  /\ ready # <<>>
  /\ \E who \in {"page", "admin"} :
       /\ Head(ready).what = who
       /\ \/ /\ locked \/ Debounced(who)
             /\ ready' = Tail(ready)
             /\ UNCHANGED taskVars
          \/ /\ ~locked /\ ~Debounced(who)
             /\ Create(who, Tail(ready))
  /\ UNCHANGED <<lockVars, recent, countVars>>

\* The debounce window since the last start closes.
WindowPasses ==
  /\ recent /\ recent' = FALSE
  /\ UNCHANGED <<ready, taskVars, lockVars, countVars>>

-----------------------------------------------------------------------------
(* async with _refresh_lock *)

\* Lock.acquire takes the lock at once only if nobody waits for it.
FreeForMe == ~locked /\ waiters = <<>>
Queued(t) == Append(waiters, t)

\* _last_run_started_at = now(), the first thing a run does with the lock.
TakeLock(t) ==
  /\ locked' = TRUE /\ recent' = TRUE
  /\ state' = [state EXCEPT ![t] = "running"]

\* Mutants: a run relies on the check of maybe_trigger_refresh and does not wait
\* for the lock; it waits by looking again and again.
StartAnyway ==
  /\ ready # <<>> /\ Head(ready).what = "start"
  /\ TakeLock(Head(ready).task)
  /\ ready' = Tail(ready)
  /\ UNCHANGED <<waiters, trigger, created, countVars>>
StartPolling ==
  /\ ready # <<>> /\ Head(ready).what = "start"
  /\ \/ ~locked /\ TakeLock(Head(ready).task) /\ ready' = Tail(ready)
     \/ locked /\ ready' = Append(Tail(ready), Head(ready)) /\ UNCHANGED <<locked, recent, state>>
  /\ UNCHANGED <<waiters, trigger, created, countVars>>

StartTask ==
  /\ ready # <<>> /\ Head(ready).what = "start"
  /\ LET t == Head(ready).task IN
     \/ /\ FreeForMe
        /\ TakeLock(t)
        /\ UNCHANGED waiters
     \/ /\ ~FreeForMe
        /\ waiters' = Queued(t)
        /\ state' = [state EXCEPT ![t] = "waiting"]
        /\ UNCHANGED <<locked, recent>>
  /\ ready' = Tail(ready)
  /\ UNCHANGED <<trigger, created, countVars>>

\* The waiter that was woken resumes.  It is the first one: release wakes that
\* one, and nobody else leaves the queue.
WakeTask ==
  /\ ready # <<>> /\ Head(ready).what = "wake"
  /\ TakeLock(Head(ready).task)
  /\ waiters' = Tail(waiters)
  /\ ready' = Tail(ready)
  /\ UNCHANGED <<trigger, created, countVars>>

SomeoneWaits == waiters # <<>>

\* Mutant: a run that ends keeps the lock (no "async with").
EndRunLocked ==
  /\ \E t \in Running : state' = [state EXCEPT ![t] = "done"]
  /\ UNCHANGED <<ready, lockVars, trigger, created, recent, countVars>>

\* run_all_fetchers returns, or an exception leaves it: Lock.release wakes the
\* first waiter, which has the lock only when it resumes.
EndRun ==
  /\ \E t \in Running :
       \/ /\ ~SomeoneWaits
          /\ state' = [state EXCEPT ![t] = "done"]
          /\ UNCHANGED ready
       \/ /\ SomeoneWaits
          /\ state' = [state EXCEPT ![t] = "done", ![Head(waiters)] = "woken"]
          /\ ready' = Append(ready, Callback("wake", Head(waiters)))
  /\ locked' = FALSE
  /\ UNCHANGED <<trigger, created, waiters, recent, countVars>>

\* The process ends, and starts again with fresh globals.
Restart ==
  /\ restarts < MaxRestarts /\ restarts' = restarts + 1
  /\ BootTask(created + 1) \subseteq Tasks
  /\ state' = [t \in Tasks |-> IF t \in BootTask(created + 1) THEN "created"
                               ELSE IF t \in Live THEN "lost" ELSE state[t]]
  /\ trigger' = [t \in Tasks |-> IF t \in BootTask(created + 1) THEN "startup" ELSE trigger[t]]
  /\ created' = created + Cardinality(BootTask(created + 1))
  /\ ready' = Boot(created + 1)
  /\ locked' = FALSE /\ waiters' = <<>> /\ recent' = FALSE
  /\ UNCHANGED <<requests, jobs>>

LoopStep == MaybeTriggerRefresh \/ StartTask \/ WakeTask
Next == SchedulerDue \/ Request \/ WindowPasses \/ LoopStep \/ EndRun \/ Restart
Spec == Init /\ [][Next]_vars

\* The loop runs what is ready, and every run ends (EveryRunEnds of RefreshPipeline).
FairSpec == Spec /\ WF_vars(LoopStep) /\ WF_vars(EndRun)

-----------------------------------------------------------------------------
(* Properties *)

\* Callbacks and waiters name tasks that exist; the lock is what Lock's fields are.
TypeOK ==
  /\ state \in [Tasks -> States] /\ trigger \in [Tasks -> Triggers]
  /\ created \in Nat /\ ready \in Seq(Callbacks)
  /\ locked \in BOOLEAN /\ waiters \in Seq(Tasks) /\ recent \in BOOLEAN
  /\ requests \in Nat /\ jobs \in Nat /\ restarts \in Nat

\* "A scheduled run and a page-triggered run can never overlap" (the docstring of
\* refresh_service.py), the gap between a release and the woken waiter included.
RunsNeverOverlap == \A t, u \in Running : t = u

\* What the tasks do, what Lock's fields say and what the loop has ready agree;
\* a free lock that somebody waits for is about to be taken by the first waiter.
LockAgrees == locked <=> Running # {}
ReadyAgrees ==
  /\ \A i \in DOMAIN ready :
       /\ ready[i].what = "start" => state[ready[i].task] = "created"
       /\ ready[i].what = "wake"  => state[ready[i].task] = "woken"
  /\ \A i, j \in DOMAIN ready :
       ready[i].task = ready[j].task /\ ready[i].task # NoTask => i = j
WaitersAgree ==
  /\ \A t \in Tasks : state[t] \in {"waiting", "woken"} <=> \E i \in DOMAIN waiters : waiters[i] = t
  /\ \A i, j \in DOMAIN waiters : waiters[i] = waiters[j] => i = j
WokenAgrees ==
  /\ \A i \in DOMAIN waiters : state[waiters[i]] = "woken" <=> i = 1 /\ ~locked
CreatedAgrees == \A t \in Tasks : t > created => state[t] = "none"

\* The inductive invariant behind RunsNeverOverlap.
LoopConsistent ==
  TypeOK /\ RunsNeverOverlap /\ LockAgrees /\ ReadyAgrees /\ WaitersAgree /\ WokenAgrees /\ CreatedAgrees

\* A refresh is not overtaken by one that was asked for after it.
NoOvertaking ==
  [][\A t \in Tasks : state[t] # "running" /\ state'[t] = "running" =>
       \A u \in 1 .. t - 1 : state[u] \in {"done", "lost"}]_vars

\* A refresh that was accepted ("Returns True if a refresh was (just) started")
\* does run, however many wait for the lock.
AcceptedRefreshRuns == \A t \in Tasks : state[t] = "created" ~> state[t] \in {"done", "lost"}

\* A page view starts no refresh within the debounce window of the last one
\* (docstring of refresh_service.py; "ten visitors in a row don't start ten scrapes").
PageRefreshIsDebounced ==
  [][\A t \in Tasks : state[t] # "running" /\ state'[t] = "running" /\ trigger[t] = "page"
       => ~recent]_vars
=============================================================================
