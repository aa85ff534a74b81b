------------------------ MODULE RefreshTriggersProofs ------------------------
(***************************************************************************)
(* RunsNeverOverlap and NoOvertaking for any number of requests, jobs and  *)
(* restarts.  Between a release and the moment the woken waiter resumes,   *)
(* the lock is free and nobody runs; what keeps a newcomer out is that the *)
(* waiter is still in the queue.  LoopConsistent says so, and is           *)
(* inductive; FirstInFirstOut adds the order of the queues to it.          *)
(***************************************************************************)
EXTENDS RefreshTriggers, SequenceTheorems, FiniteSetTheorems, TLAPS

USE DEF lockVars, taskVars, countVars, Callback, NoTask

LEMMA BootFacts ==
  ASSUME NEW n \in Nat
  PROVE  /\ Cardinality(BootTask(n)) = IF FetchOnStartup THEN 1 ELSE 0
         /\ Boot(n) = <<>> \/ Boot(n) = <<[what |-> "start", task |-> n]>>
         /\ BootTask(n) = {} => Boot(n) = <<>>
         /\ BootTask(n) \subseteq {n}
BY ConstantsAssumption, FS_EmptySet, FS_Singleton DEF BootTask, Boot

LEMMA TasksAreNat == Tasks \subseteq Nat /\ 1 \in Tasks /\ NoTask \notin Tasks
BY ConstantsAssumption DEF Tasks

LEMMA InitEstablishes == Init => LoopConsistent
<1> SUFFICES ASSUME Init
             PROVE  LoopConsistent
  OBVIOUS
<1> USE TasksAreNat, BootFacts, ConstantsAssumption DEF Init, States, Triggers, Callbacks
<1>1. TypeOK
  <2>1. ready \in Seq(Callbacks)
    <3> HIDE DEF Callbacks
    <3>1. [what |-> "start", task |-> 1] \in Callbacks
      BY DEF Callbacks
    <3>2. <<>> \in Seq(Callbacks) /\ <<[what |-> "start", task |-> 1]>> \in Seq(Callbacks)
      BY ONLY <3>1
    <3> QED
      BY ONLY <3>2, BootFacts, Init, 1 \in Nat DEF Init
  <2>2. state \in [Tasks -> States] /\ trigger \in [Tasks -> Triggers]
    OBVIOUS
  <2>3. created \in Nat
    OBVIOUS
  <2>4. waiters \in Seq(Tasks)
    OBVIOUS
  <2> QED
    BY <2>1, <2>2, <2>3, <2>4 DEF TypeOK
<1>2. Running = {}
  BY DEF Running
<1>3. RunsNeverOverlap /\ LockAgrees
  BY <1>2 DEF RunsNeverOverlap, LockAgrees
<1>4. ReadyAgrees
  BY DEF ReadyAgrees, Boot, BootTask
<1>5. WaitersAgree /\ WokenAgrees
  BY DEF WaitersAgree, WokenAgrees
<1>6. CreatedAgrees
  BY DEF CreatedAgrees, BootTask
<1> QED
  BY <1>1, <1>3, <1>4, <1>5, <1>6 DEF LoopConsistent

\* What stays of the ready queue once its first callback runs, or none does.
Rest(rest) == rest = ready \/ (ready # <<>> /\ rest = Tail(ready))

LEMMA RestFacts ==
  ASSUME TypeOK, NEW rest, Rest(rest)
  PROVE  /\ rest \in Seq(Callbacks)
         /\ \E d \in {0, 1} :
              \A i \in DOMAIN rest : i + d \in DOMAIN ready /\ rest[i] = ready[i + d]
<1>1. CASE rest = ready
  BY <1>1 DEF TypeOK
<1>2. CASE ready # <<>> /\ rest = Tail(ready)
  <2>1. rest \in Seq(Callbacks) /\ Len(rest) = Len(ready) - 1
    BY <1>2, HeadTailProperties DEF TypeOK
  <2>2. \A i \in DOMAIN rest : i + 1 \in DOMAIN ready /\ rest[i] = ready[i + 1]
    BY <1>2, <2>1, HeadTailProperties DEF TypeOK
  <2> QED
    BY <2>1, <2>2
<1> QED
  BY <1>1, <1>2 DEF Rest

LEMMA RestNames ==
  ASSUME TypeOK, ReadyAgrees, NEW rest, Rest(rest)
  PROVE  /\ \A i \in DOMAIN rest :
              /\ rest[i].what = "start" => rest[i].task \in Tasks /\ state[rest[i].task] = "created"
              /\ rest[i].what = "wake"  => rest[i].task \in Tasks /\ state[rest[i].task] = "woken"
              /\ rest[i].what \in {"start", "wake"} \/ rest[i].task = NoTask
         /\ \A i, j \in DOMAIN rest :
              rest[i].task = rest[j].task /\ rest[i].task # NoTask => i = j
<1>1. PICK d \in {0, 1} : \A i \in DOMAIN rest : i + d \in DOMAIN ready /\ rest[i] = ready[i + d]
  BY RestFacts
<1>2. rest \in Seq(Callbacks)
  BY RestFacts
<1>3. \A i \in DOMAIN rest : rest[i] \in Callbacks
  BY <1>2
<1>4. \A i \in DOMAIN rest :
        /\ rest[i].what = "start" => state[rest[i].task] = "created"
        /\ rest[i].what = "wake"  => state[rest[i].task] = "woken"
  BY <1>1 DEF ReadyAgrees
<1>5. \A i, j \in DOMAIN rest :
        rest[i].task = rest[j].task /\ rest[i].task # NoTask => i = j
  BY <1>1, <1>2 DEF ReadyAgrees
<1> QED
  BY <1>3, <1>4, <1>5 DEF Callbacks

\* The callbacks that stay ready still name their tasks, if those did not move.
LEMMA RestAgrees ==
  ASSUME TypeOK, ReadyAgrees, NEW rest, Rest(rest), ready' = rest,
         \A t \in Tasks : state[t] \in {"created", "woken"} /\ state'[t] # state[t]
            => \A i \in DOMAIN rest : rest[i].task # t
  PROVE  ReadyAgrees'
<1>1. \A i \in DOMAIN ready' :
        /\ ready'[i].what = "start" => state'[ready'[i].task] = "created"
        /\ ready'[i].what = "wake"  => state'[ready'[i].task] = "woken"
  BY RestNames
<1> QED
  BY <1>1, RestNames DEF ReadyAgrees

\* ... and one more callback, of a task that nothing that is ready names.
LEMMA AppendAgrees ==
  ASSUME TypeOK, ReadyAgrees, NEW rest, Rest(rest), NEW c \in Callbacks,
         ready' = Append(rest, c),
         \A t \in Tasks : state[t] \in {"created", "woken"} => state'[t] = state[t],
         c.what = "start" => state'[c.task] = "created" /\ state[c.task] = "none",
         c.what = "wake" => state'[c.task] = "woken" /\ state[c.task] = "waiting"
  PROVE  ReadyAgrees'
<1>1. rest \in Seq(Callbacks)
  BY RestFacts
<1>2. /\ ready' \in Seq(Callbacks) /\ Len(ready') = Len(rest) + 1
      /\ \A i \in DOMAIN rest : ready'[i] = rest[i]
      /\ ready'[Len(rest) + 1] = c
  BY <1>1, AppendProperties
<1>3. \A i \in DOMAIN ready' : i \in DOMAIN rest \/ i = Len(rest) + 1
  BY <1>1, <1>2
<1>4. \A i \in DOMAIN rest : rest[i].task # c.task \/ c.task = NoTask
  BY RestNames, c \in Callbacks, TasksAreNat DEF Callbacks
<1>5. \A i \in DOMAIN ready' :
        /\ ready'[i].what = "start" => state'[ready'[i].task] = "created"
        /\ ready'[i].what = "wake"  => state'[ready'[i].task] = "woken"
  BY RestNames, <1>2, <1>3
<1>6. \A i, j \in DOMAIN ready' :
        ready'[i].task = ready'[j].task /\ ready'[i].task # NoTask => i = j
  BY RestNames, <1>2, <1>3, <1>4
<1> QED
  BY <1>5, <1>6 DEF ReadyAgrees

-----------------------------------------------------------------------------
(* The steps *)

\* A new task: nothing runs, waits or is ready on its behalf yet.
LEMMA CreateKeeps ==
  ASSUME LoopConsistent, NEW rest, Rest(rest), NEW who \in Triggers, Create(who, rest),
         UNCHANGED <<lockVars, recent>>, requests' \in Nat, jobs' \in Nat, restarts' \in Nat
  PROVE  LoopConsistent'
<1> DEFINE n == created + 1
           c == [what |-> "start", task |-> n]
<1> USE DEF LoopConsistent
<1>1. /\ n \in Tasks /\ state[n] = "none" /\ c \in Callbacks
      /\ state' = [state EXCEPT ![n] = "created"] /\ ready' = Append(rest, c)
      /\ trigger' = [trigger EXCEPT ![n] = who] /\ created' = n
  BY DEF Create, CreatedAgrees, TypeOK, Callbacks
<1> HIDE DEF c
<1>2. ready' \in Seq(Callbacks)
  BY <1>1, RestFacts, AppendProperties
<1>3. TypeOK'
  BY <1>1, <1>2 DEF TypeOK, States
<1>4. Running' = Running
  BY <1>1 DEF Running, TypeOK
<1>5. RunsNeverOverlap' /\ LockAgrees'
  BY <1>4 DEF RunsNeverOverlap, LockAgrees
<1>6. ReadyAgrees'
  BY <1>1, AppendAgrees DEF TypeOK, c
<1>7. WaitersAgree'
  BY <1>1 DEF WaitersAgree, TypeOK
<1>8. WokenAgrees'
  BY <1>1 DEF WokenAgrees, WaitersAgree, TypeOK
<1>9. CreatedAgrees'
  BY <1>1, TasksAreNat DEF CreatedAgrees, TypeOK
<1> QED
  BY <1>3, <1>5, <1>6, <1>7, <1>8, <1>9

LEMMA RequestKeeps == LoopConsistent /\ Request => LoopConsistent'
<1> SUFFICES ASSUME LoopConsistent, Request
             PROVE  LoopConsistent'
  OBVIOUS
<1> USE DEF LoopConsistent
<1>1. PICK c \in Callbacks : c.what \notin {"start", "wake"} /\ ready' = Append(ready, c)
  BY DEF Request, Callbacks
<1>2. ready' \in Seq(Callbacks) /\ TypeOK'
  BY <1>1, AppendProperties DEF Request, TypeOK
<1>3. ReadyAgrees'
  BY <1>1, AppendAgrees DEF Request, Rest
<1> QED
  BY <1>2, <1>3 DEF Request, RunsNeverOverlap, LockAgrees, WaitersAgree, WokenAgrees,
                    CreatedAgrees, Running

LEMMA MaybeTriggerKeeps == LoopConsistent /\ MaybeTriggerRefresh => LoopConsistent'
<1> SUFFICES ASSUME LoopConsistent, MaybeTriggerRefresh
             PROVE  LoopConsistent'
  OBVIOUS
<1>1. Rest(Tail(ready))
  BY DEF MaybeTriggerRefresh, Rest
<1>2. CASE ready' = Tail(ready) /\ UNCHANGED taskVars
  <2>1. TypeOK'
    BY <1>1, <1>2, RestFacts DEF LoopConsistent, MaybeTriggerRefresh, TypeOK
  <2>2. ReadyAgrees'
    BY <1>1, <1>2, RestAgrees DEF LoopConsistent
  <2> QED
    BY <1>2, <2>1, <2>2 DEF MaybeTriggerRefresh, LoopConsistent, RunsNeverOverlap, LockAgrees,
                            WaitersAgree, WokenAgrees, CreatedAgrees, Running
<1>3. ASSUME NEW who \in {"page", "admin"}, Create(who, Tail(ready))
      PROVE  LoopConsistent'
  BY <1>1, <1>3, CreateKeeps DEF MaybeTriggerRefresh, Triggers, LoopConsistent, TypeOK
<1> QED
  BY <1>2, <1>3 DEF MaybeTriggerRefresh

LEMMA SchedulerKeeps == LoopConsistent /\ SchedulerDue => LoopConsistent'
<1> SUFFICES ASSUME LoopConsistent, SchedulerDue
             PROVE  LoopConsistent'
  OBVIOUS
<1>1. Rest(ready) /\ "scheduler" \in Triggers
  BY DEF Rest, Triggers
<1> QED
  BY <1>1, CreateKeeps DEF SchedulerDue, LoopConsistent, TypeOK

\* A task that starts takes a lock that is free and that nobody waits for, or
\* goes to the end of the queue.
LEMMA StartKeeps == LoopConsistent /\ StartTask => LoopConsistent'
<1> SUFFICES ASSUME LoopConsistent, StartTask
             PROVE  LoopConsistent'
  OBVIOUS
<1> DEFINE t == Head(ready).task
<1> USE DEF LoopConsistent
<1>1. /\ Rest(Tail(ready)) /\ ready' = Tail(ready)
      /\ UNCHANGED <<trigger, created, countVars>>
  BY DEF StartTask, Rest
<1>2. t \in Tasks /\ state[t] = "created"
  <2>1. 1 \in DOMAIN ready /\ Head(ready) = ready[1] /\ ready[1] \in Callbacks
    BY DEF StartTask, TypeOK
  <2> QED
    BY <2>1 DEF StartTask, ReadyAgrees, Callbacks
<1>3. \A i \in DOMAIN Tail(ready) : Tail(ready)[i].task # t
  <2>1. \A i \in DOMAIN Tail(ready) : i + 1 \in DOMAIN ready /\ Tail(ready)[i] = ready[i + 1]
    BY HeadTailProperties DEF TypeOK, StartTask
  <2> QED
    BY <2>1, <1>2, TasksAreNat DEF ReadyAgrees, TypeOK, StartTask
<1> HIDE DEF t
<1>4. CASE FreeForMe /\ TakeLock(t) /\ UNCHANGED waiters
  <2>1. TypeOK'
    BY <1>1, <1>2, <1>4, RestFacts DEF TakeLock, TypeOK, States
  <2>2. ReadyAgrees'
    BY <1>1, <1>2, <1>3, <1>4, RestAgrees DEF TakeLock, TypeOK
  <2>3. Running' = {t}
    BY <1>2, <1>4 DEF LockAgrees, Running, TakeLock, FreeForMe, TypeOK
  <2>4. RunsNeverOverlap' /\ LockAgrees'
    BY <2>3, <1>4 DEF RunsNeverOverlap, LockAgrees, TakeLock
  <2>5. WaitersAgree' /\ WokenAgrees'
    BY <1>2, <1>4 DEF WaitersAgree, WokenAgrees, TakeLock, FreeForMe, TypeOK
  <2>6. CreatedAgrees'
    BY <1>1, <1>2, <1>4 DEF CreatedAgrees, TakeLock, TypeOK
  <2> QED
    BY <2>1, <2>2, <2>4, <2>5, <2>6
<1>5. CASE /\ ~FreeForMe
           /\ waiters' = Queued(t)
           /\ state' = [state EXCEPT ![t] = "waiting"]
           /\ UNCHANGED <<locked, recent>>
  <2>1. /\ waiters' \in Seq(Tasks) /\ Len(waiters') = Len(waiters) + 1
        /\ \A i \in DOMAIN waiters : waiters'[i] = waiters[i]
        /\ waiters'[Len(waiters) + 1] = t
    BY <1>2, <1>5, AppendProperties DEF Queued, TypeOK
  <2>2. \A i \in DOMAIN waiters' : i \in DOMAIN waiters \/ i = Len(waiters) + 1
    BY <2>1 DEF TypeOK
  <2>3. DOMAIN waiters \subseteq DOMAIN waiters' /\ Len(waiters) + 1 \in DOMAIN waiters'
    BY <2>1 DEF TypeOK
  <2>4. \A i \in DOMAIN waiters : waiters[i] # t
    BY <1>2 DEF WaitersAgree
  <2>5. TypeOK'
    BY <1>1, <1>2, <1>5, <2>1, RestFacts DEF TypeOK, States
  <2>6. ReadyAgrees'
    BY <1>1, <1>2, <1>3, <1>5, RestAgrees DEF TypeOK
  <2>7. Running' = Running
    BY <1>2, <1>5 DEF Running, TypeOK
  <2>8. RunsNeverOverlap' /\ LockAgrees'
    BY <2>7, <1>5 DEF RunsNeverOverlap, LockAgrees
  <2>9. WaitersAgree'
    <3>1. \A u \in Tasks : u # t => state'[u] = state[u]
      BY <1>2, <1>5 DEF TypeOK
    <3>2. \A i, j \in DOMAIN waiters' : waiters'[i] = waiters'[j] => i = j
      BY <2>1, <2>2, <2>4 DEF WaitersAgree
    <3>3. \A u \in Tasks : state'[u] \in {"waiting", "woken"} <=> \E i \in DOMAIN waiters' : waiters'[i] = u
      <4>1. state'[t] = "waiting"
        BY <1>2, <1>5 DEF TypeOK
      <4> QED
        BY <3>1, <4>1, <2>1, <2>2, <2>3, <2>4 DEF WaitersAgree
    <3> QED
      BY <3>2, <3>3 DEF WaitersAgree
  <2>10. WokenAgrees'
    <3>1. Len(waiters) + 1 # 1 \/ locked
      BY <1>5 DEF FreeForMe, TypeOK
    <3>2. \A i \in DOMAIN waiters : state'[waiters[i]] = state[waiters[i]]
      BY <1>2, <1>5, <2>4 DEF TypeOK
    <3> QED
      BY <3>1, <3>2, <1>2, <1>5, <2>1, <2>2 DEF WokenAgrees, TypeOK
  <2>11. CreatedAgrees'
    BY <1>1, <1>2, <1>5 DEF CreatedAgrees, TypeOK
  <2> QED
    BY <2>5, <2>6, <2>8, <2>9, <2>10, <2>11
<1> QED
  BY <1>4, <1>5 DEF StartTask, t

\* The waiter that resumes is the first one, and the lock is still free.
LEMMA WakeKeeps == LoopConsistent /\ WakeTask => LoopConsistent'
<1> SUFFICES ASSUME LoopConsistent, WakeTask
             PROVE  LoopConsistent'
  OBVIOUS
<1> DEFINE t == Head(ready).task
<1> USE DEF LoopConsistent
<1>1. /\ Rest(Tail(ready)) /\ ready' = Tail(ready) /\ TakeLock(t) /\ waiters' = Tail(waiters)
      /\ UNCHANGED <<trigger, created, countVars>>
  BY DEF WakeTask, Rest
<1>2. t \in Tasks /\ state[t] = "woken"
  <2>1. 1 \in DOMAIN ready /\ Head(ready) = ready[1] /\ ready[1] \in Callbacks
    BY DEF WakeTask, TypeOK
  <2> QED
    BY <2>1 DEF WakeTask, ReadyAgrees, Callbacks
<1>3. \A i \in DOMAIN Tail(ready) : Tail(ready)[i].task # t
  <2>1. \A i \in DOMAIN Tail(ready) : i + 1 \in DOMAIN ready /\ Tail(ready)[i] = ready[i + 1]
    BY HeadTailProperties DEF TypeOK, WakeTask
  <2> QED
    BY <2>1, <1>2, TasksAreNat DEF ReadyAgrees, TypeOK, WakeTask
<1> HIDE DEF t
<1>4. ~locked /\ waiters # <<>> /\ 1 \in DOMAIN waiters /\ waiters[1] = t
  BY <1>2 DEF WaitersAgree, WokenAgrees, TypeOK
<1>5. /\ waiters' \in Seq(Tasks) /\ Len(waiters') = Len(waiters) - 1
      /\ \A i \in DOMAIN waiters' : i + 1 \in DOMAIN waiters /\ waiters'[i] = waiters[i + 1]
  BY <1>1, <1>4, HeadTailProperties DEF TypeOK
<1>6. \A i \in DOMAIN waiters : i # 1 => i - 1 \in DOMAIN waiters' /\ waiters'[i - 1] = waiters[i]
  BY <1>5 DEF TypeOK
<1>7. /\ \A u \in Tasks : u # t => state'[u] = state[u]
      /\ state'[t] = "running" /\ locked'
  BY <1>1, <1>2 DEF TakeLock, TypeOK
<1>8. TypeOK'
  BY <1>1, <1>2, <1>5, RestFacts DEF TakeLock, TypeOK, States
<1>9. ReadyAgrees'
  BY <1>1, <1>2, <1>3, <1>7, RestAgrees
<1>10. Running' = {t}
  BY <1>2, <1>4, <1>7 DEF LockAgrees, Running
<1>11. RunsNeverOverlap' /\ LockAgrees'
  BY <1>7, <1>10 DEF RunsNeverOverlap, LockAgrees
<1>12. WaitersAgree'
  <2>1. \A i \in DOMAIN waiters' : waiters'[i] # t
    BY <1>4, <1>5 DEF WaitersAgree, TypeOK
  <2>2. \A i, j \in DOMAIN waiters' : waiters'[i] = waiters'[j] => i = j
    BY <1>5 DEF WaitersAgree
  <2>3. \A u \in Tasks : state'[u] \in {"waiting", "woken"} <=> \E i \in DOMAIN waiters' : waiters'[i] = u
    <3>1. ASSUME NEW u \in Tasks, u # t
          PROVE  (\E i \in DOMAIN waiters' : waiters'[i] = u) <=> (\E i \in DOMAIN waiters : waiters[i] = u)
      BY <1>4, <1>5, <1>6, <3>1
    <3>2. ASSUME NEW u \in Tasks, u # t
          PROVE  state'[u] \in {"waiting", "woken"} <=> \E i \in DOMAIN waiters' : waiters'[i] = u
      BY <3>1, <3>2, <1>7 DEF WaitersAgree
    <3> QED
      BY <3>2, <2>1, <1>7
  <2> QED
    BY <2>2, <2>3 DEF WaitersAgree
<1>13. WokenAgrees'
  <2>1. \A i \in DOMAIN waiters' : state[waiters'[i]] # "woken" /\ waiters'[i] # t
    BY <1>4, <1>5 DEF WokenAgrees, WaitersAgree, TypeOK
  <2> QED
    BY <2>1, <1>5, <1>7 DEF WokenAgrees
<1>14. CreatedAgrees'
  BY <1>1, <1>2, <1>7 DEF CreatedAgrees
<1> QED
  BY <1>8, <1>9, <1>11, <1>12, <1>13, <1>14

\* A release: the first waiter, if any, is woken, and the lock is free meanwhile.
LEMMA EndKeeps == LoopConsistent /\ EndRun => LoopConsistent'
<1> SUFFICES ASSUME LoopConsistent, EndRun
             PROVE  LoopConsistent'
  OBVIOUS
<1> USE DEF LoopConsistent
<1>1. PICK t \in Running :
        \/ /\ ~SomeoneWaits
           /\ state' = [state EXCEPT ![t] = "done"]
           /\ UNCHANGED ready
        \/ /\ SomeoneWaits
           /\ state' = [state EXCEPT ![t] = "done", ![Head(waiters)] = "woken"]
           /\ ready' = Append(ready, Callback("wake", Head(waiters)))
  BY DEF EndRun
<1>2. /\ locked' = FALSE /\ UNCHANGED <<trigger, created, waiters, recent, countVars>>
      /\ t \in Tasks /\ state[t] = "running" /\ locked
  BY DEF EndRun, Running, LockAgrees
<1>3. CASE waiters = <<>>
  <2>1. state' = [state EXCEPT ![t] = "done"] /\ UNCHANGED ready
    BY <1>1, <1>3 DEF SomeoneWaits
  <2>2. TypeOK'
    BY <1>2, <2>1 DEF TypeOK, States
  <2>3. ReadyAgrees'
    BY <1>2, <2>1, RestAgrees DEF Rest, TypeOK
  <2>4. Running' = {}
    BY <1>2, <2>1 DEF RunsNeverOverlap, Running, TypeOK
  <2>5. RunsNeverOverlap' /\ LockAgrees'
    BY <2>4, <1>2 DEF RunsNeverOverlap, LockAgrees
  <2>6. WaitersAgree' /\ WokenAgrees'
    BY <1>2, <1>3, <2>1 DEF WaitersAgree, WokenAgrees, TypeOK
  <2>7. CreatedAgrees'
    BY <1>2, <2>1 DEF CreatedAgrees, TypeOK
  <2> QED
    BY <2>2, <2>3, <2>5, <2>6, <2>7
<1>4. CASE waiters # <<>>
  <2> DEFINE w == Head(waiters)
             c == [what |-> "wake", task |-> w]
  <2>1. state' = [state EXCEPT ![t] = "done", ![w] = "woken"] /\ ready' = Append(ready, c)
    BY <1>1, <1>4 DEF SomeoneWaits
  <2>2. 1 \in DOMAIN waiters /\ w = waiters[1] /\ w \in Tasks
    BY <1>4 DEF TypeOK
  <2> HIDE DEF w
  <2>3. state[w] = "waiting" /\ w # t
    BY <1>2, <2>2 DEF WaitersAgree, WokenAgrees
  <2>4. /\ \A u \in Tasks : u \notin {t, w} => state'[u] = state[u]
        /\ state'[t] = "done" /\ state'[w] = "woken"
    BY <1>2, <2>1, <2>2, <2>3 DEF TypeOK
  <2>5. c \in Callbacks
    BY <2>2 DEF Callbacks
  <2> HIDE DEF c
  <2>6. ready' \in Seq(Callbacks)
    BY <2>1, <2>5, AppendProperties DEF TypeOK
  <2>7. TypeOK'
    BY <1>2, <2>1, <2>2, <2>6 DEF TypeOK, States
  <2>8. ReadyAgrees'
    BY <1>2, <2>1, <2>3, <2>4, <2>5, AppendAgrees DEF Rest, c
  <2>9. Running' = {}
    BY <1>2, <2>4 DEF RunsNeverOverlap, Running
  <2>10. RunsNeverOverlap' /\ LockAgrees'
    BY <2>9, <1>2 DEF RunsNeverOverlap, LockAgrees
  <2>11. WaitersAgree'
    <3>1. \A u \in Tasks : state'[u] \in {"waiting", "woken"} <=> state[u] \in {"waiting", "woken"}
      BY <1>2, <2>3, <2>4
    <3> QED
      BY <3>1, <1>2 DEF WaitersAgree
  <2>12. WokenAgrees'
    <3>1. \A i \in DOMAIN waiters : waiters[i] \in Tasks /\ waiters[i] # t /\ (waiters[i] = w <=> i = 1)
      BY <1>2, <2>2 DEF WaitersAgree, TypeOK
    <3> QED
      BY <3>1, <1>2, <2>4 DEF WokenAgrees
  <2>13. CreatedAgrees'
    BY <1>2, <2>3, <2>4 DEF CreatedAgrees
  <2> QED
    BY <2>7, <2>8, <2>10, <2>11, <2>12, <2>13
<1> QED
  BY <1>3, <1>4

\* A restart leaves an unlocked lock, no waiter and at most the startup task.
LEMMA RestartKeeps == LoopConsistent /\ Restart => LoopConsistent'
<1> SUFFICES ASSUME LoopConsistent, Restart
             PROVE  LoopConsistent'
  OBVIOUS
<1> USE TasksAreNat DEF LoopConsistent
<1> DEFINE n == created + 1
           c == [what |-> "start", task |-> n]
<1>1. /\ n \in Nat /\ BootTask(n) \subseteq {n} /\ created' \in Nat /\ created' >= created
      /\ BootTask(n) # {} => created' = n
      /\ Boot(n) = <<>> \/ (Boot(n) = <<c>> /\ BootTask(n) = {n})
  <2>1. created \in Nat /\ n \in Nat
    BY DEF TypeOK
  <2>2. /\ Cardinality(BootTask(n)) = IF FetchOnStartup THEN 1 ELSE 0
        /\ BootTask(n) = IF FetchOnStartup THEN {n} ELSE {}
        /\ Boot(n) = IF FetchOnStartup THEN <<c>> ELSE <<>>
    BY <2>1, BootFacts DEF BootTask, Boot
  <2>3. created' = created + Cardinality(BootTask(n))
    BY DEF Restart
  <2> HIDE DEF c
  <2>4. CASE FetchOnStartup
    <3>1. Cardinality(BootTask(n)) = 1 /\ BootTask(n) = {n} /\ Boot(n) = <<c>>
      BY <2>2, <2>4
    <3>2. created' = n
      BY <3>1, <2>3
    <3> QED
      BY <2>1, <3>1, <3>2
  <2>5. CASE ~FetchOnStartup
    <3>1. Cardinality(BootTask(n)) = 0 /\ BootTask(n) = {} /\ Boot(n) = <<>>
      BY <2>2, <2>5
    <3>2. created' = created
      BY <2>1, <3>1, <2>3
    <3> QED
      BY <2>1, <3>1, <3>2
  <2> QED
    BY <2>4, <2>5
<1>2. /\ \A t \in Tasks : state'[t] = IF t \in BootTask(n) THEN "created"
                                       ELSE IF t \in Live THEN "lost" ELSE state[t]
      /\ state' \in [Tasks -> States] /\ trigger' \in [Tasks -> Triggers]
  BY DEF Restart, TypeOK, States, Triggers
<1>3. /\ ready' = Boot(n) /\ locked' = FALSE /\ waiters' = <<>> /\ recent' = FALSE
      /\ requests' \in Nat /\ jobs' \in Nat /\ restarts' \in Nat
  BY DEF Restart, TypeOK
<1>4. Boot(n) = <<>> \/ n \in Tasks
  BY DEF Restart, Boot, BootTask
<1>5. ready' \in Seq(Callbacks)
  <2>1. ready' = <<>> \/ (ready' = <<c>> /\ n \in Tasks)
    <3> HIDE DEF n, c
    <3> QED
      BY <1>1, <1>3, <1>4
  <2>2. n \in Tasks => c \in Callbacks
    <3> HIDE DEF n
    <3> QED
      BY DEF Callbacks
  <2> HIDE DEF n, c, Callbacks
  <2>3. CASE ready' = <<>>
    BY <2>3
  <2>4. CASE ready' = <<c>> /\ n \in Tasks
    BY <2>2, <2>4
  <2> QED
    BY <2>1, <2>3, <2>4
<1>6. TypeOK'
  <2>1. waiters' \in Seq(Tasks) /\ created' \in Nat
    BY ONLY <1>1, <1>3
  <2>2. locked' \in BOOLEAN /\ recent' \in BOOLEAN
    BY ONLY <1>3
  <2> HIDE DEF n, c, LoopConsistent
  <2> QED
    BY ONLY <1>2, <1>3, <1>5, <2>1, <2>2 DEF TypeOK
<1>7. Running' = {}
  BY <1>2 DEF Running, Live
<1>8. RunsNeverOverlap' /\ LockAgrees'
  BY <1>3, <1>7 DEF RunsNeverOverlap, LockAgrees
<1>9. ReadyAgrees'
  <2>1. CASE Boot(n) = <<>>
    BY <2>1, <1>3 DEF ReadyAgrees
  <2>2. CASE Boot(n) = <<c>> /\ BootTask(n) = {n} /\ n \in Tasks
    <3>1. state'[n] = "created" /\ c.what = "start" /\ c.task = n
      BY <2>2, <1>2
    <3> HIDE DEF n, c
    <3>2. DOMAIN ready' = {1} /\ ready'[1] = c
      BY <2>2, <1>3
    <3> QED
      BY <3>1, <3>2 DEF ReadyAgrees
  <2> QED
    BY <2>1, <2>2, <1>1, <1>4
<1>10. WaitersAgree' /\ WokenAgrees'
  BY <1>2, <1>3 DEF WaitersAgree, WokenAgrees, Live, TypeOK, States
<1>11. CreatedAgrees'
  BY <1>1, <1>2 DEF CreatedAgrees, Live, TypeOK
<1> QED
  BY <1>6, <1>8, <1>9, <1>10, <1>11

LEMMA NextKeeps == LoopConsistent /\ [Next]_vars => LoopConsistent'
<1> SUFFICES ASSUME LoopConsistent, [Next]_vars
             PROVE  LoopConsistent'
  OBVIOUS
<1>1. CASE WindowPasses \/ UNCHANGED vars
  <2>1. /\ UNCHANGED <<ready, state, trigger, created, locked, waiters, requests, jobs, restarts>>
        /\ recent' \in BOOLEAN
    BY <1>1 DEF WindowPasses, vars, LoopConsistent, TypeOK
  <2>2. TypeOK'
    BY <2>1 DEF LoopConsistent, TypeOK
  <2>3. RunsNeverOverlap' /\ LockAgrees'
    BY <2>1 DEF LoopConsistent, RunsNeverOverlap, LockAgrees, Running
  <2>4. ReadyAgrees' /\ CreatedAgrees'
    BY <2>1 DEF LoopConsistent, ReadyAgrees, CreatedAgrees
  <2>5. WaitersAgree' /\ WokenAgrees'
    BY <2>1 DEF LoopConsistent, WaitersAgree, WokenAgrees
  <2> QED
    BY <2>2, <2>3, <2>4, <2>5 DEF LoopConsistent
<1> QED
  BY <1>1, SchedulerKeeps, RequestKeeps, MaybeTriggerKeeps, StartKeeps, WakeKeeps, EndKeeps,
     RestartKeeps DEF Next, LoopStep

\* The tasks, the lock and the loop agree in every reachable state.
THEOREM LoopInvariant == Spec => []LoopConsistent
BY InitEstablishes, NextKeeps, PTL DEF Spec

\* No two refreshes run at a time, whoever started them and however often the
\* process restarts.
THEOREM OneRunAtATime == Spec => []RunsNeverOverlap
<1>1. LoopConsistent => RunsNeverOverlap
  BY DEF LoopConsistent
<1> QED
  BY <1>1, LoopInvariant, PTL

-----------------------------------------------------------------------------
(* The order of the runs: the tasks are numbered as they were asked for, and *)
(* the older of two is always at least as far as the younger.               *)

Over == {"done", "lost"}
Rank(s) == IF s \in Over THEN 4 ELSE IF s = "running" THEN 3
           ELSE IF s \in {"waiting", "woken"} THEN 2 ELSE IF s = "created" THEN 1 ELSE 0

IsStart(c) == c.what = "start"

OldestFirst    == \A t, u \in Tasks : t < u => Rank(state[u]) <= Rank(state[t])
NoneMissing    == \A t \in Tasks : t <= created => state[t] # "none"
StartIsReady   == \A t \in Tasks : state[t] = "created" =>
                    \E i \in DOMAIN ready : IsStart(ready[i]) /\ ready[i].task = t
StartsInOrder  == \A i, j \in DOMAIN ready :
                    i < j /\ IsStart(ready[i]) /\ IsStart(ready[j]) => ready[i].task < ready[j].task
WaitersInOrder == \A i, j \in DOMAIN waiters : i < j => waiters[i] < waiters[j]

FirstInFirstOut == /\ LoopConsistent
                   /\ OldestFirst /\ NoneMissing /\ StartIsReady /\ StartsInOrder /\ WaitersInOrder

LEMMA RankFacts ==
  /\ \A s \in States : /\ Rank(s) \in 0 .. 4
                       /\ Rank(s) = 4 <=> s \in Over
                       /\ Rank(s) = 3 <=> s = "running"
                       /\ Rank(s) = 2 <=> s \in {"waiting", "woken"}
                       /\ Rank(s) = 1 <=> s = "created"
                       /\ Rank(s) = 0 <=> s = "none"
BY DEF States, Rank, Over

LEMMA TaskTyped ==
  ASSUME TypeOK
  PROVE  \A t \in Tasks : t \in Nat /\ state[t] \in States
BY TasksAreNat DEF TypeOK

LEMMA RestStarts ==
  ASSUME TypeOK, StartsInOrder, NEW rest, Rest(rest)
  PROVE  /\ \A i, j \in DOMAIN rest :
              i < j /\ IsStart(rest[i]) /\ IsStart(rest[j]) => rest[i].task < rest[j].task
         /\ \A i \in DOMAIN ready : rest = ready \/ i # 1 => \E j \in DOMAIN rest : rest[j] = ready[i]
<1>1. CASE rest = ready
  BY <1>1 DEF StartsInOrder
<1>2. CASE ready # <<>> /\ rest = Tail(ready)
  <2>1. rest \in Seq(Callbacks) /\ Len(rest) = Len(ready) - 1 /\ Len(ready) \in Nat
    BY <1>2, HeadTailProperties DEF TypeOK
  <2>2. \A i \in DOMAIN rest : i + 1 \in DOMAIN ready /\ rest[i] = ready[i + 1]
    BY <1>2, <2>1, HeadTailProperties DEF TypeOK
  <2>3. \A i \in DOMAIN ready : i # 1 => i - 1 \in DOMAIN rest /\ rest[i - 1] = ready[i]
    BY <2>1, <2>2 DEF TypeOK
  <2>4. \A i, j \in DOMAIN rest :
          i < j /\ IsStart(rest[i]) /\ IsStart(rest[j]) => rest[i].task < rest[j].task
    BY <2>1, <2>2 DEF StartsInOrder
  <2> QED
    BY <2>3, <2>4, <1>2
<1> QED
  BY <1>1, <1>2 DEF Rest

LEMMA NoStartAppended ==
  ASSUME TypeOK, StartsInOrder, NEW c \in Callbacks, ~IsStart(c), ready' = Append(ready, c)
  PROVE  /\ StartsInOrder'
         /\ \A i \in DOMAIN ready : IsStart(ready[i]) => \E j \in DOMAIN ready' : ready'[j] = ready[i]
<1>1. /\ Len(ready) \in Nat /\ DOMAIN ready' = 1 .. Len(ready) + 1 /\ DOMAIN ready = 1 .. Len(ready)
      /\ \A i \in DOMAIN ready : ready'[i] = ready[i]
      /\ ready'[Len(ready) + 1] = c
  BY AppendProperties DEF TypeOK
<1>2. ~IsStart(c) /\ StartsInOrder
  OBVIOUS
<1> QED
  BY ONLY <1>1, <1>2 DEF StartsInOrder

\* One task gets further.
LEMMA OneTaskMoves ==
  ASSUME TypeOK, TypeOK', OldestFirst, NEW t \in Tasks,
         \A u \in Tasks : u # t => Rank(state'[u]) = Rank(state[u]),
         Rank(state[t]) <= Rank(state'[t]),
         \A u \in Tasks : u < t => Rank(state'[t]) <= Rank(state[u])
  PROVE  OldestFirst'
<1>1. \A u \in Tasks : Rank(state[u]) \in 0 .. 4 /\ Rank(state'[u]) \in 0 .. 4
  BY RankFacts DEF TypeOK
<1> SUFFICES ASSUME NEW u \in Tasks, NEW v \in Tasks, u < v
             PROVE  Rank(state'[v]) <= Rank(state'[u])
  BY DEF OldestFirst
<1>2. Rank(state[v]) <= Rank(state[u]) /\ u # v
  BY TasksAreNat DEF OldestFirst
<1>3. CASE v = t
  BY <1>2, <1>3
<1>4. CASE u = t
  BY <1>1, <1>2, <1>4
<1>5. CASE u # t /\ v # t
  BY <1>2, <1>5
<1> QED
  BY <1>3, <1>4, <1>5

-----------------------------------------------------------------------------
(* The steps *)

LEMMA CreateInOrder ==
  ASSUME FirstInFirstOut, LoopConsistent', NEW rest, Rest(rest),
         rest = ready \/ ~IsStart(Head(ready)),
         NEW who, Create(who, rest), UNCHANGED lockVars
  PROVE  FirstInFirstOut'
<1> DEFINE n == created + 1
           c == [what |-> "start", task |-> n]
<1> USE DEF FirstInFirstOut
<1>1. TypeOK /\ TypeOK' /\ CreatedAgrees /\ ReadyAgrees
  BY DEF LoopConsistent
<1>2. /\ n \in Tasks /\ state[n] = "none" /\ created \in Nat
      /\ state' = [state EXCEPT ![n] = "created"] /\ ready' = Append(rest, c) /\ created' = n
  BY <1>1 DEF Create, CreatedAgrees, TypeOK
<1>3. state'[n] = "created" /\ \A u \in Tasks : u # n => state'[u] = state[u]
  BY <1>1, <1>2 DEF TypeOK
<1>4. NoneMissing'
  BY <1>2, <1>3, TasksAreNat DEF NoneMissing
<1>5. OldestFirst'
  <2>1. \A u \in Tasks : u < n => Rank(state[u]) >= 1
    <3>1. ASSUME NEW u \in Tasks, u < n
          PROVE  Rank(state[u]) >= 1
      <4>1. Rank(state[u]) \in 0 .. 4 /\ (Rank(state[u]) = 0 <=> state[u] = "none") /\ u <= created
        BY <1>1, <1>2, <3>1, TaskTyped DEF Rank, Over, States
      <4> QED
        BY <4>1 DEF NoneMissing
    <3> QED
      BY <3>1
  <2>2. Rank(state'[n]) = 1 /\ Rank(state[n]) = 0
    BY <1>2, <1>3 DEF Rank, Over
  <2> QED
    BY <1>1, <1>2, <1>3, <2>1, <2>2, OneTaskMoves
<1>6. /\ Len(rest) \in Nat /\ Len(ready') = Len(rest) + 1 /\ DOMAIN ready' = 1 .. Len(rest) + 1
      /\ DOMAIN rest = 1 .. Len(rest)
      /\ \A i \in DOMAIN rest : ready'[i] = rest[i]
      /\ ready'[Len(rest) + 1] = c
  <2>1. rest \in Seq(Callbacks) /\ c \in Callbacks
    BY <1>1, <1>2, RestFacts DEF Callbacks
  <2> HIDE DEF c
  <2> QED
    BY <2>1, <1>2, AppendProperties
<1>7. \A i \in DOMAIN rest : IsStart(rest[i]) => rest[i].task \in Tasks /\ rest[i].task < n
  <2>1. \A i \in DOMAIN rest : IsStart(rest[i]) => rest[i].task \in Tasks /\ state[rest[i].task] = "created"
    BY <1>1, RestNames DEF IsStart
  <2>2. \A t \in Tasks : state[t] = "created" => t <= created
    BY <1>1, <1>2, TaskTyped DEF Rank, Over, States, CreatedAgrees
  <2>3. \A t \in Tasks : t <= created => t < n
    BY <1>1, <1>2, TaskTyped DEF Rank, Over, States
  <2> HIDE DEF n
  <2> QED
    BY <2>1, <2>2, <2>3
<1>8. StartsInOrder'
  <2>1. \A i, j \in DOMAIN rest :
          i < j /\ IsStart(rest[i]) /\ IsStart(rest[j]) => rest[i].task < rest[j].task
    BY <1>1, RestStarts
  <2>2. c.task = n
    OBVIOUS
  <2> HIDE DEF c
  <2> QED
    BY <1>6, <1>7, <2>1, <2>2 DEF StartsInOrder
<1>9. StartIsReady'
  <2>1. ASSUME NEW t \in Tasks, state'[t] = "created"
        PROVE  \E i \in DOMAIN ready' : IsStart(ready'[i]) /\ ready'[i].task = t
    <3>1. CASE t = n
      BY <1>6, <3>1 DEF IsStart
    <3>2. CASE t # n
      <4>1. PICK i \in DOMAIN ready : IsStart(ready[i]) /\ ready[i].task = t
        BY <1>3, <2>1, <3>2 DEF StartIsReady
      <4>2. rest = ready \/ i # 1
        BY <4>1, <1>1 DEF TypeOK
      <4>3. PICK j \in DOMAIN rest : rest[j] = ready[i]
        BY <1>1, <4>2, RestStarts
      <4> QED
        BY <1>6, <4>1, <4>3
    <3> QED
      BY <3>1, <3>2
  <2> QED
    BY <2>1 DEF StartIsReady
<1> QED
  BY <1>4, <1>5, <1>8, <1>9 DEF WaitersInOrder

\* A callback that is no start runs or comes in, and no task moves.
LEMMA OthersInOrder ==
  ASSUME FirstInFirstOut, LoopConsistent', UNCHANGED <<created, waiters>>,
         \A t \in Tasks : Rank(state'[t]) = Rank(state[t]),
         \/ ready' = ready
         \/ ready # <<>> /\ ~IsStart(Head(ready)) /\ ready' = Tail(ready)
         \/ \E c \in Callbacks : ~IsStart(c) /\ ready' = Append(ready, c)
  PROVE  FirstInFirstOut'
<1> USE DEF FirstInFirstOut
<1>1. TypeOK /\ TypeOK'
  BY DEF LoopConsistent
<1>2. \A t \in Tasks : /\ state'[t] = "none" <=> state[t] = "none"
                       /\ state'[t] = "created" <=> state[t] = "created"
  BY <1>1, RankFacts DEF TypeOK
<1>3. OldestFirst' /\ NoneMissing' /\ WaitersInOrder'
  BY <1>2 DEF OldestFirst, NoneMissing, WaitersInOrder
<1>4. CASE ready' = ready \/ (ready # <<>> /\ ~IsStart(Head(ready)) /\ ready' = Tail(ready))
  <2>1. PICK rest : rest = ready' /\ Rest(rest)
    BY <1>4 DEF Rest
  <2>2. StartsInOrder'
    BY <1>1, <2>1, RestStarts DEF StartsInOrder
  <2>3. \A i \in DOMAIN ready : IsStart(ready[i]) => \E j \in DOMAIN ready' : ready'[j] = ready[i]
    <3>1. \A i \in DOMAIN ready : IsStart(ready[i]) => rest = ready \/ i # 1
      BY <1>1, <1>4, <2>1 DEF TypeOK
    <3> QED
      BY <1>1, <2>1, <3>1, RestStarts
  <2>4. StartIsReady'
    BY <1>2, <2>3 DEF StartIsReady
  <2> QED
    BY <1>3, <2>2, <2>4
<1>5. CASE \E c \in Callbacks : ~IsStart(c) /\ ready' = Append(ready, c)
  <2>1. /\ StartsInOrder'
        /\ \A i \in DOMAIN ready : IsStart(ready[i]) => \E j \in DOMAIN ready' : ready'[j] = ready[i]
    BY <1>1, <1>5, NoStartAppended
  <2>2. StartIsReady'
    BY <1>2, <2>1 DEF StartIsReady
  <2> QED
    BY <1>3, <2>1, <2>2
<1> QED
  BY <1>3, <1>4, <1>5

\* The task at the head of the loop's queue: who it is, and what is left.
LEMMA HeadTask ==
  ASSUME FirstInFirstOut, StartTask \/ WakeTask
  PROVE  LET t == Head(ready).task IN
         /\ t \in Tasks /\ 1 \in DOMAIN ready /\ ready[1] = Head(ready) /\ Rest(ready')
         /\ IsStart(Head(ready)) => /\ state[t] = "created"
                                    /\ \A u \in Tasks : state[u] = "created" => t <= u
         /\ ~IsStart(Head(ready)) => /\ state[t] = "woken" /\ ~locked
                                     /\ \A u \in Tasks : state[u] \in {"waiting", "woken"} => t <= u
<1> DEFINE t == Head(ready).task
<1> USE DEF FirstInFirstOut
<1>1. TypeOK /\ ReadyAgrees /\ WaitersAgree /\ WokenAgrees
  BY DEF LoopConsistent
<1>2. 1 \in DOMAIN ready /\ ready[1] = Head(ready) /\ ready[1] \in Callbacks /\ Rest(ready')
  BY <1>1 DEF StartTask, WakeTask, TypeOK, Rest
<1>3. /\ t \in Tasks
      /\ IsStart(Head(ready)) => state[t] = "created"
      /\ ~IsStart(Head(ready)) => state[t] = "woken"
  BY <1>1, <1>2 DEF StartTask, WakeTask, ReadyAgrees, Callbacks, IsStart
<1>4. ASSUME IsStart(Head(ready)), NEW u \in Tasks, state[u] = "created"
      PROVE  t <= u
  <2>1. PICK i \in DOMAIN ready : IsStart(ready[i]) /\ ready[i].task = u
    BY <1>4 DEF StartIsReady
  <2>2. i = 1 \/ 1 < i
    BY <1>1 DEF TypeOK
  <2>3. i # 1 => t < u
    BY <1>2, <1>4, <2>1, <2>2 DEF StartsInOrder
  <2> QED
    BY <1>1, <1>2, <1>3, <2>1, <2>3, TaskTyped DEF Rank, Over, States
<1>5. ASSUME ~IsStart(Head(ready))
      PROVE  ~locked /\ \A u \in Tasks : state[u] \in {"waiting", "woken"} => t <= u
  <2>1. ~locked /\ 1 \in DOMAIN waiters /\ waiters[1] = t
    BY <1>1, <1>3, <1>5 DEF WaitersAgree, WokenAgrees, TypeOK
  <2>2. ASSUME NEW u \in Tasks, state[u] \in {"waiting", "woken"}
        PROVE  t <= u
    <3>1. PICK i \in DOMAIN waiters : waiters[i] = u
      BY <1>1, <2>2 DEF WaitersAgree
    <3>2. i = 1 \/ 1 < i
      BY <1>1 DEF TypeOK
    <3> QED
      BY <1>3, <2>1, <3>1, <3>2, TasksAreNat DEF WaitersInOrder
  <2> QED
    BY <2>1, <2>2
<1> QED
  BY <1>2, <1>3, <1>4, <1>5

\* A task that takes the lock is the oldest that is not over.
LEMMA LockGoesToTheOldest ==
  ASSUME FirstInFirstOut, StartTask \/ WakeTask, state'[Head(ready).task] = "running"
  PROVE  \A u \in Tasks : u < Head(ready).task => state[u] \in Over
<1> DEFINE t == Head(ready).task
<1> USE DEF FirstInFirstOut
<1>1. TypeOK /\ LockAgrees /\ WaitersAgree
  BY DEF LoopConsistent
<1>2. t \in Tasks
  BY HeadTask
<1> SUFFICES ASSUME NEW u \in Tasks, u < t
             PROVE  state[u] \in Over
  OBVIOUS
<1>3. Rank(state[t]) <= Rank(state[u]) /\ ~(t <= u)
  BY <1>1, <1>2, TaskTyped DEF Rank, Over, States, OldestFirst
<1>4. CASE StartTask
  <2>1. IsStart(Head(ready)) /\ state[t] = "created" /\ state[u] # "created"
    BY <1>3, <1>4, HeadTask DEF StartTask, IsStart
  <2>2. FreeForMe
    BY <1>1, <1>2, <1>4 DEF StartTask, TypeOK
  <2>3. state[u] # "running" /\ state[u] \notin {"waiting", "woken"}
    BY <1>1, <2>2 DEF FreeForMe, LockAgrees, Running, WaitersAgree
  <2> QED
    BY <1>1, <1>2, <1>3, <2>1, <2>3, TaskTyped DEF Rank, Over, States
<1>5. CASE WakeTask
  <2>1. ~IsStart(Head(ready))
    BY <1>5 DEF WakeTask, IsStart
  <2>2. state[t] = "woken" /\ ~locked /\ state[u] \notin {"waiting", "woken"}
    BY <1>3, <1>5, <2>1, HeadTask
  <2>3. state[u] # "running"
    BY <1>1, <2>2 DEF LockAgrees, Running
  <2> QED
    BY <1>1, <1>2, <1>3, <2>2, <2>3, TaskTyped DEF Rank, Over, States
<1> QED
  BY <1>4, <1>5

LEMMA RunInOrder ==
  ASSUME FirstInFirstOut, LoopConsistent', StartTask \/ WakeTask
  PROVE  FirstInFirstOut'
<1> DEFINE t == Head(ready).task
<1> USE DEF FirstInFirstOut
<1>1. TypeOK /\ TypeOK' /\ WaitersAgree /\ created' = created
  BY DEF LoopConsistent, StartTask, WakeTask
<1>2. /\ t \in Tasks /\ 1 \in DOMAIN ready /\ ready[1] = Head(ready) /\ Rest(ready')
      /\ state[t] \in {"created", "woken"} /\ (state[t] = "created" <=> IsStart(Head(ready)))
  BY HeadTask
<1>3. /\ \A u \in Tasks : u # t => state'[u] = state[u]
      /\ \/ StartTask /\ state'[t] = "running" /\ waiters' = waiters
         \/ StartTask /\ state'[t] = "waiting" /\ waiters' = Append(waiters, t)
         \/ WakeTask /\ state'[t] = "running" /\ waiters' = Tail(waiters)
  <2>1. CASE StartTask
    BY <1>1, <1>2, <2>1 DEF StartTask, TakeLock, Queued, TypeOK
  <2>2. CASE WakeTask
    BY <1>1, <1>2, <2>2 DEF WakeTask, TakeLock, TypeOK
  <2> QED
    BY <2>1, <2>2
<1>4. OldestFirst'
  <2>1. Rank(state[t]) <= Rank(state'[t])
    BY <1>2, <1>3 DEF Rank, Over
  <2>2. ASSUME NEW u \in Tasks, u < t
        PROVE  Rank(state'[t]) <= Rank(state[u])
    <3>1. CASE state'[t] = "running"
      BY <2>2, <3>1, LockGoesToTheOldest DEF Rank
    <3>2. CASE StartTask /\ state'[t] = "waiting"
      <4>1. Rank(state[t]) = 1 /\ state[u] # "created" /\ Rank(state[t]) <= Rank(state[u])
        <5>1. IsStart(Head(ready))
          BY <3>2 DEF StartTask, IsStart
        <5>2. state[t] = "created" /\ ~(t <= u)
          BY <1>1, <1>2, <2>2, <5>1, TaskTyped DEF Rank, Over, States
        <5>3. state[u] # "created"
          BY <5>1, <5>2, HeadTask
        <5> QED
          BY <1>2, <2>2, <5>2, <5>3 DEF OldestFirst, Rank, Over
      <4>2. Rank(state'[t]) = 2
        BY <3>2 DEF Rank, Over
      <4> QED
        BY <1>1, <4>1, <4>2, TaskTyped DEF Rank, Over, States
    <3> QED
      BY <1>3, <3>1, <3>2
  <2> QED
    BY <1>1, <1>2, <1>3, <2>1, <2>2, OneTaskMoves
<1>5. NoneMissing'
  BY <1>1, <1>3 DEF NoneMissing
<1>6. StartsInOrder'
  <2>1. PICK rest : rest = ready' /\ Rest(rest)
    BY <1>2
  <2> QED
    BY <1>1, <2>1, RestStarts DEF StartsInOrder
<1>7. StartIsReady'
  <2>1. ASSUME NEW u \in Tasks, state'[u] = "created"
        PROVE  \E i \in DOMAIN ready' : IsStart(ready'[i]) /\ ready'[i].task = u
    <3>1. u # t /\ state[u] = "created"
      BY <1>3, <2>1
    <3>2. PICK i \in DOMAIN ready : IsStart(ready[i]) /\ ready[i].task = u
      BY <3>1 DEF StartIsReady
    <3>3. i # 1
      BY <1>2, <3>1, <3>2
    <3>4. PICK rest : rest = ready' /\ Rest(rest)
      BY <1>2
    <3>5. PICK j \in DOMAIN rest : rest[j] = ready[i]
      BY <1>1, <3>3, <3>4, RestStarts
    <3> QED
      BY <3>2, <3>4, <3>5
  <2> QED
    BY <2>1 DEF StartIsReady
<1>8. WaitersInOrder'
  <2>1. CASE waiters' = waiters
    BY <2>1 DEF WaitersInOrder
  <2>2. CASE StartTask /\ waiters' = Append(waiters, t)
    <3>1. /\ Len(waiters) \in Nat /\ DOMAIN waiters' = 1 .. Len(waiters) + 1
          /\ DOMAIN waiters = 1 .. Len(waiters)
          /\ \A i \in DOMAIN waiters : waiters'[i] = waiters[i]
          /\ waiters'[Len(waiters) + 1] = t
      BY <1>1, <1>2, <2>2, AppendProperties DEF TypeOK
    <3>2. state[t] = "created"
      BY <1>2, <2>2 DEF StartTask, IsStart
    <3>3. ASSUME NEW i \in DOMAIN waiters
          PROVE  waiters[i] < t
      <4>1. waiters[i] \in Tasks /\ state[waiters[i]] \in {"waiting", "woken"}
        BY <1>1 DEF WaitersAgree, TypeOK
      <4>2. Rank(state[waiters[i]]) = 2 /\ Rank(state[t]) = 1
        BY <3>2, <4>1 DEF Rank, Over
      <4>3. ~(t < waiters[i]) /\ t # waiters[i]
        BY <1>2, <4>1, <4>2 DEF OldestFirst
      <4> QED
        BY <1>1, <1>2, <4>1, <4>3, TaskTyped DEF Rank, Over, States
    <3> QED
      BY <3>1, <3>3 DEF WaitersInOrder
  <2>3. CASE WakeTask /\ waiters' = Tail(waiters)
    <3>1. waiters # <<>>
      <4>1. state[t] = "woken"
        BY <1>2, <2>3 DEF WakeTask, IsStart
      <4> QED
        BY <1>1, <1>2, <4>1 DEF WaitersAgree
    <3>2. /\ Len(waiters') = Len(waiters) - 1 /\ waiters' \in Seq(Tasks)
          /\ \A i \in DOMAIN waiters' : i + 1 \in DOMAIN waiters /\ waiters'[i] = waiters[i + 1]
      BY <1>1, <2>3, <3>1, HeadTailProperties DEF TypeOK
    <3> QED
      BY <3>2 DEF WaitersInOrder
  <2> QED
    BY <1>3, <2>1, <2>2, <2>3
<1> QED
  BY <1>4, <1>5, <1>6, <1>7, <1>8

LEMMA EndInOrder ==
  ASSUME FirstInFirstOut, LoopConsistent', EndRun
  PROVE  FirstInFirstOut'
<1> USE DEF FirstInFirstOut
<1>1. TypeOK /\ TypeOK' /\ WaitersAgree /\ WokenAgrees /\ RunsNeverOverlap /\ LockAgrees
      /\ UNCHANGED <<created, waiters>>
  BY DEF LoopConsistent, EndRun
<1>2. PICK t \in Running :
        \/ state' = [state EXCEPT ![t] = "done"] /\ ready' = ready
        \/ /\ waiters # <<>>
           /\ state' = [state EXCEPT ![t] = "done", ![Head(waiters)] = "woken"]
           /\ ready' = Append(ready, Callback("wake", Head(waiters)))
  BY DEF EndRun, SomeoneWaits
<1>3. t \in Tasks /\ state[t] = "running" /\ locked
  BY <1>1, <1>2 DEF Running, LockAgrees
<1>4. waiters # <<>> => /\ Head(waiters) \in Tasks /\ state[Head(waiters)] = "waiting"
                        /\ 1 \in DOMAIN waiters
  BY <1>1, <1>3 DEF WaitersAgree, WokenAgrees, TypeOK
<1>5. state'[t] = "done" /\ \A u \in Tasks : u # t => Rank(state'[u]) = Rank(state[u])
  BY <1>1, <1>2, <1>3, <1>4 DEF TypeOK, Rank, Over
<1>6. OldestFirst'
  <2>1. Rank(state[t]) = 3 /\ Rank(state'[t]) = 4
    BY <1>3, <1>5 DEF Rank, Over
  <2>2. ASSUME NEW u \in Tasks, u < t
        PROVE  Rank(state[u]) = 4
    <3>1. state[u] # "running"
      BY <1>1, <1>3, <2>2, TasksAreNat DEF RunsNeverOverlap, Running
    <3>2. Rank(state[u]) >= 3
      BY <1>3, <2>1, <2>2 DEF OldestFirst
    <3> QED
      BY <1>1, <3>1, <3>2, RankFacts DEF TypeOK
  <2> QED
    BY <1>1, <1>3, <1>5, <2>1, <2>2, OneTaskMoves
<1>7. \A u \in Tasks : /\ state'[u] = "none" <=> state[u] = "none"
                       /\ state'[u] = "created" <=> state[u] = "created"
  BY <1>1, <1>3, <1>5, RankFacts DEF TypeOK
<1>8. NoneMissing' /\ WaitersInOrder'
  BY <1>1, <1>7 DEF NoneMissing, WaitersInOrder
<1>9. CASE ready' = ready
  BY <1>6, <1>7, <1>8, <1>9 DEF StartIsReady, StartsInOrder
<1>10. CASE waiters # <<>> /\ ready' = Append(ready, Callback("wake", Head(waiters)))
  <2> DEFINE c == Callback("wake", Head(waiters))
  <2>1. c \in Callbacks /\ ~IsStart(c)
    BY <1>4, <1>10 DEF Callbacks, IsStart
  <2>2. ready' = Append(ready, c)
    BY <1>10
  <2> HIDE DEF c
  <2>3. /\ StartsInOrder'
        /\ \A i \in DOMAIN ready : IsStart(ready[i]) => \E j \in DOMAIN ready' : ready'[j] = ready[i]
    BY <1>1, <2>1, <2>2, NoStartAppended
  <2>4. StartIsReady'
    BY <1>7, <2>3 DEF StartIsReady
  <2> QED
    BY <1>6, <1>8, <2>3, <2>4
<1> QED
  BY <1>2, <1>9, <1>10

LEMMA RestartInOrder ==
  ASSUME FirstInFirstOut, LoopConsistent', Restart
  PROVE  FirstInFirstOut'
<1> DEFINE n == created + 1
<1> USE DEF FirstInFirstOut
<1>1. TypeOK /\ TypeOK' /\ CreatedAgrees /\ n \in Nat /\ created \in Nat
  BY DEF LoopConsistent, TypeOK
<1>2. /\ ready' = Boot(n) /\ waiters' = <<>> /\ BootTask(n) \subseteq Tasks
      /\ created' = created + Cardinality(BootTask(n))
      /\ state' = [t \in Tasks |-> IF t \in BootTask(n) THEN "created"
                                   ELSE IF t \in Live THEN "lost" ELSE state[t]]
  BY DEF Restart
<1> DEFINE c == [what |-> "start", task |-> n]
<1>3. \/ BootTask(n) = {} /\ Boot(n) = <<>> /\ created' = created
      \/ BootTask(n) = {n} /\ Boot(n) = <<c>> /\ created' = n /\ n \in Tasks
  <2>1. /\ BootTask(n) = IF FetchOnStartup THEN {n} ELSE {}
        /\ Boot(n) = IF FetchOnStartup THEN <<c>> ELSE <<>>
        /\ Cardinality(BootTask(n)) = IF FetchOnStartup THEN 1 ELSE 0
    BY <1>1, BootFacts DEF BootTask, Boot
  <2> HIDE DEF c, n
  <2>2. CASE FetchOnStartup
    <3>1. Cardinality(BootTask(n)) = 1 /\ BootTask(n) = {n} /\ Boot(n) = <<c>>
      BY <2>1, <2>2
    <3>2. created' = n
      BY <1>2, <3>1 DEF n
    <3> QED
      BY <1>2, <3>1, <3>2
  <2>3. CASE ~FetchOnStartup
    <3>1. Cardinality(BootTask(n)) = 0 /\ BootTask(n) = {} /\ Boot(n) = <<>>
      BY <2>1, <2>3
    <3>2. created' = created
      BY <1>1, <1>2, <3>1
    <3> QED
      BY <3>1, <3>2
  <2> QED
    BY <2>2, <2>3
<1>4. \A t \in Tasks :
        /\ t <= created => state'[t] \in Over
        /\ t > created /\ t \notin BootTask(n) => state'[t] = "none"
        /\ t \in BootTask(n) => state'[t] = "created"
  <2>1. \A t \in Tasks : t <= created => t \notin BootTask(n)
    BY <1>1, <1>3, TasksAreNat
  <2> HIDE DEF n
  <2> QED
    BY <1>1, <1>2, <2>1 DEF NoneMissing, CreatedAgrees, Live, Over, TypeOK, States
<1>5. OldestFirst'
  <2> SUFFICES ASSUME NEW t \in Tasks, NEW u \in Tasks, t < u
               PROVE  Rank(state'[u]) <= Rank(state'[t])
    BY DEF OldestFirst
  <2>1. CASE t <= created
    <3>1. Rank(state'[t]) = 4
      BY <1>4, <2>1 DEF Rank
    <3>2. Rank(state'[u]) \in 0 .. 4
      BY <1>1, RankFacts DEF TypeOK
    <3> QED
      BY <3>1, <3>2
  <2>2. CASE t > created
    <3>1. u > created /\ u # n
      BY <1>1, <2>2, TasksAreNat
    <3>2. u \notin BootTask(n)
      BY <1>3, <3>1
    <3>3. Rank(state'[u]) = 0
      BY <1>4, <3>1, <3>2 DEF Rank, Over
    <3> QED
      BY <1>1, <3>3, RankFacts DEF TypeOK
  <2> QED
    BY <1>1, <2>1, <2>2, TasksAreNat
<1>6. NoneMissing'
  <2>1. \A t \in Tasks : t <= created' => t <= created \/ t \in BootTask(n)
    BY <1>1, <1>3, TasksAreNat
  <2> QED
    BY <1>4, <2>1 DEF NoneMissing, Over
<1>7. StartsInOrder' /\ StartIsReady'
  <2>1. \A t \in Tasks : state'[t] = "created" => t \in BootTask(n)
    BY <1>1, <1>4, TasksAreNat DEF Over
  <2>2. CASE BootTask(n) = {} /\ Boot(n) = <<>>
    BY <1>2, <2>1, <2>2 DEF StartsInOrder, StartIsReady
  <2>3. CASE BootTask(n) = {n} /\ Boot(n) = <<c>>
    <3>1. IsStart(c) /\ c.task = n
      BY DEF IsStart
    <3> HIDE DEF n, c
    <3>2. DOMAIN ready' = {1} /\ ready'[1] = c
      BY <1>2, <2>3
    <3> QED
      BY <2>1, <2>3, <3>1, <3>2 DEF StartsInOrder, StartIsReady
  <2> QED
    BY <1>3, <2>2, <2>3
<1>8. WaitersInOrder'
  BY <1>2 DEF WaitersInOrder
<1> QED
  BY <1>5, <1>6, <1>7, <1>8

LEMMA InitInOrder == Init => FirstInFirstOut
<1> SUFFICES ASSUME Init
             PROVE  FirstInFirstOut
  OBVIOUS
<1>1. LoopConsistent /\ TypeOK
  BY InitEstablishes DEF LoopConsistent
<1>2. /\ BootTask(1) = IF FetchOnStartup THEN {1} ELSE {}
      /\ Boot(1) = IF FetchOnStartup THEN <<[what |-> "start", task |-> 1]>> ELSE <<>>
      /\ Cardinality(BootTask(1)) = IF FetchOnStartup THEN 1 ELSE 0
  BY BootFacts DEF BootTask, Boot
<1>3. /\ \A t \in Tasks : state[t] = IF t \in BootTask(1) THEN "created" ELSE "none"
      /\ created = Cardinality(BootTask(1)) /\ ready = Boot(1) /\ waiters = <<>>
  BY DEF Init
<1>4. OldestFirst
  BY <1>2, <1>3, TasksAreNat DEF OldestFirst, Rank, Over, Tasks
<1>5. NoneMissing
  BY <1>2, <1>3, TasksAreNat, ConstantsAssumption DEF NoneMissing, Tasks
<1>6. StartIsReady /\ StartsInOrder
  BY <1>2, <1>3, ConstantsAssumption DEF StartIsReady, StartsInOrder, IsStart
<1>7. WaitersInOrder
  BY <1>3 DEF WaitersInOrder
<1> QED
  BY <1>1, <1>4, <1>5, <1>6, <1>7 DEF FirstInFirstOut

LEMMA OrderIsKept == FirstInFirstOut /\ [Next]_vars => FirstInFirstOut'
<1> SUFFICES ASSUME FirstInFirstOut, [Next]_vars
             PROVE  FirstInFirstOut'
  OBVIOUS
<1>1. LoopConsistent'
  BY NextKeeps DEF FirstInFirstOut
<1>2. CASE SchedulerDue
  <2>1. Rest(ready) /\ Create("scheduler", ready) /\ UNCHANGED lockVars
    BY <1>2 DEF SchedulerDue, Rest
  <2> QED
    BY <1>1, <2>1, CreateInOrder
<1>3. CASE Request
  <2>1. PICK c \in Callbacks : ~IsStart(c) /\ ready' = Append(ready, c)
    BY <1>3 DEF Request, Callbacks, IsStart
  <2>2. UNCHANGED <<created, waiters, state>>
    BY <1>3 DEF Request
  <2> QED
    BY <1>1, <2>1, <2>2, OthersInOrder
<1>4. CASE WindowPasses \/ UNCHANGED vars
  <2>1. UNCHANGED <<created, waiters, state, ready>>
    BY <1>4 DEF WindowPasses, vars
  <2> QED
    BY <1>1, <2>1, OthersInOrder
<1>5. CASE MaybeTriggerRefresh
  <2>1. ready # <<>> /\ ~IsStart(Head(ready)) /\ UNCHANGED lockVars /\ Rest(Tail(ready))
    BY <1>5 DEF MaybeTriggerRefresh, IsStart, Rest
  <2>2. CASE ready' = Tail(ready) /\ UNCHANGED taskVars
    BY <1>1, <2>1, <2>2, OthersInOrder
  <2>3. ASSUME NEW who, Create(who, Tail(ready))
        PROVE  FirstInFirstOut'
    BY <1>1, <2>1, <2>3, CreateInOrder
  <2> QED
    BY <1>5, <2>2, <2>3 DEF MaybeTriggerRefresh
<1>6. CASE StartTask \/ WakeTask
  BY <1>1, <1>6, RunInOrder
<1>7. CASE EndRun
  BY <1>1, <1>7, EndInOrder
<1>8. CASE Restart
  BY <1>1, <1>8, RestartInOrder
<1> QED
  BY <1>2, <1>3, <1>4, <1>5, <1>6, <1>7, <1>8 DEF Next, LoopStep

\* The order in which refreshes were asked for is the order of the loop's queue and of
\* the lock's, in every reachable state.
THEOREM OrderInvariant == Spec => []FirstInFirstOut
BY InitInOrder, OrderIsKept, PTL DEF Spec

\* No step makes a task run but the ones that take the lock.
LEMMA OnlyTheHeadStarts ==
  ASSUME FirstInFirstOut, [Next]_vars, NEW t \in Tasks, state[t] # "running", state'[t] = "running"
  PROVE  (StartTask \/ WakeTask) /\ t = Head(ready).task
<1>1. TypeOK
  BY DEF FirstInFirstOut, LoopConsistent
<1>2. CASE StartTask \/ WakeTask
  BY <1>1, <1>2 DEF StartTask, WakeTask, TakeLock, TypeOK
<1>3. CASE SchedulerDue \/ MaybeTriggerRefresh
  BY <1>1, <1>3 DEF SchedulerDue, MaybeTriggerRefresh, Create, TypeOK
<1>4. CASE Request \/ WindowPasses \/ UNCHANGED vars
  BY <1>4 DEF Request, WindowPasses, vars
<1>5. CASE EndRun
  BY <1>1, <1>5 DEF EndRun, TypeOK
<1>6. CASE Restart
  BY <1>1, <1>6 DEF Restart, TypeOK
<1> QED
  BY <1>2, <1>3, <1>4, <1>5, <1>6 DEF Next, LoopStep

\* No refresh is overtaken by one that was asked for after it, the gap between a
\* release and the woken waiter included (asyncio.Lock under run_all_fetchers).
THEOREM NobodyOvertakes == Spec => NoOvertaking
<1>1. ASSUME FirstInFirstOut, [Next]_vars, NEW t \in Tasks, state[t] # "running", state'[t] = "running",
             NEW u \in 1 .. t - 1
      PROVE  state[u] \in {"done", "lost"}
  <2>1. (StartTask \/ WakeTask) /\ t = Head(ready).task
    BY <1>1, OnlyTheHeadStarts
  <2>2. u \in Tasks /\ u < t
    BY <1>1, ConstantsAssumption DEF Tasks
  <2> QED
    BY <1>1, <2>1, <2>2, LockGoesToTheOldest DEF Over
<1>2. FirstInFirstOut /\ [Next]_vars =>
        [\A t \in Tasks : state[t] # "running" /\ state'[t] = "running" =>
           \A u \in 1 .. t - 1 : state[u] \in {"done", "lost"}]_vars
  BY <1>1
<1> QED
  BY <1>2, OrderInvariant, PTL DEF Spec, NoOvertaking
=============================================================================
