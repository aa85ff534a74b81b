------------------------- MODULE HttpTransportProofs -------------------------
(***************************************************************************)
(* What HttpTransport keeps for any number of requests, any interval and   *)
(* any number of retries.  TransportInv is inductive: the lock tells which *)
(* request may be at work on the throttled host, so that the gap that one  *)
(* request waits out is not shortened by another.                          *)
(***************************************************************************)
EXTENDS HttpTransport, SequenceTheorems, TLAPS

USE DEF lockVars

\* Every delay the transport sleeps is a number of ticks, and Retry-After is capped.
LEMMA DelaysAreNat ==
  /\ \A n : BackoffDelays(n) \subseteq Nat
  /\ \A s \in RetryAfters : Capped(s) \in Nat /\ Capped(s) \in 0 .. MaxRetryAfter
BY NumbersAssumption DEF BackoffDelays, Capped

LEMMA InitEstablishes == Init => TransportInv
BY RequestsAssumption, NumbersAssumption
   DEF Init, TransportInv, TypeOK, LockIsHeld, PaceIsRight, SleepsAreBounded, Counted, Status

\* Only the request that takes a step, and only in its own fields.
LEMMA StepTypes ==
  ASSUME TypeOK, NEW r \in Requests, Step(r)
  PROVE  TypeOK'
<1> USE RequestsAssumption, NumbersAssumption DEF TypeOK, Status, Goes
<1>1. CASE HandleRequest(r)
  <2>1. queue' \in Seq(Throttled)
    <3>1. CASE r \in Throttled /\ queue' = Append(queue, r)
      BY <3>1, AppendProperties
    <3> QED
      BY <1>1, <3>1 DEF HandleRequest
  <2>2. status' \in [Requests -> Status]
    BY <1>1 DEF HandleRequest
  <2> QED
    BY <1>1, <2>1, <2>2 DEF HandleRequest
<1>2. CASE AcquireLock(r)
  BY <1>2 DEF AcquireLock
<1>3. CASE WaitTurn(r)
  BY <1>3 DEF WaitTurn
<1>4. CASE Send(r)
  BY <1>4 DEF Send, Stamp
<1>5. ASSUME NEW s \in {"body", "failed"}, Ends(r, s)
      PROVE  TypeOK'
  BY <1>5 DEF Ends, Release
<1>6. ASSUME NEW delays \in SUBSET Nat, SleepAndRetry(r, delays)
      PROVE  TypeOK'
  BY <1>6 DEF SleepAndRetry, Release
<1>7. CASE Answered(r) \/ PushedBack(r) \/ TimedOut(r) \/ Broken(r)
  BY <1>5, <1>6, <1>7, DelaysAreNat DEF Answered, PushedBack, TimedOut, Broken
<1>8. CASE Retry(r)
  BY <1>8 DEF Retry
<1>9. CASE ReadBody(r)
  BY <1>9 DEF ReadBody
<1> QED
  BY <1>1, <1>2, <1>3, <1>4, <1>7, <1>8, <1>9 DEF Step

\* The lock: a request is at work on the host only between AcquireLock and Release.
LEMMA StepKeepsLock ==
  ASSUME TypeOK, LockIsHeld, NEW r \in Requests, Step(r)
  PROVE  LockIsHeld'
<1> USE RequestsAssumption DEF TypeOK, LockIsHeld, Status, Goes
<1>1. CASE HandleRequest(r)
  BY <1>1 DEF HandleRequest
<1>2. CASE AcquireLock(r)
  BY <1>2 DEF AcquireLock
<1>3. CASE WaitTurn(r)
  BY <1>3 DEF WaitTurn
<1>4. CASE Send(r)
  BY <1>4 DEF Send
<1>5. ASSUME NEW s \in {"body", "failed"}, status[r] = "sent", Ends(r, s)
      PROVE  LockIsHeld'
  BY <1>5 DEF Ends, Release, Released
<1>6. ASSUME NEW delays, status[r] = "sent", SleepAndRetry(r, delays)
      PROVE  LockIsHeld'
  BY <1>6 DEF SleepAndRetry, Release, Released
<1>7. CASE Answered(r) \/ PushedBack(r) \/ TimedOut(r) \/ Broken(r)
  BY <1>5, <1>6, <1>7 DEF Answered, PushedBack, TimedOut, Broken
<1>8. CASE Retry(r)
  BY <1>8 DEF Retry
<1>9. CASE ReadBody(r)
  BY <1>9 DEF ReadBody
<1> QED
  BY <1>1, <1>2, <1>3, <1>4, <1>7, <1>8, <1>9 DEF Step

\* The pace: another request cannot restart the gap that one sleeps out, because
\* the lock keeps it away.
LEMMA StepKeepsPace ==
  ASSUME TypeOK, LockIsHeld, PaceIsRight, NEW r \in Requests, Step(r)
  PROVE  PaceIsRight'
<1> USE RequestsAssumption, NumbersAssumption DEF TypeOK, PaceIsRight, Status, Goes
<1>1. CASE HandleRequest(r)
  BY <1>1 DEF HandleRequest
<1>2. CASE AcquireLock(r)
  BY <1>2 DEF AcquireLock
<1>3. CASE WaitTurn(r)
  BY <1>3 DEF WaitTurn
<1>4. CASE Send(r)
  BY <1>4 DEF Send, Stamp, LockIsHeld
<1>5. ASSUME NEW s \in {"body", "failed"}, Ends(r, s)
      PROVE  PaceIsRight'
  BY <1>5 DEF Ends
<1>6. ASSUME NEW delays \in SUBSET Nat, SleepAndRetry(r, delays)
      PROVE  PaceIsRight'
  BY <1>6 DEF SleepAndRetry
<1>7. CASE Answered(r) \/ PushedBack(r) \/ TimedOut(r) \/ Broken(r)
  BY <1>5, <1>6, <1>7, DelaysAreNat DEF Answered, PushedBack, TimedOut, Broken
<1>8. CASE Retry(r)
  BY <1>8 DEF Retry
<1>9. CASE ReadBody(r)
  BY <1>9 DEF ReadBody
<1> QED
  BY <1>1, <1>2, <1>3, <1>4, <1>7, <1>8, <1>9 DEF Step

\* The sleeps: a request sets its own only, to a delay it is granted.
LEMMA StepKeepsSleeps ==
  ASSUME TypeOK, SleepsAreBounded, NEW r \in Requests, Step(r)
  PROVE  SleepsAreBounded'
<1> USE DEF TypeOK, SleepsAreBounded, Granted, Goes
<1>1. CASE HandleRequest(r)
  BY <1>1 DEF HandleRequest
<1>2. CASE AcquireLock(r)
  BY <1>2 DEF AcquireLock
<1>3. CASE WaitTurn(r)
  BY <1>3, NumbersAssumption DEF WaitTurn
<1>4. CASE Send(r)
  BY <1>4 DEF Send
<1>5. ASSUME NEW s, status[r] = "sent", Ends(r, s)
      PROVE  SleepsAreBounded'
  BY <1>5 DEF Ends
<1>6. ASSUME NEW delays \in SUBSET (Nat \cap Granted(r)), SleepAndRetry(r, delays)
      PROVE  SleepsAreBounded'
  <2>1. PICK d \in delays : wait' = [wait EXCEPT ![r] = d]
    BY <1>6 DEF SleepAndRetry
  <2>2. /\ wait'[r] = d /\ status'[r] = "backoff" /\ attempt' = attempt
        /\ \A q \in Requests : q # r => wait'[q] = wait[q] /\ status'[q] = status[q]
    BY <1>6, <2>1 DEF SleepAndRetry
  <2>3. d \in Nat /\ d \in Granted(r)' /\ d <= d
    BY <2>2
  <2>4. \A q \in Requests : Granted(q)' = Granted(q)
    BY <2>2
  <2> QED
    BY <2>2, <2>3, <2>4
<1>7. BackoffDelays(attempt[r]) \subseteq Nat \cap Granted(r)
  BY DelaysAreNat
<1>8. {Capped(s) : s \in RetryAfters} \subseteq Nat \cap Granted(r)
  BY DelaysAreNat
<1>9. CASE Answered(r) \/ PushedBack(r) \/ TimedOut(r) \/ Broken(r)
  BY <1>5, <1>6, <1>7, <1>8, <1>9 DEF Answered, PushedBack, TimedOut, Broken
<1>10. CASE Retry(r)
  BY <1>10 DEF Retry
<1>11. CASE ReadBody(r)
  BY <1>11 DEF ReadBody
<1> QED
  BY <1>1, <1>2, <1>3, <1>4, <1>9, <1>10, <1>11 DEF Step

\* The count of tries.
LEMMA StepKeepsCount ==
  ASSUME TypeOK, NEW q \in Requests, Counted(q), NEW r \in Requests, Step(r)
  PROVE  Counted(q)'
<1> USE NumbersAssumption DEF TypeOK, Counted, Status, Goes, MayRetry
<1>1. CASE HandleRequest(r)
  BY <1>1 DEF HandleRequest
<1>2. CASE AcquireLock(r)
  BY <1>2 DEF AcquireLock
<1>3. CASE WaitTurn(r)
  BY <1>3 DEF WaitTurn
<1>4. CASE Send(r)
  BY <1>4 DEF Send
<1>5. ASSUME NEW s \in {"body", "failed"}, status[r] = "sent", Ends(r, s)
      PROVE  Counted(q)'
  BY <1>5 DEF Ends
<1>6. ASSUME NEW delays, status[r] = "sent", MayRetry(r), SleepAndRetry(r, delays)
      PROVE  Counted(q)'
  BY <1>6 DEF SleepAndRetry
<1>7. CASE Answered(r) \/ PushedBack(r) \/ TimedOut(r) \/ Broken(r)
  BY <1>5, <1>6, <1>7 DEF Answered, PushedBack, TimedOut, Broken
<1>8. CASE Retry(r)
  BY <1>8 DEF Retry
<1>9. CASE ReadBody(r)
  BY <1>9 DEF ReadBody
<1> QED
  BY <1>1, <1>2, <1>3, <1>4, <1>7, <1>8, <1>9 DEF Step

\* Time: a sleep gets shorter by one while the gap gets longer by one.
LEMMA TickKeeps == TransportInv /\ Tick => TransportInv'
<1> SUFFICES ASSUME TransportInv, Tick
             PROVE  TransportInv'
  OBVIOUS
<1>1. TypeOK'
  BY NumbersAssumption DEF Tick, Older, TransportInv, TypeOK
<1>2. LockIsHeld'
  BY DEF Tick, TransportInv, LockIsHeld
<1>3. PaceIsRight'
  BY NumbersAssumption, RequestsAssumption DEF Tick, Older, TransportInv, TypeOK, PaceIsRight
<1>4. \A r \in Requests : Counted(r)'
  BY DEF Tick, TransportInv, Counted, MayRetry
<1>5. SleepsAreBounded'
  <2> SUFFICES ASSUME NEW r \in Requests, wait'[r] > 0
               PROVE  \/ status'[r] = "paced" /\ wait'[r] <= Interval
                      \/ status'[r] = "backoff" /\ \E d \in Granted(r)' : wait'[r] <= d
    BY DEF SleepsAreBounded
  <2>1. wait[r] \in Nat /\ wait[r] > 0 /\ wait'[r] = wait[r] - 1 /\ UNCHANGED <<status, attempt>>
    BY DEF Tick, TransportInv, TypeOK
  <2>2. CASE status[r] = "paced" /\ wait[r] <= Interval
    BY <2>1, <2>2, NumbersAssumption
  <2>3. CASE status[r] = "backoff" /\ \E d \in Granted(r) : wait[r] <= d
    <3>1. PICK d \in Granted(r) : wait[r] <= d
      BY <2>3
    <3>2. d \in Nat /\ Granted(r)' = Granted(r)
      BY <2>1, DelaysAreNat, NumbersAssumption DEF Granted
    <3> QED
      BY <2>1, <2>3, <3>1, <3>2
  <2> QED
    BY <2>1, <2>2, <2>3 DEF TransportInv, SleepsAreBounded
<1> QED
  BY <1>1, <1>2, <1>3, <1>4, <1>5 DEF TransportInv

LEMMA NextKeeps == TransportInv /\ [Next]_vars => TransportInv'
<1> SUFFICES ASSUME TransportInv, [Next]_vars
             PROVE  TransportInv'
  OBVIOUS
<1>1. ASSUME NEW r \in Requests, Step(r)
      PROVE  TransportInv'
  <2>1. \A q \in Requests : Counted(q)'
    BY <1>1, StepKeepsCount DEF TransportInv
  <2> QED
    BY <1>1, <2>1, StepTypes, StepKeepsLock, StepKeepsPace, StepKeepsSleeps DEF TransportInv
<1>2. CASE UNCHANGED vars
  BY <1>2 DEF vars, TransportInv, TypeOK, LockIsHeld, PaceIsRight, SleepsAreBounded, Granted,
     Counted, MayRetry
<1> QED
  BY <1>1, <1>2, TickKeeps DEF Next

\* The inductive invariant holds of every reachable state.
THEOREM TransportInvariant == Spec => []TransportInv
BY InitEstablishes, NextKeeps, PTL DEF Spec

\* Requests to the throttled host are serialized, and nobody else hits it while it
\* pushes one of them back.
THEOREM HostIsHitByOneAtATime == Spec => []HostIsHitByOne
<1>1. TransportInv => HostIsHitByOne
  BY DEF TransportInv, LockIsHeld, HostIsHitByOne
<1> QED
  BY <1>1, TransportInvariant, PTL

\* A request goes out at most max_retries + 1 times, and once if its method is not
\* one of RETRY_METHODS.
THEOREM AttemptsStayBounded == Spec => []AttemptsAreBounded
<1>1. TransportInv => AttemptsAreBounded
  <2> SUFFICES ASSUME TransportInv, NEW r \in Requests
               PROVE  sent[r] <= (IF r \in Retryable THEN MaxRetries + 1 ELSE 1)
    BY DEF AttemptsAreBounded
  <2>1. attempt[r] \in Nat /\ sent[r] \in {attempt[r], attempt[r] + 1}
    BY DEF TransportInv, TypeOK, Counted
  <2>2. attempt[r] <= (IF r \in Retryable THEN MaxRetries ELSE 0)
    BY DEF TransportInv, Counted
  <2> QED
    BY <2>1, <2>2, NumbersAssumption
<1> QED
  BY <1>1, TransportInvariant, PTL

\* Two starts on the throttled host are at least the interval apart.
THEOREM TheGapIsKept == Spec => GapIsKept
<1> DEFINE Apart == \A r \in Throttled : sent'[r] # sent[r] => gap >= Interval
<1>1. TransportInv /\ [Next]_vars => [Apart]_vars
  <2> SUFFICES ASSUME TransportInv, Next, NEW q \in Throttled, sent'[q] # sent[q]
               PROVE  gap >= Interval
    BY DEF Apart
  <2>1. PICK r \in Requests : Send(r)
    BY DEF Next, Tick, Step, HandleRequest, AcquireLock, WaitTurn, Answered, PushedBack,
           TimedOut, Broken, Ends, SleepAndRetry, Retry, ReadBody
  <2>2. r = q
    BY <2>1, RequestsAssumption DEF Send, TransportInv, TypeOK
  <2> QED
    BY <2>1, <2>2, NumbersAssumption DEF Send, TransportInv, TypeOK, PaceIsRight
<1> QED
  BY <1>1, TransportInvariant, PTL DEF Spec, GapIsKept
=============================================================================
