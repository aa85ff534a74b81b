---------------------------- MODULE HttpTransport ----------------------------
(***************************************************************************)
(* RetryingTransport (app/fetchers/http_transport.py): the requests that   *)
(* the fetchers of a refresh send concurrently, retried on transient       *)
(* failures, and serialized and paced on a throttled host.                 *)
(*                                                                         *)
(* Time is discrete; a sleep is a countdown ("wait") that Tick decrements, *)
(* and a task may run as long after it has ended as it likes.  One         *)
(* throttled host is modelled: each has a lock and a start time of its own. *)
(***************************************************************************)
EXTENDS Integers, Sequences, FiniteSets

CONSTANTS Requests,      \* requests (each redirect hop is one)
          Throttled,     \* those to the throttled host
          Retryable,     \* those with a method in RETRY_METHODS
          MaxRetries,    \* max_retries
          Backoff,       \* backoff_seconds
          Interval,      \* throttle_interval_seconds
          RetryAfters,   \* seconds that servers put into Retry-After
          MaxRetryAfter, \* MAX_RETRY_AFTER_SECONDS
          Nobody

ASSUME RequestsAssumption == /\ Throttled \subseteq Requests /\ Retryable \subseteq Requests
                             /\ Nobody \notin Requests
ASSUME NumbersAssumption == /\ MaxRetries \in Nat /\ Backoff \in Nat /\ Interval \in Nat
                            /\ RetryAfters \subseteq Int /\ MaxRetryAfter \in Nat

VARIABLES
  status,   \* of each request
  attempt,  \* its local variable
  wait,     \* ticks its sleep has left
  queue,    \* requests that wait for the host's lock, first come first served
  holder,   \* who holds it
  age,      \* ticks since _last_start, up to Interval; Interval when there is none
  sent,     \* history: how often each request went out
  gap       \* history: ticks since the host last received a request, up to Interval

lockVars == <<queue, holder>>
vars == <<status, attempt, wait, lockVars, age, sent, gap>>

Status == {"new", "queued", "turn", "paced", "sent", "backoff", "body", "done", "failed"}

Init ==
  /\ status = [r \in Requests |-> "new"]
  /\ attempt = [r \in Requests |-> 0] /\ wait = [r \in Requests |-> 0]
  /\ queue = <<>> /\ holder = Nobody
  /\ age = Interval /\ gap = Interval
  /\ sent = [r \in Requests |-> 0]

Goes(r, s) == status' = [status EXCEPT ![r] = s]

\* A fetcher sends r; only a request to the throttled host asks for the lock.
HandleRequest(r) ==
  /\ status[r] = "new"
  /\ \/ /\ r \in Throttled
        /\ queue' = Append(queue, r)
        /\ Goes(r, "queued")
     \/ /\ r \notin Throttled
        /\ Goes(r, "paced")
        /\ UNCHANGED queue
  /\ UNCHANGED <<attempt, wait, holder, age, sent, gap>>

AcquireLock(r) ==
  /\ status[r] = "queued"
  /\ holder = Nobody /\ queue # <<>> /\ Head(queue) = r
  /\ holder' = r /\ queue' = Tail(queue)
  /\ Goes(r, "turn")
  /\ UNCHANGED <<attempt, wait, age, sent, gap>>

\* wait_turn: the delay is computed once, and slept.
WaitTurn(r) ==
  /\ status[r] = "turn"
  /\ wait' = [wait EXCEPT ![r] = Interval - age]
  /\ Goes(r, "paced")
  /\ UNCHANGED <<attempt, lockVars, age, sent, gap>>

\* Mutant: the start time is not taken again after the sleep.
StampStale(r) == age

Stamp(r) == IF r \in Throttled THEN 0 ELSE age

\* self._inner.handle_async_request, after the start time is taken.
Send(r) ==
  /\ status[r] = "paced" /\ wait[r] = 0
  /\ Goes(r, "sent")
  /\ age' = Stamp(r)
  /\ sent' = [sent EXCEPT ![r] = @ + 1]
  /\ gap' = IF r \in Throttled THEN 0 ELSE gap
  /\ UNCHANGED <<attempt, wait, lockVars>>

-----------------------------------------------------------------------------
(* What comes back *)

\* Mutants: an off-by-one in the number of retries; the lock given back
\* during the wait for a retry; the lock kept by an exception.
MayRetryOnceMore(r) == r \in Retryable /\ attempt[r] <= MaxRetries
ReleasedAlways(r, s) == TRUE
ReleasedOnReturn(r, s) == s = "body"

MayRetry(r) == r \in Retryable /\ attempt[r] < MaxRetries
Released(r, s) == s \in {"body", "failed"}

\* The end of "async with throttle.lock(...)", unless the request goes on.
Release(r, s) == holder' = IF r \in Throttled /\ Released(r, s) THEN Nobody ELSE holder

\* Mutant: a Retry-After far in the future is granted.
CappedBelow(seconds) == IF seconds < 0 THEN 0 ELSE seconds

Capped(seconds) == IF seconds < 0 THEN 0
                   ELSE IF seconds > MaxRetryAfter THEN MaxRetryAfter ELSE seconds
\* The doubled wait, with jitter of up to its half.
BackoffDelays(n) == LET base == Backoff * 2^n
                    IN {d \in 0 .. base + base \div 2 : d >= base}

SleepAndRetry(r, delays) ==
  /\ \E d \in delays : wait' = [wait EXCEPT ![r] = d]
  /\ Goes(r, "backoff") /\ Release(r, "backoff")
  /\ UNCHANGED <<attempt, queue, age, sent, gap>>

Ends(r, s) ==
  /\ Goes(r, s) /\ Release(r, s)
  /\ UNCHANGED <<attempt, wait, queue, age, sent, gap>>

\* A response whose status is not in RETRY_STATUS_CODES: its body is still to come.
Answered(r) == status[r] = "sent" /\ Ends(r, "body")

\* A response with a retryable status, with or without a Retry-After.
PushedBack(r) ==
  /\ status[r] = "sent"
  /\ \/ ~MayRetry(r) /\ Ends(r, "body")
     \/ MayRetry(r) /\ SleepAndRetry(r, BackoffDelays(attempt[r]))
     \/ MayRetry(r) /\ SleepAndRetry(r, {Capped(s) : s \in RetryAfters})

\* A timeout or a network error.
TimedOut(r) ==
  /\ status[r] = "sent"
  /\ \/ ~MayRetry(r) /\ Ends(r, "failed")
     \/ MayRetry(r) /\ SleepAndRetry(r, BackoffDelays(attempt[r]))

\* Any other exception of the transport is not caught.
Broken(r) == status[r] = "sent" /\ Ends(r, "failed")

Retry(r) ==
  /\ status[r] = "backoff" /\ wait[r] = 0
  /\ attempt' = [attempt EXCEPT ![r] = @ + 1]
  /\ Goes(r, IF r \in Throttled THEN "turn" ELSE "paced")
  /\ UNCHANGED <<wait, lockVars, age, sent, gap>>

\* The client reads the body after the transport has returned the response.
ReadBody(r) ==
  /\ status[r] = "body"
  /\ Goes(r, "done")
  /\ UNCHANGED <<attempt, wait, lockVars, age, sent, gap>>

Older(n) == IF n < Interval THEN n + 1 ELSE n

Tick ==
  /\ age < Interval \/ gap < Interval \/ \E r \in Requests : wait[r] > 0
  /\ age' = Older(age) /\ gap' = Older(gap)
  /\ wait' = [r \in Requests |-> IF wait[r] > 0 THEN wait[r] - 1 ELSE 0]
  /\ UNCHANGED <<status, attempt, lockVars, sent>>

Step(r) ==
  \/ HandleRequest(r) \/ AcquireLock(r) \/ WaitTurn(r) \/ Send(r)
  \/ Answered(r) \/ PushedBack(r) \/ TimedOut(r) \/ Broken(r)
  \/ Retry(r) \/ ReadBody(r)

Next == Tick \/ \E r \in Requests : Step(r)
Spec == Init /\ [][Next]_vars

\* The loop runs every task that can run, time passes, and httpx's timeouts make
\* every attempt end.
FairSpec == Spec /\ WF_vars(Tick) /\ \A r \in Requests : WF_vars(Step(r))

-----------------------------------------------------------------------------
(* Properties *)

TypeOK ==
  /\ status \in [Requests -> Status] /\ attempt \in [Requests -> Nat]
  /\ wait \in [Requests -> Nat] /\ sent \in [Requests -> Nat]
  /\ queue \in Seq(Throttled) /\ holder \in Throttled \cup {Nobody}
  /\ age \in 0 .. Interval /\ gap \in 0 .. Interval

\* "Requests to THROTTLED_HOSTS are serialized ..., while this host is pushing
\* back, nobody else should be hitting it either": no two requests are between
\* their start and their response, and none is out while another waits to retry.
HostIsHitByOne ==
  \A r, s \in Throttled :
    status[r] \in {"paced", "sent", "backoff"} /\ status[s] = "sent" => r = s

\* A request that is at work on the throttled host holds its lock.
LockIsHeld ==
  \A r \in Throttled : status[r] \in {"turn", "paced", "sent", "backoff"} => holder = r

\* "With a minimum gap between them": from one start to the next, retries included.
GapIsKept ==
  [][\A r \in Throttled : sent'[r] # sent[r] => gap >= Interval]_vars

\* The start time the code keeps is the last start; a sleep lasts out the gap.
PaceIsRight ==
  /\ age = gap
  /\ \A r \in Throttled : status[r] = "paced" => wait[r] + gap >= Interval

\* No task sleeps longer than the gap before a start, nor, before a retry, than its own
\* back-off or the longest Retry-After that is granted, whatever a server asks for.
Granted(r) == BackoffDelays(attempt[r]) \cup 0 .. MaxRetryAfter
SleepsAreBounded ==
  \A r \in Requests :
    wait[r] > 0 => \/ status[r] = "paced" /\ wait[r] <= Interval
                   \/ status[r] = "backoff" /\ \E d \in Granted(r) : wait[r] <= d

\* "attempt" counts the retries: it is one behind from the moment a try is sent.
Counted(r) ==
  /\ sent[r] = IF status[r] \in {"new", "queued", "turn", "paced"} THEN attempt[r] ELSE attempt[r] + 1
  /\ attempt[r] <= (IF r \in Retryable THEN MaxRetries ELSE 0)
  /\ status[r] = "backoff" => MayRetry(r)

\* The inductive invariant behind the properties above and the next one.
TransportInv ==
  TypeOK /\ LockIsHeld /\ PaceIsRight /\ SleepsAreBounded /\ \A r \in Requests : Counted(r)

\* One try and max_retries retries, and no retry of a method that is not safe.
AttemptsAreBounded ==
  \A r \in Requests : sent[r] <= (IF r \in Retryable THEN MaxRetries + 1 ELSE 1)

\* A request gets its response or its exception, whoever is in front of it in the
\* queue and however often they are pushed back.
EveryRequestEnds == \A r \in Requests : <>(status[r] \in {"done", "failed"})
=============================================================================
