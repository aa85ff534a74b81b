--------------------------- MODULE DashboardProofs ---------------------------
(***************************************************************************)
(* What the user has done to the page survives the reloads behind his      *)
(* back, for any rows, filters, commits and gestures; and what htmx keeps  *)
(* of the requests that reopen the panels, for any number of rows.         *)
(***************************************************************************)
EXTENDS Dashboard, FiniteSetTheorems, WellFoundedInduction, TLAPS

USE DEF serverVars, rowVars, userVars, netVars

-----------------------------------------------------------------------------
(* The loop that reopens the panels *)

\* A set of numbers has a least one: the interval it ends is in no smaller one.
LEMMA LeastNumber ==
  ASSUME NEW T \in SUBSET Nat, T # {}
  PROVE  \E n \in T : \A m \in T : n <= m
<1> DEFINE Below(n) == 0 .. (n - 1)
           Intervals == {Below(n) : n \in T}
<1>1. Intervals \subseteq FiniteSubsetsOf(Nat) /\ Intervals # {}
  <2>1. \A n \in T : IsFiniteSet(Below(n)) /\ Below(n) \subseteq Nat
    BY FS_Interval
  <2> QED
    BY <2>1 DEF FiniteSubsetsOf
<1>2. PICK X \in Intervals : \A Y \in Intervals : ~ (<<Y, X>> \in StrictSubsetOrdering(Nat))
  <2>1. IsWellFoundedOn(StrictSubsetOrdering(Nat), FiniteSubsetsOf(Nat))
    BY FS_StrictSubsetOrderingWellFounded
  <2> HIDE DEF Intervals
  <2> QED
    BY <1>1, <2>1, WFMin
<1>3. PICK n \in T : X = Below(n)
  OBVIOUS
<1>4. ASSUME NEW m \in T, m < n
      PROVE  FALSE
  <2>1. Below(m) \subseteq Below(n) /\ m \in Below(n) /\ m \notin Below(m)
    BY <1>4
  <2>2. Below(m) \subseteq Nat /\ Below(n) \subseteq Nat
    OBVIOUS
  <2>3. <<Below(m), Below(n)>> \in StrictSubsetOrdering(Nat)
    BY <2>1, <2>2 DEF StrictSubsetOrdering
  <2> QED
    BY <1>2, <1>3, <2>3
<1> QED
  BY <1>4

\* One turn of the loop over the rows: what the i-th makes of the queue.
Turn(q, asking, i) ==
  IF Rows[i] \in asking THEN Queue(q, Request("history", Rows[i])) ELSE q

\* f is the queue after each of the first n rows.
Turns(f, q, asking, n) ==
  f = [i \in 0 .. n |-> IF i > 0 /\ Rows[i] \in asking THEN Queue(f[i - 1], Request("history", Rows[i]))
                        ELSE IF i > 0 THEN f[i - 1]
                        ELSE q]

\* The loop has a result: a number of rows without one would have a least, and one
\* turn more than the number before it has.
LEMMA LoopEnds ==
  ASSUME NEW q, NEW asking, NEW n \in Nat
  PROVE  \E f : Turns(f, q, asking, n)
<1> DEFINE T == {m \in Nat : ~ \E f : Turns(f, q, asking, m)}
<1>1. SUFFICES ASSUME T # {} PROVE FALSE
  OBVIOUS
<1>2. PICK k \in T : \A m \in T : k <= m
  <2> HIDE DEF T
  <2>1. T \in SUBSET Nat
    BY DEF T
  <2> QED
    BY <1>1, <2>1, LeastNumber
<1>3. k # 0
  <2>1. Turns([i \in 0 .. 0 |-> q], q, asking, 0)
    BY DEF Turns
  <2> QED
    BY <2>1
<1>4. PICK f : Turns(f, q, asking, k - 1)
  BY <1>2, <1>3
<1> DEFINE g == [i \in 0 .. k |-> IF i = k THEN Turn(f[k - 1], asking, k) ELSE f[i]]
<1>5. Turns(g, q, asking, k)
  <2>1. \A i \in 0 .. k : g[i] = IF i = k THEN Turn(f[k - 1], asking, k) ELSE f[i]
    OBVIOUS
  <2>2. \A i \in 0 .. (k - 1) :
          f[i] = IF i > 0 /\ Rows[i] \in asking THEN Queue(f[i - 1], Request("history", Rows[i]))
                 ELSE IF i > 0 THEN f[i - 1] ELSE q
    BY <1>4 DEF Turns
  <2>3. \A i \in 0 .. k :
          g[i] = IF i > 0 /\ Rows[i] \in asking THEN Queue(g[i - 1], Request("history", Rows[i]))
                 ELSE IF i > 0 THEN g[i - 1] ELSE q
    <3> TAKE i \in 0 .. k
    <3>1. CASE i = k
      <4>1. g[i] = Turn(f[k - 1], asking, k) /\ g[i - 1] = f[k - 1]
        BY <1>2, <1>3, <3>1, <2>1
      <4> QED
        BY <1>2, <1>3, <3>1, <4>1 DEF Turn
    <3>2. CASE i # k
      <4>1. i \in 0 .. (k - 1) /\ g[i] = f[i] /\ (i > 0 => g[i - 1] = f[i - 1])
        BY <1>2, <1>3, <3>2, <2>1
      <4> HIDE DEF g
      <4> QED
        BY <2>2, <4>1
    <3> QED
      BY <3>1, <3>2
  <2> HIDE DEF g
  <2>4. g = [i \in 0 .. k |-> g[i]]
    BY DEF g
  <2> QED
    BY <2>3, <2>4 DEF Turns
<1> HIDE DEF g
<1> QED
  BY <1>5

LEMMA AskedInTurns ==
  ASSUME NEW q, NEW asking
  PROVE  \E f : Turns(f, q, asking, Len(Rows)) /\ Asked(q, asking) = f[Len(Rows)]
<1> DEFINE result == CHOOSE f : Turns(f, q, asking, Len(Rows))
<1>1. Turns(result, q, asking, Len(Rows))
  <2>1. Len(Rows) \in Nat
    BY RowsAssumption
  <2> QED
    BY <2>1, LoopEnds
<1>2. Asked(q, asking) = result[Len(Rows)]
  BY Zenon DEF Asked, Turns
<1> QED
  BY <1>1, <1>2

\* htmx sends the first request of a burst of the idle body and the last one: of the
\* panels a swap reopens, those in between stay on their placeholder, however many
\* they are (the finding of the run "reopen").
THEOREM BurstKeepsItsEnds ==
  ASSUME NEW asking \in SUBSET Products, NEW first \in DOMAIN Rows, NEW final \in DOMAIN Rows,
         Rows[first] \in asking, Rows[final] \in asking,
         \A i \in DOMAIN Rows : Rows[i] \in asking => first <= i /\ i <= final
  PROVE  Asked(<<>>, asking) = IF first = final THEN <<Request("history", Rows[first])>>
                               ELSE <<Request("history", Rows[first]), Request("history", Rows[final])>>
<1>1. Len(Rows) \in Nat /\ DOMAIN Rows = 1 .. Len(Rows)
  BY RowsAssumption
<1>2. PICK f : Turns(f, <<>>, asking, Len(Rows)) /\ Asked(<<>>, asking) = f[Len(Rows)]
  BY AskedInTurns
<1>3. \A i \in 0 .. Len(Rows) :
        f[i] = IF i > 0 /\ Rows[i] \in asking THEN Queue(f[i - 1], Request("history", Rows[i]))
               ELSE IF i > 0 THEN f[i - 1] ELSE <<>>
  BY <1>2 DEF Turns
<1> DEFINE R(i) == Request("history", Rows[i])
           Newest(j, k) == Rows[j] \in asking /\ \A i \in (j + 1) .. k : Rows[i] \notin asking
           Good(k) == /\ k < first => f[k] = <<>>
                      /\ k >= first => \E j \in first .. k :
                           /\ Newest(j, k)
                           /\ f[k] = IF j = first THEN <<R(first)>> ELSE <<R(first), R(j)>>
           T == {k \in 0 .. Len(Rows) : ~ Good(k)}
<1>4. T = {}
  <2>1. SUFFICES ASSUME T # {} PROVE FALSE
    OBVIOUS
  <2>2. PICK k \in T : \A m \in T : k <= m
    <3>1. T \in SUBSET Nat
      BY <1>1
    <3> HIDE DEF T
    <3> QED
      BY <2>1, <3>1, LeastNumber
  <2>3. k # 0
    BY <1>1, <1>3
  <2>4. k \in 1 .. Len(Rows) /\ k - 1 \in 0 .. Len(Rows) /\ Good(k - 1)
    <3> HIDE DEF Good
    <3> QED
      BY <1>1, <2>2, <2>3
  <2>5. f[k] = IF Rows[k] \in asking THEN Queue(f[k - 1], R(k)) ELSE f[k - 1]
    BY <1>1, <1>3, <2>4
  <2>6. ~ Good(k)
    OBVIOUS
  <2> HIDE DEF R
  <2>7. CASE k < first
    BY <1>1, <2>4, <2>5, <2>6, <2>7
  <2>8. CASE k = first
    <3>1. f[k] = <<R(first)>>
      <4>1. f[k - 1] = <<>>
        BY <1>1, <2>4, <2>8
      <4> QED
        BY <2>5, <2>8, <4>1 DEF Queue
    <3>2. Newest(first, k)
      BY <1>1, <2>8
    <3> QED
      BY <1>1, <2>6, <2>8, <3>1, <3>2
  <2>9. CASE k > first
    <3>1. PICK j \in first .. (k - 1) :
            Newest(j, k - 1) /\ f[k - 1] = IF j = first THEN <<R(first)>> ELSE <<R(first), R(j)>>
      BY <1>1, <2>4, <2>9
    <3>2. CASE Rows[k] \in asking
      <4>1. f[k] = <<R(first), R(k)>>
        <5>1. f[k - 1] # <<>> /\ Head(f[k - 1]) = R(first)
          BY <3>1
        <5> QED
          BY <2>5, <3>2, <5>1 DEF Queue
      <4>2. Newest(k, k) /\ k \in first .. k /\ k # first
        BY <1>1, <2>4, <2>9, <3>2
      <4> QED
        BY <2>6, <2>9, <4>1, <4>2
    <3>3. CASE Rows[k] \notin asking
      <4>1. Newest(j, k) /\ j \in first .. k /\ f[k] = f[k - 1]
        BY <1>1, <2>4, <2>5, <3>1, <3>3
      <4> QED
        BY <2>6, <2>9, <3>1, <4>1
    <3> QED
      BY <3>2, <3>3
  <2> QED
    BY <1>1, <2>4, <2>7, <2>8, <2>9
<1>5. PICK j \in first .. Len(Rows) :
        /\ Newest(j, Len(Rows))
        /\ f[Len(Rows)] = IF j = first THEN <<R(first)>> ELSE <<R(first), R(j)>>
  <2>1. Good(Len(Rows)) /\ Len(Rows) >= first
    BY <1>1, <1>4
  <2> QED
    BY <2>1
<1>6. j = final
  BY <1>1, <1>5
<1> QED
  BY <1>2, <1>5, <1>6

-----------------------------------------------------------------------------
(* The requests of the page *)

\* What htmx has of an element's requests: one out, and one behind it that is not.
Sent(e)   == {r \in Requests : /\ r.what \in MayAsk[e]
                               /\ r.what = "history" => r.row \in Products}
Queues(e) == {q \in Seq(Sent(e)) : Len(q) <= 2 /\ (Len(q) = 2 => q[2].stage = "sent")}
Net == [Elements -> Seq(Requests)]
IsNet(n) == n \in Net /\ \A e \in Elements : n[e] \in Queues(e)

LEMMA RequestType ==
  /\ Request("status", NoRow) \in Sent("status-bar") /\ Request("status", NoRow) \in Sent("body")
  /\ Request("tables", NoRow) \in Sent("tables")
  /\ \A p \in Products : Request("history", p) \in Sent("body")
  /\ \A what, p : Request(what, p).stage = "sent"
BY BoundAssumption DEF Request, Sent, Requests, RunStates, MayAsk, Elements

LEMMA QueueType ==
  ASSUME NEW e, NEW q \in Queues(e), NEW r \in Sent(e), r.stage = "sent"
  PROVE  Queue(q, r) \in Queues(e)
BY DEF Queue, Queues

LEMMA AskedType ==
  ASSUME NEW q \in Queues("body"), NEW asking \in SUBSET Products
  PROVE  Asked(q, asking) \in Queues("body")
<1>1. PICK f : Turns(f, q, asking, Len(Rows)) /\ Asked(q, asking) = f[Len(Rows)]
  BY AskedInTurns
<1>2. Len(Rows) \in Nat
  BY RowsAssumption
<1>3. \A i \in 0 .. Len(Rows) :
        f[i] = IF i > 0 /\ Rows[i] \in asking THEN Queue(f[i - 1], Request("history", Rows[i]))
               ELSE IF i > 0 THEN f[i - 1] ELSE q
  BY <1>1 DEF Turns
<1> DEFINE T == {m \in 0 .. Len(Rows) : f[m] \notin Queues("body")}
<1>4. SUFFICES ASSUME T # {} PROVE FALSE
  BY <1>1, <1>2
<1>5. PICK k \in T : \A m \in T : k <= m
  <2>1. T \in SUBSET Nat
    BY <1>2
  <2> HIDE DEF T
  <2> QED
    BY <1>4, <2>1, LeastNumber
<1>6. k > 0 /\ f[k - 1] \in Queues("body")
  <2>1. k # 0
    BY <1>2, <1>3
  <2> QED
    BY <1>2, <1>5, <2>1
<1>7. CASE Rows[k] \in asking
  <2>1. Request("history", Rows[k]) \in Sent("body") /\ Request("history", Rows[k]).stage = "sent"
    BY <1>7, RequestType
  <2>2. Queue(f[k - 1], Request("history", Rows[k])) \in Queues("body")
    BY <1>6, <2>1, QueueType
  <2> QED
    BY <1>2, <1>3, <1>6, <1>7, <2>2
<1>8. CASE Rows[k] \notin asking
  BY <1>2, <1>3, <1>6, <1>8
<1> QED
  BY <1>7, <1>8

\* The parts of TypeOK that are not about requests.
PageTypes ==
  /\ phase \in {"idle", "starting", "working", "notifying"} /\ lastRun \in RunStates
  /\ version \in 0 .. MaxVersion /\ page \in 0 .. MaxVersion
  /\ \A s \in {hidden, listed, matches, visible, open, loaded, used, loading, remembered, dropped} :
       s \subseteq Products

\* TypeOK, said of the queues.
NetInv == PageTypes /\ IsNet(net)

LEMMA NetHasTypes == NetInv <=> TypeOK
<1>1. ASSUME NEW e \in Elements, net \in Net
      PROVE  net[e] \in Queues(e) <=>
               /\ Len(net[e]) <= 2 /\ (Len(net[e]) = 2 => net[e][2].stage = "sent")
               /\ \A i \in DOMAIN net[e] : /\ net[e][i].what \in MayAsk[e]
                                           /\ net[e][i].what = "history" => net[e][i].row \in Products
  <2>1. net[e] \in Seq(Requests)
    BY <1>1 DEF Net
  <2>2. net[e] \in Seq(Sent(e)) <=> \A i \in DOMAIN net[e] : net[e][i] \in Sent(e)
    BY <2>1
  <2>3. \A i \in DOMAIN net[e] :
          net[e][i] \in Sent(e) <=> /\ net[e][i].what \in MayAsk[e]
                                    /\ net[e][i].what = "history" => net[e][i].row \in Products
    BY <2>1 DEF Sent
  <2> QED
    BY <2>2, <2>3 DEF Queues
<1>2. net \in Net <=> net \in [Elements -> Seq(Requests)]
  BY DEF Net
<1> QED
  BY <1>1, <1>2 DEF NetInv, IsNet, TypeOK, PageTypes

LEMMA NetStarts == Init => NetInv
<1> SUFFICES ASSUME Init PROVE NetInv
  OBVIOUS
<1>1. <<Request("status", NoRow)>> \in Queues("status-bar") /\ \A e : <<>> \in Queues(e)
  BY RequestType DEF Queues
<1>2. \A e : Queues(e) \subseteq Seq(Requests)
  BY DEF Queues, Sent
<1>3. IsNet(net)
  BY <1>1, <1>2 DEF Init, IsNet, Net
<1> QED
  BY <1>3, BoundAssumption DEF Init, NetInv, PageTypes, RunStates

\* The parts of a sequence that is not empty.
LEMMA HeadAndTail ==
  ASSUME NEW S, NEW q \in Seq(S), q # <<>>
  PROVE  /\ Len(q) \in Nat /\ Len(q) >= 1 /\ Head(q) = q[1] /\ q[1] \in S
         /\ Tail(q) \in Seq(S) /\ Len(Tail(q)) = Len(q) - 1
         /\ \A i \in 1 .. Len(q) - 1 : Tail(q)[i] = q[i + 1]
<1>1. Len(q) \in Nat /\ Len(q) # 0
  OBVIOUS
<1> QED
  BY <1>1

LEMMA QueueParts ==
  ASSUME NEW e, NEW q
  PROVE  q \in Queues(e) <=> /\ q \in Seq(Sent(e)) /\ Len(q) <= 2
                             /\ Len(q) = 2 => q[2].stage = "sent"
BY DEF Queues

LEMMA TailType ==
  ASSUME NEW e, NEW q \in Queues(e), q # <<>>
  PROVE  Head(q) \in Sent(e) /\ Tail(q) \in Queues(e)
<1>1. q \in Seq(Sent(e)) /\ Len(q) <= 2
  BY QueueParts
<1>2. /\ Head(q) \in Sent(e) /\ Tail(q) \in Seq(Sent(e)) /\ Len(Tail(q)) = Len(q) - 1
      /\ Len(q) \in Nat
  BY <1>1, HeadAndTail
<1>3. Len(Tail(q)) <= 2 /\ Len(Tail(q)) # 2
  <2>1. \A n \in Nat : n <= 2 => n - 1 <= 2 /\ n - 1 # 2
    OBVIOUS
  <2> QED
    BY <1>1, <1>2, <2>1
<1> QED
  BY <1>2, <1>3, QueueParts

\* A queue of an element is replaced by another of it.
LEMMA NetChanges ==
  ASSUME NEW n, IsNet(n), NEW e \in Elements, NEW q \in Queues(e)
  PROVE  IsNet([n EXCEPT ![e] = q])
<1>1. q \in Seq(Requests)
  BY DEF Queues, Sent
<1> QED
  BY <1>1 DEF IsNet, Net

LEMMA IssueType ==
  ASSUME NEW n, IsNet(n), NEW e \in Elements, NEW r \in Sent(e), r.stage = "sent"
  PROVE  IsNet(Issue(n, e, r))
<1>1. Queue(n[e], r) \in Queues(e)
  BY QueueType DEF IsNet
<1> QED
  BY <1>1, NetChanges DEF Issue

LEMMA DequeuedType ==
  ASSUME NEW n, IsNet(n), NEW e \in Elements, n[e] # <<>>
  PROVE  IsNet(Dequeued(n, e))
<1>1. Tail(n[e]) \in Queues(e)
  BY TailType DEF IsNet
<1> QED
  BY <1>1, NetChanges DEF Dequeued

LEMMA StageType ==
  ASSUME IsNet(net), NEW e \in Elements, net[e] # <<>>, NEW r \in Sent(e), Stage(e, r)
  PROVE  IsNet(net')
<1>1. <<r>> \o Tail(net[e]) \in Queues(e)
  <2> DEFINE q == net[e]
             s == <<r>> \o Tail(q)
  <2>1. q \in Queues(e) /\ q # <<>>
    BY DEF IsNet
  <2> HIDE DEF q
  <2>0. q \in Seq(Sent(e)) /\ Len(q) <= 2 /\ (Len(q) = 2 => q[2].stage = "sent")
    BY <2>1, QueueParts
  <2>2. /\ Len(q) \in Nat /\ Tail(q) \in Seq(Sent(e)) /\ Len(Tail(q)) = Len(q) - 1
        /\ \A i \in 1 .. Len(q) - 1 : Tail(q)[i] = q[i + 1]
    BY <2>0, <2>1, HeadAndTail
  <2>3. s \in Seq(Sent(e)) /\ Len(s) = Len(q)
    BY <2>2
  <2>4. ASSUME Len(q) = 2 PROVE s[2] = q[2]
    <3>1. s[2] = Tail(q)[1]
      BY <2>2, <2>4
    <3>2. 1 \in 1 .. Len(q) - 1 /\ 1 + 1 = 2
      BY <2>4
    <3>3. Tail(q)[1] = q[1 + 1]
      BY <2>2, <3>2
    <3> QED
      BY <3>1, <3>2, <3>3
  <2> HIDE DEF s
  <2>5. s \in Queues(e)
    BY <2>0, <2>3, <2>4, QueueParts
  <2> QED
    BY <2>5 DEF s, q
<1> QED
  BY <1>1, NetChanges DEF Stage

LEMMA DetachedType ==
  ASSUME NEW q \in Queues("body")
  PROVE  Detached(q) \in Queues("body")
<1> DEFINE Old(r) == [r EXCEPT !.stale = r.what = "history"]
           d == [i \in 1 .. Len(q) |-> Old(q[i])]
<1>1. q \in Seq(Sent("body")) /\ Len(q) <= 2 /\ (Len(q) = 2 => q[2].stage = "sent")
  BY QueueParts
<1>2. ASSUME NEW r \in Sent("body")
      PROVE  Old(r) \in Sent("body") /\ Old(r).stage = r.stage
  BY DEF Sent, Requests
<1>3. Detached(q) = d /\ Len(q) \in Nat /\ \A i \in 1 .. Len(q) : q[i] \in Sent("body")
  BY <1>1 DEF Detached
<1> HIDE DEF Old
<1>4. d \in Seq(Sent("body")) /\ Len(d) = Len(q)
  BY <1>2, <1>3
<1>5. ASSUME Len(q) = 2 PROVE d[2].stage = q[2].stage
  BY <1>2, <1>3, <1>5
<1> HIDE DEF d
<1> QED
  BY <1>1, <1>3, <1>4, <1>5, QueueParts

\* The request at the head of an element with one, and what it is made into.
LEMMA HeadType ==
  ASSUME NetInv, NEW e \in Elements, net[e] # <<>>
  PROVE  /\ Head(net[e]) \in Sent(e)
         /\ [Head(net[e]) EXCEPT !.stage = "half", !.run = lastRun] \in Sent(e)
         /\ [Head(net[e]) EXCEPT !.stage = "answered", !.version = version] \in Sent(e)
<1>1. Head(net[e]) \in Sent(e)
  BY TailType DEF NetInv, IsNet
<1>2. \A r \in Sent(e) : /\ [r EXCEPT !.stage = "half", !.run = lastRun] \in Sent(e)
                         /\ [r EXCEPT !.stage = "answered", !.version = version] \in Sent(e)
  <2>1. lastRun \in RunStates /\ version \in 0 .. MaxVersion
    BY DEF NetInv, PageTypes
  <2> QED
    BY <2>1 DEF Sent, Requests
<1> QED
  BY <1>1, <1>2

LEMMA ServerSteps ==
  ASSUME NetInv, RunStarts \/ RunCommits \/ RunStep
  PROVE  PageTypes' /\ net' = net
<1> version \in 0 .. MaxVersion
  BY DEF NetInv, PageTypes
<1>1. /\ phase' \in {"idle", "starting", "working", "notifying"}
      /\ lastRun' \in {lastRun, "running", "finished"}
      /\ version' \in 0 .. MaxVersion
      /\ UNCHANGED <<page, rowVars, userVars, netVars>>
  <2>1. CASE RunStarts \/ RunCommits
    BY <2>1, BoundAssumption DEF RunStarts, RunCommits, RunMoves
  <2>2. CASE RunRecorded \/ RunFinishes
    BY <2>2 DEF RunRecorded, RunFinishes, RunMoves
  <2>3. CASE RunReleases \/ RunAborts
    BY <2>3 DEF RunReleases, RunAborts, RunMoves
  <2> QED
    BY <2>1, <2>2, <2>3 DEF RunStep
<1> QED
  BY <1>1 DEF NetInv, PageTypes, RunStates

LEMMA RequestSteps ==
  ASSUME NetInv, StatusStep \/ TablesAnswers \/ Poll
  PROVE  PageTypes' /\ IsNet(net')
<1>1. IsNet(net) /\ PageTypes
  BY DEF NetInv
<1>2. ASSUME NEW e \in Elements, StatusReadsRun(e)
      PROVE  PageTypes' /\ IsNet(net')
  <2>1. IsNet(net')
    BY <1>1, <1>2, HeadType, StageType DEF StatusReadsRun, Serves
  <2> QED
    BY <1>1, <1>2, <2>1 DEF StatusReadsRun, Serves, PageTypes
<1>3. ASSUME NEW e \in Elements, StatusAnswers(e)
      PROVE  PageTypes' /\ IsNet(net')
  <2>1. IsNet(Dequeued(net, e))
    BY <1>1, <1>3, DequeuedType DEF StatusAnswers, Serves
  <2>2. IsNet(Issue(Dequeued(net, e), "tables", Request("tables", NoRow)))
    BY <2>1, IssueType, RequestType DEF Elements
  <2>3. IsNet(net')
    BY <1>3, <2>1, <2>2 DEF StatusAnswers, ReloadFrom
  <2> QED
    BY <1>1, <1>3, <2>3 DEF StatusAnswers, Serves, PageTypes
<1>4. CASE TablesAnswers
  <2>1. "tables" \in Elements
    BY DEF Elements
  <2>2. IsNet(net')
    BY <1>1, <1>4, <2>1, HeadType, StageType DEF TablesAnswers, Serves
  <2> QED
    BY <1>1, <1>4, <2>2 DEF TablesAnswers, Serves, PageTypes
<1>5. CASE Poll
  <2>1. IsNet(Issue(net, "status-bar", Request("status", NoRow)))
    BY <1>1, IssueType, RequestType DEF Elements
  <2> QED
    BY <1>1, <1>5, <2>1 DEF Poll, PageTypes
<1> QED
  BY <1>2, <1>3, <1>4, <1>5 DEF StatusStep

LEMMA ArrivalSteps ==
  ASSUME NetInv, TablesArrive \/ HistoryArrives \/ ButtonArrives
  PROVE  PageTypes' /\ IsNet(net')
<1>1. IsNet(net) /\ PageTypes /\ {"tables", "body"} \subseteq Elements
  BY DEF NetInv, Elements
<1>2. CASE TablesArrive
  <2>1. IsNet(Dequeued(net, "tables")) /\ Head(net["tables"]) \in Sent("tables")
    BY <1>1, <1>2, DequeuedType, HeadType DEF TablesArrive
  <2>2. Reopened = <<remembered, {}, remembered>> /\ remembered \in SUBSET Products
    BY <1>1 DEF Reopened, PageTypes
  <2>3. Asked(Detached(Dequeued(net, "tables")["body"]), Reopened[3]) \in Queues("body")
    <3>1. Detached(Dequeued(net, "tables")["body"]) \in Queues("body")
      BY <1>1, <2>1, DetachedType DEF IsNet
    <3> QED
      BY <2>2, <3>1, AskedType
  <2>4. IsNet(net')
    BY <1>1, <1>2, <2>1, <2>3, NetChanges DEF TablesArrive
  <2>5. /\ Displayed(hidden, matches) \subseteq Products /\ Head(net["tables"]).version \in 0 .. MaxVersion
        /\ dropped' \subseteq Products
    BY <1>1, <1>2, <2>1, <2>2 DEF TablesArrive, Displayed, Sent, Requests
  <2> QED
    BY <1>1, <1>2, <2>2, <2>4, <2>5 DEF TablesArrive, PageTypes
<1>3. CASE HistoryArrives
  <2>1. IsNet(Dequeued(net, "body")) /\ Head(net["body"]).row \in Products
    BY <1>1, <1>3, DequeuedType, HeadType DEF HistoryArrives, Sent
  <2> QED
    BY <1>1, <1>3, <2>1 DEF HistoryArrives, PageTypes
<1>4. CASE ButtonArrives
  BY <1>1, <1>4 DEF ButtonArrives, PageTypes
<1> QED
  BY <1>2, <1>3, <1>4

LEMMA GestureSteps ==
  ASSUME NetInv, UserStep
  PROVE  PageTypes' /\ IsNet(net')
<1>1. IsNet(net) /\ PageTypes
  BY DEF NetInv
<1>2. CASE HideProduct \/ ShowProduct \/ Filter
  <2>1. hidden' \subseteq Products /\ matches' \subseteq Products
    BY <1>1, <1>2, RowsAssumption DEF HideProduct, ShowProduct, Filter, WithHidden, PageTypes
  <2>2. RefreshVisibility
    BY <1>2 DEF HideProduct, ShowProduct, Filter
  <2> QED
    BY <1>1, <2>1, <2>2 DEF RefreshVisibility, Displayed, PageTypes
<1>3. CASE OtherTab
  <2>1. hidden' \subseteq Products
    BY <1>1, <1>3, RowsAssumption DEF OtherTab, OtherTabHides, OtherTabShows, PageTypes
  <2> QED
    BY <1>1, <1>3, <2>1 DEF OtherTab, PageTypes
<1>4. CASE ToggleHistory
  BY <1>1, <1>4 DEF ToggleHistory, PageTypes
<1>5. CASE RefreshClick
  <2>1. IsNet(Issue(net, "body", Request("status", NoRow)))
    BY <1>1, IssueType, RequestType DEF Elements
  <2>2. dropped' \subseteq Products
    BY <1>1, <1>5 DEF RefreshClick, Awaited, PageTypes
  <2> QED
    BY <1>1, <1>5, <2>1, <2>2 DEF RefreshClick, PageTypes
<1> QED
  BY <1>2, <1>3, <1>4, <1>5 DEF UserStep

LEMMA NetGoesOn ==
  ASSUME NetInv, [Next]_vars
  PROVE  NetInv'
<1>1. PageTypes' /\ IsNet(net')
  <2>1. CASE UNCHANGED vars
    BY <2>1 DEF vars, NetInv, PageTypes
  <2>2. CASE RunStarts \/ RunCommits \/ RunStep
    BY <2>2, ServerSteps DEF NetInv
  <2> QED
    BY <2>1, <2>2, RequestSteps, ArrivalSteps, GestureSteps DEF Next, TablesStep
<1> QED
  BY <1>1 DEF NetInv, IsNet

LEMMA NetInvariant == Spec => []NetInv
<1>1. NetInv /\ [Next]_vars => NetInv'
  BY NetGoesOn
<1> QED
  BY NetStarts, <1>1, PTL DEF Spec

\* An element never has more than one request out and an unsent one behind it, however
\* many panels a swap reopens; #tables and #status-bar only ever ask for their own.
THEOREM PageTypeInvariant == Spec => []TypeOK
<1>1. NetInv => TypeOK
  BY NetHasTypes
<1> QED
  BY NetInvariant, <1>1, PTL

-----------------------------------------------------------------------------
(* The rows *)

\* The rows and what is stored of them.
Untouched == UNCHANGED <<hidden, matches, visible, open, remembered>>

\* The page never shows a panel it would not put back, and no panel is stuck.
PageInv == hidden \subseteq Products /\ open \subseteq remembered /\ NoPanelIsStuck

LEMMA PageStarts == Init => PageInv
BY RowsAssumption DEF Init, PageInv, NoPanelIsStuck

\* What a swap puts in place of the rows' state.
LEMMA FreshRows == Reopened[1] = remembered /\ Reopened[2] = {} /\ Reopened[3] = remembered
<1>1. \A a, b, c : <<a, b, c>>[1] = a /\ <<a, b, c>>[2] = b /\ <<a, b, c>>[3] = c
  OBVIOUS
<1> QED
  BY ONLY <1>1, Zenon DEF Reopened

\* A row whose history was asked for still waits, if the queue of the body has only
\* let go of another request at its head.
LEMMA StillAwaited ==
  ASSUME NEW q \in Queues("body"), q # <<>>, NEW p, NEW i \in DOMAIN q,
         q[i].what = "history", q[i].row = p, ~q[i].stale
  PROVE  \/ Head(q).what = "history" /\ Head(q).row = p /\ ~Head(q).stale
         \/ \E j \in DOMAIN Tail(q) : /\ Tail(q)[j].what = "history" /\ Tail(q)[j].row = p
                                      /\ ~Tail(q)[j].stale
<1>1. q \in Seq(Sent("body"))
  BY DEF Queues
<1>2. CASE i = 1
  BY <1>1, <1>2
<1>3. CASE i # 1
  <2>1. i - 1 \in DOMAIN Tail(q) /\ Tail(q)[i - 1] = q[i]
    BY <1>1, <1>3
  <2> QED
    BY <2>1
<1> QED
  BY <1>2, <1>3

\* No request for a row is lost but by a swap or behind a "refresh now".
LEMMA QuietSteps ==
  ASSUME NetInv, RunStarts \/ RunCommits \/ RunStep \/ StatusStep \/ TablesAnswers \/ Poll
  PROVE  Untouched /\ UNCHANGED <<loaded, used, loading, dropped>> /\ Awaited(net) \subseteq Awaited(net')
<1>1. Untouched /\ UNCHANGED <<loaded, used, loading, dropped>>
  BY DEF Untouched, RunStarts, RunCommits, RunStep, RunRecorded, RunFinishes, RunReleases, RunAborts,
     RunMoves, StatusStep, StatusReadsRun, StatusAnswers, TablesAnswers, Serves, Poll
<1>2. IsNet(net) /\ "body" \in Elements
  BY DEF NetInv, Elements
<1>3. CASE RunStarts \/ RunCommits \/ RunStep
  <2>1. net' = net
    BY <1>3, ServerSteps
  <2> QED
    BY <1>1, <2>1 DEF Awaited
<1>4. ASSUME NEW e \in Elements, StatusReadsRun(e) \/ StatusAnswers(e)
      PROVE  Awaited(net) \subseteq Awaited(net')
  <2>1. net[e] # <<>> /\ Head(net[e]).what = "status"
    BY <1>4 DEF StatusReadsRun, StatusAnswers, Serves
  <2>2. CASE e # "body"
    <3>1. net'["body"] = net["body"]
      BY <1>2, <1>4, <2>2 DEF StatusReadsRun, StatusAnswers, Stage, Dequeued, Issue, ReloadFrom, IsNet, Net
    <3> QED
      BY <3>1 DEF Awaited
  <2>3. CASE e = "body"
    <3> DEFINE q == net["body"]
    <3>1. q \in Queues("body") /\ q # <<>> /\ Head(q).what # "history"
      BY <1>2, <2>1, <2>3 DEF IsNet
    <3>2. ASSUME NEW p \in Awaited(net)
          PROVE  \E j \in DOMAIN Tail(q) : /\ Tail(q)[j].what = "history" /\ Tail(q)[j].row = p
                                           /\ ~Tail(q)[j].stale
      BY <3>1, <3>2, StillAwaited DEF Awaited
    <3>3. \/ net'["body"] = Tail(q)
          \/ \E r : net'["body"] = <<r>> \o Tail(q)
      BY <1>2, <1>4, <2>3 DEF StatusReadsRun, StatusAnswers, Stage, Dequeued, Issue, ReloadFrom, IsNet, Net
    <3>4. CASE net'["body"] = Tail(q)
      BY <3>2, <3>4 DEF Awaited
    <3>5. ASSUME NEW r, net'["body"] = <<r>> \o Tail(q)
          PROVE  Awaited(net) \subseteq Awaited(net')
      <4>1. q \in Seq(Sent("body"))
        BY <3>1 DEF Queues
      <4>2. \A j \in DOMAIN Tail(q) : j + 1 \in DOMAIN net'["body"] /\ net'["body"][j + 1] = Tail(q)[j]
        BY <3>1, <3>5, <4>1
      <4> HIDE DEF q
      <4> QED
        BY <3>2, <4>2 DEF Awaited
    <3> QED
      BY <3>3, <3>4, <3>5
  <2> QED
    BY <2>2, <2>3
<1>5. CASE TablesAnswers \/ Poll
  <2>1. net'["body"] = net["body"]
    BY <1>2, <1>5 DEF TablesAnswers, Poll, Stage, Issue, IsNet, Net
  <2> QED
    BY <1>1, <2>1 DEF Awaited
<1> QED
  BY <1>1, <1>3, <1>4, <1>5 DEF StatusStep

LEMMA SwapKeepsPage ==
  ASSUME PageInv, TablesArrive
  PROVE  PageInv' /\ hidden' = hidden /\ open \subseteq open'
<1>1. /\ visible' = Displayed(hidden, matches) /\ open' = remembered /\ used' = {}
      /\ dropped' = remembered \ Awaited(net') /\ UNCHANGED <<hidden, remembered>>
  BY FreshRows DEF TablesArrive
<1>2. open' \subseteq Awaited(net') \cup dropped'
  BY <1>1
<1> QED
  BY <1>1, <1>2 DEF PageInv, NoPanelIsStuck

LEMMA ResponsesKeepPage ==
  ASSUME NetInv, PageInv, HistoryArrives \/ ButtonArrives
  PROVE  PageInv' /\ Untouched
<1>1. CASE HistoryArrives
  <2> DEFINE q == net["body"]
  <2>1. q \in Queues("body") /\ q # <<>> /\ net'["body"] = Tail(q)
    <3>1. IsNet(net) /\ "body" \in Elements
      BY DEF NetInv, Elements
    <3> QED
      BY <1>1, <3>1 DEF HistoryArrives, Dequeued, IsNet, Net
  <2>2. /\ loaded' = IF Head(q).stale THEN loaded ELSE loaded \cup {Head(q).row}
        /\ UNCHANGED <<hidden, matches, visible, open, remembered, used, loading, dropped>>
    BY <1>1 DEF HistoryArrives
  <2>3. ASSUME NEW p \in Awaited(net)
        PROVE  p \in loaded' \cup Awaited(net')
    <3> HIDE DEF q
    <3>1. \/ ~Head(q).stale /\ Head(q).row = p
          \/ \E j \in DOMAIN Tail(q) : /\ Tail(q)[j].what = "history" /\ Tail(q)[j].row = p
                                       /\ ~Tail(q)[j].stale
      BY <2>1, <2>3, StillAwaited DEF Awaited, q
    <3> QED
      BY <2>1, <2>2, <2>3, <3>1 DEF Awaited
  <2>4. loaded \subseteq loaded'
    BY <2>2
  <2> QED
    BY <2>2, <2>3, <2>4 DEF PageInv, NoPanelIsStuck, Untouched
<1>2. CASE ButtonArrives
  BY <1>2 DEF ButtonArrives, PageInv, NoPanelIsStuck, Untouched
<1> QED
  BY <1>1, <1>2

\* One product at a time is hidden or shown, and shown by the user only.
OneAtATime ==
  hidden' # hidden =>
    \E p \in Products :
      \/ hidden' = hidden \cup {p}
      \/ /\ hidden' = hidden \ {p}
         /\ p \in visible' \cup (Products \ matches) \/ UNCHANGED rowVars

LEMMA GesturesKeepPage ==
  ASSUME PageInv,
         HideProduct \/ ShowProduct \/ Filter \/ OtherTab \/ ToggleHistory \/ RefreshClick
  PROVE  PageInv' /\ OneAtATime
<1>1. CASE HideProduct
  <2>1. PICK p \in Products : hidden' = hidden \cup {p}
    BY <1>1, RowsAssumption DEF HideProduct, WithHidden
  <2> QED
    BY <1>1, <2>1 DEF HideProduct, RefreshVisibility, PageInv, NoPanelIsStuck, OneAtATime
<1>2. CASE ShowProduct
  <2>1. PICK p \in listed : hidden' = hidden \ {p}
    BY <1>2 DEF ShowProduct
  <2>2. /\ visible' = Displayed(hidden', matches) /\ matches' = matches /\ open' \subseteq open
        /\ UNCHANGED <<remembered, used, loaded, loading, netVars>>
    BY <1>2 DEF ShowProduct, RefreshVisibility
  <2>3. hidden' # hidden => p \in Products
    BY <2>1 DEF PageInv
  <2>4. p \in Products => p \in visible' \cup (Products \ matches)
    BY <2>1, <2>2 DEF Displayed
  <2> QED
    BY <2>1, <2>2, <2>3, <2>4 DEF PageInv, NoPanelIsStuck, OneAtATime
<1>3. CASE Filter
  BY <1>3 DEF Filter, RefreshVisibility, PageInv, NoPanelIsStuck, OneAtATime
<1>4. CASE OtherTab
  <2>1. PICK p \in Products : hidden' = hidden \cup {p} \/ hidden' = hidden \ {p}
    BY <1>4, RowsAssumption DEF OtherTab, OtherTabHides, OtherTabShows, PageInv
  <2>2. UNCHANGED <<rowVars, remembered, netVars>>
    BY <1>4 DEF OtherTab
  <2> QED
    BY <2>1, <2>2 DEF PageInv, NoPanelIsStuck, OneAtATime
<1>5. CASE ToggleHistory
  BY <1>5 DEF ToggleHistory, PageInv, NoPanelIsStuck, OneAtATime
<1>6. CASE RefreshClick
  <2>1. Awaited(net) \cup dropped \subseteq Awaited(net') \cup dropped'
    BY <1>6 DEF RefreshClick
  <2> QED
    BY <1>6, <2>1 DEF RefreshClick, PageInv, NoPanelIsStuck, OneAtATime
<1> QED
  BY <1>1, <1>2, <1>3, <1>4, <1>5, <1>6

LEMMA PageGoesOn ==
  ASSUME NetInv, PageInv, [Next]_vars
  PROVE  PageInv' /\ OneAtATime
<1>1. CASE UserStep
  BY <1>1, GesturesKeepPage DEF UserStep
<1>2. CASE HistoryArrives \/ ButtonArrives
  BY <1>2, ResponsesKeepPage DEF Untouched, OneAtATime
<1>3. CASE TablesArrive
  BY <1>3, SwapKeepsPage DEF OneAtATime
<1>4. CASE \/ RunStarts \/ RunCommits \/ RunStep \/ StatusStep \/ TablesAnswers \/ Poll
           \/ UNCHANGED vars
  <2>1. Untouched /\ UNCHANGED <<loaded, used, loading, dropped>> /\ Awaited(net) \subseteq Awaited(net')
    BY <1>4, QuietSteps DEF vars, Untouched, Awaited
  <2> QED
    BY <2>1 DEF Untouched, PageInv, NoPanelIsStuck, OneAtATime
<1> QED
  BY <1>1, <1>2, <1>3, <1>4 DEF Next, TablesStep

\* The panels on the page are among those it would put back, in every state.
THEOREM PageInvariant == Spec => []PageInv
<1>1. NetInv /\ PageInv /\ [Next]_vars => PageInv'
  BY PageGoesOn
<1> QED
  BY PageStarts, NetInvariant, <1>1, PTL DEF Spec

\* Whatever reloads and answers come in between, an open panel has its history or a
\* request out for it unless htmx has dropped the request: none is ever forgotten.
THEOREM PanelsAreNeverStuck == Spec => []NoPanelIsStuck
<1>1. PageInv => NoPanelIsStuck
  BY DEF PageInv
<1> QED
  BY <1>1, PageInvariant, PTL

\* No reload of the tables collapses a panel the user has opened.
THEOREM SwapsKeepPanels == Spec => PanelsSurviveSwap
<1>1. PageInv /\ [Next]_vars => [TablesArrive => open \subseteq open']_vars
  BY SwapKeepsPage
<1> QED
  BY <1>1, PageInvariant, PTL DEF Spec, PanelsSurviveSwap

\* Products are hidden and shown one at a time: no step of this page undoes what
\* another page of the browser has hidden or shown meanwhile.
THEOREM HidesStay == Spec => HidesAreKept
<1>1. NetInv /\ PageInv /\ [Next]_vars => [OneAtATime]_vars
  BY PageGoesOn
<1> QED
  BY <1>1, PageInvariant, NetInvariant, PTL DEF Spec, HidesAreKept, OneAtATime
=============================================================================
