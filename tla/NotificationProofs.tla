------------------------- MODULE NotificationProofs -------------------------
(***************************************************************************)
(* What is sent: the announcements first, then the outcomes of the runs    *)
(* with their alerts, then that what the sources find is pushed.           *)
(*                                                                         *)
(* What is announced is stored, and is announced once, as long as the      *)
(* operator leaves the releases of the rows (one that he deletes is        *)
(* announced again when it is found again).  He may enter rows, correct    *)
(* their texts, fill in KB numbers and protect them, at any time.          *)
(*                                                                         *)
(* A notice is written down when its row is inserted and sent runs of      *)
(* statements later, in another transaction if at all.  So the invariant   *)
(* is that every notice, sent or not, has a row in the transaction's view, *)
(* and that what a SELECT found missing is in no notice.                   *)
(***************************************************************************)
EXTENDS HistoryProofs, FiniteSetTheorems

USE DEF dbVars, txnVars, sentVars, adminVars, NoRow

\* Of each notice there is a row, which may have got the KB number of its build since.
Held(t, notices)      == \A i \in DOMAIN notices : \E id \in DOMAIN t : SameRelease(notices[i], t[id])
Distinct(notices)     == \A i, j \in DOMAIN notices : notices[i] = notices[j] => i = j
Disjoint(notices, others) == \A i \in DOMAIN notices, j \in DOMAIN others : notices[i] # others[j]
Lacks(notices, k)     == \A i \in DOMAIN notices : notices[i] # k
ReleasesLast(t, u)    == \A id \in DOMAIN t : id \in DOMAIN u /\ SameRelease(t[id], u[id])

\* Between the commits of a run nothing is open.
Settled == pc \in {"idle", "fetch", "finish", "notify", "alert"} => work = Empty

NoticesHold == Held(View, run.notices) /\ Distinct(run.notices)
PushesHold ==
  /\ \A p \in DOMAIN pushes : Held(patches, pushes[p].notices) /\ Distinct(pushes[p].notices)
  /\ \A p, q \in DOMAIN pushes : p # q => Disjoint(pushes[p].notices, pushes[q].notices)
  /\ pc # "alert" => \A p \in DOMAIN pushes : Disjoint(pushes[p].notices, run.notices)

\* A build that has no row is news: also after the operator enters a row of it.
IsNews(k)   == Lacks(run.notices, k) /\ \A p \in DOMAIN pushes : Lacks(pushes[p].notices, k)
Unannounced == pc = "insertBuild" => IsNews(KeyOf(Current))

NoticeInv == HistoryInv /\ Settled /\ Unannounced /\ NoticesHold /\ PushesHold

-----------------------------------------------------------------------------
(* Rows that hold a key *)

LEMMA HeldLasts ==
  ASSUME NEW t, NEW u, NEW notices, Held(t, notices), ReleasesLast(t, u)
  PROVE  Held(u, notices)
<1> SUFFICES ASSUME NEW i \in DOMAIN notices
             PROVE  \E id \in DOMAIN u : SameRelease(notices[i], u[id])
  BY DEF Held
<1>1. PICK id \in DOMAIN t : SameRelease(notices[i], t[id])
  BY DEF Held
<1>2. SameRelease(notices[i], u[id])
  BY <1>1 DEF ReleasesLast, SameRelease
<1> QED
  BY <1>1, <1>2 DEF ReleasesLast

LEMMA RefreshedLasts ==
  ASSUME NEW t, NEW u,
         \A id \in DOMAIN t : t[id] \in Row /\ id \in DOMAIN u /\ History!Refreshed(t[id], u[id])
  PROVE  ReleasesLast(t, u)
BY DEF ReleasesLast, SameRelease, History!Refreshed, Row

LEMMA ViewLasts ==
  ASSUME HistoryInv
  PROVE  /\ ReleasesLast(patches, View)
         /\ ViewGrows => ReleasesLast(View, View')
<1>1. ReleasesLast(patches, View)
  BY InvTyped, ViewRefreshes, TableRow, RefreshedLasts
<1>2. ASSUME ViewGrows
      PROVE  ReleasesLast(View, View')
  BY <1>2, InvTyped, RefreshedLasts DEF ViewGrows
<1> QED
  BY <1>1, <1>2

\* Whatever is sent or waits to be sent has a row in what the transaction sees.
LEMMA AllHeld ==
  ASSUME NoticeInv
  PROVE  /\ Held(View, run.notices)
         /\ \A p \in DOMAIN pushes : Held(View, pushes[p].notices)
BY ViewLasts, HeldLasts DEF NoticeInv, NoticesHold, PushesHold

\* So a release without a row is news.
LEMMA NotAnnounced ==
  ASSUME NoticeInv, NEW k, \A id \in DOMAIN View : ~SameRelease(k, View[id])
  PROVE  IsNews(k)
<1>1. \A notices : Held(View, notices) => Lacks(notices, k)
  BY DEF Held, Lacks
<1> QED
  BY <1>1, AllHeld DEF IsNews

\* The committed table only grows, but for what the operator may do to it.
LEMMA TableGrows ==
  ASSUME [Considerate]_vars, [KeepsReleases]_vars, HistoryInv, [Next]_vars
  PROVE  ReleasesLast(patches, patches')
<1>1. CASE AdminStep /\ ~UNCHANGED vars
  BY <1>1 DEF KeepsReleases, LeavesRelease, ReleasesLast
<1>2. CASE RefreshStep \/ Crash \/ UNCHANGED vars
  BY <1>2, InvTyped, TableRow, RefreshedLasts, RefreshExtends
<1> QED
  BY <1>1, <1>2 DEF Next

-----------------------------------------------------------------------------
(* The steps *)

\* A refresh is in a deadlock only where it has a statement to execute.
LEMMA DeadlockIsMidway ==
  ASSUME DeadlockAborts
  PROVE  /\ pc \in Upserting \cup {"hints"} /\ pc' = "aborted" /\ run' = run
         /\ UNCHANGED <<patches, work, corrections, runs, sources, pushes, alerts>>
<1>1. PICK e \in edits : e.id \in NextRows
  BY DEF DeadlockAborts, Deadlocked
<1>2. pc \in {"refreshBuild", "insertBuild", "refreshKey", "upsert", "hints"}
  BY <1>1 DEF NextRows, AtItem
<1> QED
  BY <1>2 DEF DeadlockAborts, Upserting

LEMMA SettledStays ==
  ASSUME Settled, [Next]_vars
  PROVE  Settled'
<1>1. CASE Upserts
  <2>1. pc' \in Upserting \cup {"aborted"}
    BY <1>1 DEF Upserts, AtItem, SkipUnknownProduct, SelectByBuild, InsertByBuild, Insert,
       RefreshByBuild, InsertOnConflict, RefreshByKey, Upserting
  <2> QED
    BY <2>1 DEF Settled, Upserting
<1>2. CASE \/ StartRun \/ FetchRaises \/ FetchReturns \/ CommitSource \/ SelectHintRows \/ ApplyHint
           \/ CommitHints \/ FinishRun \/ NotifyNewPatches \/ NotifyFetchErrors \/ DeadlockAborts \/ Unwind \/ Crash
  BY <1>2 DEF Settled, SourcesDone, StartRun, FetchRaises, FetchReturns, CommitSource, SelectHintRows,
     ApplyHint, CommitHints, FinishRun, NotifyNewPatches, NotifyFetchErrors, DeadlockAborts, Unwind, Crash
<1>3. CASE UNCHANGED vars
  BY <1>3 DEF Settled, vars
<1>4. CASE AdminStep
  BY <1>4, OperatorWrites DEF Settled
<1> QED
  BY <1>1, <1>2, <1>3, <1>4 DEF Next, RefreshStep, Upserts

\* A row is inserted and its notice written down.
Announces == /\ run'.notices = Append(run.notices, KeyOf(Current))
             /\ KeyOf(Current) \in Key /\ run.notices \in Seq(Key)
             /\ IsNews(KeyOf(Current))
             /\ \E id \in DOMAIN View' : SameRelease(KeyOf(Current), View'[id])
             /\ ReleasesLast(View, View') /\ pc # "alert" /\ pushes' = pushes
\* The notices stay, and so do their rows.
KeepsNotices == /\ run'.notices = run.notices /\ ReleasesLast(View, View')
                /\ pushes' = pushes /\ (pc = "alert" => pc' = "alert")
\* The run is over.
ForgetsNotices == run'.notices = <<>> /\ pushes' = pushes

LEMMA InsertAnnounces ==
  ASSUME NoticeInv, RefreshStep, AtItem \/ pc = "insertBuild",
         pc = "insertBuild" \/ ~BuildOnly(Current), WithKey(View, KeyOf(Current)) = {},
         NEW t, t = run \/ t = Touch(run), Insert(t), UNCHANGED <<patches, corrections, pushes>>
  PROVE  Announces
<1>1. Current \in Item /\ run \in Locals /\ run.notices \in Seq(Key) /\ KeyOf(Current) \in Key
  BY AtItemFacts, ItemTyped DEF NoticeInv, HistoryInv
<1>2. t \in Locals /\ t.notices = run.notices
  BY <1>1, TouchTyped
<1>3. run'.notices = Append(run.notices, KeyOf(Current))
  <2>1. run' = Advance(Announce(t))
    BY DEF Insert
  <2>2. Announce(t) \in Locals /\ Announce(t).notices = Append(t.notices, KeyOf(Current))
    BY <1>1, <1>2, AnnounceTyped, StepsKeepSource
  <2>3. Advance(Announce(t)).notices = Announce(t).notices
    BY <2>2, StepsKeepSource
  <2> QED
    BY <1>2, <2>1, <2>2, <2>3
<1>4. ReleasesLast(View, View') /\ nextId \notin DOMAIN View /\ View' = Put(View, nextId, Scraped(Current))
  BY InsertWrites, ViewLasts DEF Insert, NoticeInv
<1>5. \E id \in DOMAIN View' : SameRelease(KeyOf(Current), View'[id])
  <2>1. nextId \in DOMAIN View' /\ View'[nextId] = Scraped(Current)
    BY <1>4 DEF Put
  <2> QED
    BY <2>1 DEF SameRelease, Scraped, KeyOf
<1>6. IsNews(KeyOf(Current))
  <2>1. CASE pc = "insertBuild"
    BY <2>1 DEF NoticeInv, Unannounced
  <2>2. CASE ~BuildOnly(Current)
    <3>1. \A id \in DOMAIN View : SameRelease(KeyOf(Current), View[id]) => KeyOf(View[id]) = KeyOf(Current)
      BY <2>2 DEF SameRelease, KeyOf, BuildOnly
    <3>2. \A id \in DOMAIN View : ~SameRelease(KeyOf(Current), View[id])
      BY <3>1 DEF WithKey
    <3> QED
      BY <3>2, NotAnnounced
  <2> QED
    BY <2>1, <2>2
<1>7. pc # "alert"
  BY DEF AtItem
<1> QED
  BY <1>1, <1>3, <1>4, <1>5, <1>6, <1>7 DEF Announces

LEMMA NoticeSteps ==
  ASSUME [KeepsReleases]_vars, NoticeInv, [Next]_vars
  PROVE  Announces \/ KeepsNotices \/ ForgetsNotices \/ NotifyNewPatches
<1>1. HistoryInv /\ TypeOK /\ run \in Locals
  BY InvTyped DEF NoticeInv, TypeOK
<1>2. ASSUME RefreshStep, ~Unwind
      PROVE  ReleasesLast(View, View')
  BY <1>1, <1>2, RefreshRows, ViewLasts
<1>3. CASE InsertByBuild
  <2>1. CASE WithKey(View, KeyOf(Current)) = {}
    BY <1>3, <2>1, InsertAnnounces DEF InsertByBuild, RefreshStep
  <2>2. CASE WithKey(View, KeyOf(Current)) # {}
    <3>1. run' = run /\ pushes' = pushes /\ pc # "alert" /\ ReleasesLast(View, View')
      BY <1>1, <1>3, <2>2, NothingWritten, ViewLasts DEF InsertByBuild
    <3> QED
      BY <3>1 DEF KeepsNotices
  <2> QED
    BY <2>1, <2>2
<1>4. CASE InsertOnConflict
  <2>1. CASE WithKey(View, KeyOf(Current)) = {}
    BY <1>4, <2>1, InsertAnnounces DEF InsertOnConflict, RefreshStep
  <2>2. CASE WithKey(View, KeyOf(Current)) # {}
    <3>1. run' = Touch(run) /\ pushes' = pushes /\ pc # "alert" /\ ReleasesLast(View, View')
      BY <1>1, <1>4, <2>2, NothingWritten, ViewLasts DEF InsertOnConflict, AtItem
    <3>2. Touch(run).notices = run.notices
      BY <1>1, <1>4, AtItemFacts, TouchTyped DEF InsertOnConflict, HistoryInv
    <3> QED
      BY <3>1, <3>2 DEF KeepsNotices
  <2> QED
    BY <2>1, <2>2
<1>5. CASE SkipUnknownProduct \/ RefreshByBuild \/ RefreshByKey
  <2>1. run' = Advance(run) /\ pushes' = pushes /\ pc # "alert"
    BY <1>5 DEF SkipUnknownProduct, RefreshByBuild, RefreshByKey, AtItem
  <2>2. ~Unwind /\ RefreshStep
    BY <1>5 DEF Unwind, RefreshStep, SkipUnknownProduct, RefreshByBuild, RefreshByKey, AtItem
  <2> QED
    BY <1>1, <1>2, <2>1, <2>2, StepsKeepSource DEF KeepsNotices
<1>6. CASE SelectByBuild
  <2>1. run'.notices = run.notices
    <3>1. \/ run' = Touch(run) \/ run' = run
          \/ \E id \in WithBuild(View, Current.product, Current.build) :
               run' = [Touch(run) EXCEPT !.found = id]
      BY ONLY <1>6, Zenon DEF SelectByBuild
    <3>2. \A id : [Touch(run) EXCEPT !.found = id].notices = Touch(run).notices
      BY <1>1 DEF Touch, Locals
    <3>3. Touch(run).notices = run.notices
      BY <1>1, <1>6, AtItemFacts, TouchTyped DEF SelectByBuild, HistoryInv
    <3> QED
      BY ONLY <3>1, <3>2, <3>3, Zenon
  <2>2. pushes' = pushes /\ pc # "alert" /\ ReleasesLast(View, View')
    BY <1>1, <1>6, NothingWritten, ViewLasts DEF SelectByBuild, AtItem
  <2> QED
    BY <2>1, <2>2 DEF KeepsNotices
<1>7. CASE FetchRaises \/ FetchReturns \/ CommitSource \/ SelectHintRows \/ FinishRun
  <2>1. pushes' = pushes /\ pc # "alert" /\ ~Unwind /\ RefreshStep
    BY <1>7 DEF FetchRaises, FetchReturns, CommitSource, SelectHintRows, FinishRun, SourcesDone,
       Unwind, RefreshStep
  <2>2. run'.notices = run.notices
    <3>1. CASE FetchRaises
      BY ONLY <1>1, <3>1 DEF FetchRaises, Locals
    <3>2. CASE FetchReturns
      BY ONLY <1>1, <3>2 DEF FetchReturns, Locals
    <3>3. CASE CommitSource
      BY ONLY <1>1, <3>3 DEF CommitSource, Locals
    <3>4. CASE SelectHintRows
      BY ONLY <1>1, <3>4 DEF SelectHintRows, Locals
    <3>5. CASE FinishRun
      BY ONLY <1>1, <3>5 DEF FinishRun, Locals
    <3> QED
      BY <1>7, <3>1, <3>2, <3>3, <3>4, <3>5
  <2> QED
    BY <1>2, <2>1, <2>2 DEF KeepsNotices
<1>8. CASE ApplyHint
  <2>1. run'.notices = run.notices
    <3>1. \/ run' = run
          \/ \E h \in run.hintRows : run' = [run EXCEPT !.hintRows = @ \ {h}]
      BY <1>8 DEF ApplyHint, Hinted
    <3> QED
      BY ONLY <1>1, <3>1 DEF Locals
  <2>2. pushes' = pushes /\ pc # "alert" /\ ~Unwind /\ RefreshStep
    BY <1>8 DEF ApplyHint, Hinted, Unwind, RefreshStep
  <2> QED
    BY <1>2, <2>1, <2>2 DEF KeepsNotices
<1>9. CASE CommitHints
  <2>1. run' = run /\ pushes' = pushes /\ pc # "alert" /\ ~Unwind /\ RefreshStep
    BY <1>9 DEF CommitHints, Unwind, RefreshStep
  <2> QED
    BY <1>2, <2>1 DEF KeepsNotices
<1>10. CASE StartRun \/ NotifyFetchErrors \/ Unwind \/ Crash
  BY <1>10 DEF ForgetsNotices, IdleRun, StartRun, NotifyFetchErrors, Unwind, Crash
<1>11. CASE UNCHANGED vars
  <2>1. ReleasesLast(View, View')
    BY <1>1, <1>11, NothingWritten, ViewLasts DEF vars
  <2> QED
    BY <1>11, <2>1 DEF KeepsNotices, vars
<1>12. CASE AdminStep /\ ~UNCHANGED vars
  <2>1. ReleasesLast(patches, patches')
    BY <1>12 DEF KeepsReleases, LeavesRelease, ReleasesLast
  <2>2. UNCHANGED <<run, pc, work, pushes>>
    BY <1>12, OperatorWrites
  <2>3. ReleasesLast(View, View')
    BY <2>1, <2>2 DEF View, Overlay, ReleasesLast, SameRelease
  <2> QED
    BY <2>2, <2>3 DEF KeepsNotices
<1>13. CASE DeadlockAborts
  <2>1. run' = run /\ pushes' = pushes /\ pc # "alert" /\ UNCHANGED <<patches, work, corrections>>
    BY <1>13, DeadlockIsMidway DEF Upserting
  <2>2. ReleasesLast(View, View')
    BY <1>1, <2>1, NothingWritten, ViewLasts
  <2> QED
    BY <2>1, <2>2 DEF KeepsNotices
<1> QED
  BY <1>1, <1>3, <1>4, <1>5, <1>6, <1>7, <1>8, <1>9, <1>10, <1>11, <1>12, <1>13 DEF Next, RefreshStep

\* The SELECT of the build-only branch, which finds no row of the build.
LEMMA MissingIsNews ==
  ASSUME NoticeInv, SelectByBuild, pc' = "insertBuild"
  PROVE  Unannounced'
<1>1. run \in Locals /\ BuildOnly(Current) /\ pushes' = pushes
  BY InvTyped DEF NoticeInv, TypeOK, SelectByBuild
<1>2. WithBuild(View, Current.product, Current.build) = {} /\ run' = Touch(run)
  BY ONLY SelectByBuild, pc' = "insertBuild", Zenon DEF SelectByBuild
<1>3. \A id \in DOMAIN View : ~SameRelease(KeyOf(Current), View[id])
  BY <1>2 DEF WithBuild, SameRelease, KeyOf
<1>4. IsNews(KeyOf(Current))
  BY <1>3, NotAnnounced
<1>5. run'.res = run.res /\ run'.at = run.at /\ run'.notices = run.notices
  <2>1. Touch(run).notices = run.notices
    BY <1>1 DEF Touch, Locals
  <2> QED
    BY <1>1, <1>2, <2>1, StepsKeepPlace
<1>6. Current' = Current
  BY <1>5 DEF Current
<1> QED
  BY <1>1, <1>4, <1>5, <1>6 DEF Unannounced, IsNews

LEMMA UnannouncedStays ==
  ASSUME NoticeInv, [Next]_vars
  PROVE  Unannounced'
<1>1. CASE SelectByBuild
  BY <1>1, MissingIsNews DEF Unannounced
<1>2. CASE AdminStep \/ UNCHANGED vars
  <2>1. UNCHANGED <<run, pc, pushes>> /\ Current' = Current
    BY <1>2, OperatorWrites DEF vars, Current
  <2> QED
    BY <2>1 DEF NoticeInv, Unannounced, IsNews
<1>3. CASE \/ StartRun \/ FetchRaises \/ FetchReturns \/ CommitSource \/ SkipUnknownProduct
           \/ InsertByBuild \/ RefreshByBuild \/ InsertOnConflict \/ RefreshByKey
           \/ SelectHintRows \/ ApplyHint \/ CommitHints
           \/ FinishRun \/ NotifyNewPatches \/ NotifyFetchErrors \/ DeadlockAborts \/ Unwind \/ Crash
  <2>1. pc' # "insertBuild"
    BY <1>3 DEF AtItem, SourcesDone, StartRun, FetchRaises, FetchReturns, CommitSource,
       SkipUnknownProduct, InsertByBuild, Insert, RefreshByBuild, InsertOnConflict, RefreshByKey,
       SelectHintRows, ApplyHint, CommitHints, FinishRun, NotifyNewPatches, NotifyFetchErrors,
       DeadlockAborts, Unwind, Crash
  <2> QED
    BY <2>1 DEF Unannounced
<1> QED
  BY <1>1, <1>2, <1>3 DEF Next, RefreshStep

-----------------------------------------------------------------------------
(* The notices, and what was pushed *)

LEMMA NoticesKept ==
  ASSUME NoticeInv, Announces \/ KeepsNotices
  PROVE  Held(View', run.notices) /\ NoticesHold'
<1>1. Held(View', run.notices)
  BY AllHeld, HeldLasts DEF Announces, KeepsNotices
<1>2. CASE Announces
  <2> DEFINE n == run.notices
             k == KeyOf(Current)
  <2>1. \A i \in DOMAIN n : n[i] # k
    BY <1>2 DEF Announces, IsNews, Lacks
  <2>2. n \in Seq(Key) /\ k \in Key /\ run'.notices = Append(n, k) /\ Distinct(n)
    BY <1>2 DEF Announces, NoticeInv, NoticesHold
  <2>3. Held(View', n) /\ \E id \in DOMAIN View' : SameRelease(k, View'[id])
    BY <1>1, <1>2 DEF Announces
  <2> HIDE DEF n, k
  <2>4. /\ DOMAIN Append(n, k) = DOMAIN n \cup {Len(n) + 1} /\ Len(n) + 1 \notin DOMAIN n
        /\ Append(n, k)[Len(n) + 1] = k /\ \A i \in DOMAIN n : Append(n, k)[i] = n[i]
    BY <2>2
  <2>5. Held(View', Append(n, k))
    BY <2>3, <2>4 DEF Held
  <2>6. Distinct(Append(n, k))
    BY <2>1, <2>2, <2>4 DEF Distinct
  <2>7. Held(View', n)
    BY <2>3
  <2> QED
    BY <2>2, <2>5, <2>6, <2>7 DEF NoticesHold, n
<1>3. CASE KeepsNotices
  BY <1>1, <1>3 DEF KeepsNotices, NoticeInv, NoticesHold
<1> QED
  BY <1>2, <1>3

LEMMA PushesKept ==
  ASSUME [Considerate]_vars, [KeepsReleases]_vars, NoticeInv, [Next]_vars
  PROVE  \A p \in DOMAIN pushes : Held(patches', pushes[p].notices)
<1> SUFFICES ASSUME NEW p \in DOMAIN pushes
             PROVE  Held(patches', pushes[p].notices)
  OBVIOUS
<1>1. Held(patches, pushes[p].notices)
  BY DEF NoticeInv, PushesHold
<1> QED
  BY <1>1, TableGrows, HeldLasts DEF NoticeInv

LEMMA PushesStay ==
  ASSUME [Considerate]_vars, [KeepsReleases]_vars, NoticeInv, [Next]_vars
  PROVE  NoticesHold' /\ PushesHold'
<1>1. \A p \in DOMAIN pushes : Held(patches', pushes[p].notices)
  BY PushesKept
<1>2. CASE Announces
  <2>1. NoticesHold'
    BY <1>2, NoticesKept
  <2>2. pushes' = pushes /\ pc # "alert" /\ run'.notices = Append(run.notices, KeyOf(Current))
        /\ run.notices \in Seq(Key) /\ KeyOf(Current) \in Key
    BY <1>2 DEF Announces
  <2>3. ASSUME NEW p \in DOMAIN pushes
        PROVE  Disjoint(pushes[p].notices, run'.notices)
    <3>2. \A i \in DOMAIN pushes[p].notices : pushes[p].notices[i] # KeyOf(Current)
      BY <1>2 DEF Announces, IsNews, Lacks
    <3>3. Disjoint(pushes[p].notices, run.notices)
      BY <2>2 DEF NoticeInv, PushesHold
    <3> DEFINE m == pushes[p].notices
               n == run.notices
               k == KeyOf(Current)
    <3>4. n \in Seq(Key) /\ k \in Key /\ Disjoint(m, n) /\ (\A i \in DOMAIN m : m[i] # k)
      BY <2>2, <3>2, <3>3
    <3>5. run'.notices = Append(n, k)
      BY <2>2
    <3> HIDE DEF m, n, k
    <3>6. \A j \in DOMAIN Append(n, k) : (j \in DOMAIN n /\ Append(n, k)[j] = n[j]) \/ Append(n, k)[j] = k
      BY <3>4
    <3>7. Disjoint(m, Append(n, k))
      BY <3>4, <3>6 DEF Disjoint
    <3> QED
      BY <3>5, <3>7 DEF m
  <2>4. PushesHold'
    BY <1>1, <2>2, <2>3 DEF NoticeInv, PushesHold
  <2> QED
    BY <2>1, <2>4
<1>3. CASE KeepsNotices
  <2>1. NoticesHold'
    BY <1>3, NoticesKept
  <2>2. PushesHold'
    BY <1>1, <1>3 DEF KeepsNotices, NoticeInv, PushesHold
  <2> QED
    BY <2>1, <2>2
<1>4. CASE ForgetsNotices
  <2>1. NoticesHold'
    BY <1>4 DEF ForgetsNotices, NoticesHold, Held, Distinct
  <2>2. PushesHold'
    BY <1>1, <1>4 DEF ForgetsNotices, NoticeInv, PushesHold, Disjoint
  <2> QED
    BY <2>1, <2>2
<1>5. CASE NotifyNewPatches
  <2>1. pc = "notify" /\ pc' = "alert" /\ run' = run /\ patches' = patches /\ View' = View
        /\ work = Empty /\ IsTable(patches)
    BY <1>5, InvTyped DEF NotifyNewPatches, View, NoticeInv, Settled
  <2>2. NoticesHold'
    BY <2>1 DEF NoticeInv, NoticesHold
  <2>3. View = patches
    BY <2>1, OverlayEmpty DEF View
  <2>4. CASE pushes' = pushes
    <3>1. pc' = "alert" /\ patches' = patches
      BY <2>1
    <3>2. /\ \A p \in DOMAIN pushes : Held(patches, pushes[p].notices) /\ Distinct(pushes[p].notices)
          /\ \A p, q \in DOMAIN pushes : p # q => Disjoint(pushes[p].notices, pushes[q].notices)
      BY DEF NoticeInv, PushesHold
    <3>3. PushesHold'
      BY ONLY <2>4, <3>1, <3>2, Zenon DEF PushesHold
    <3> QED
      BY <2>2, <3>3
  <2>5. CASE pushes' = Append(pushes, [run |-> Len(runs), notices |-> run.notices])
    <3> DEFINE new == [run |-> Len(runs), notices |-> run.notices]
    <3>1. pushes \in Seq([run : Nat, notices : Seq(Key)])
      BY InvTyped DEF TypeOK, NoticeInv
    <3>2. new.notices = run.notices /\ pushes' = Append(pushes, new)
      BY <2>5
    <3> HIDE DEF new
    <3>3. /\ DOMAIN pushes' = DOMAIN pushes \cup {Len(pushes) + 1} /\ Len(pushes) + 1 \notin DOMAIN pushes
          /\ pushes'[Len(pushes) + 1] = new /\ \A p \in DOMAIN pushes : pushes'[p] = pushes[p]
      BY <3>1, <3>2
    <3>4. Held(patches, run.notices) /\ Distinct(run.notices)
      BY <2>3 DEF NoticeInv, NoticesHold
    <3>5. \A p \in DOMAIN pushes : /\ Disjoint(pushes[p].notices, run.notices)
                                   /\ Disjoint(run.notices, pushes[p].notices)
      BY <2>1 DEF NoticeInv, PushesHold, Disjoint
    <3>6. \A p \in DOMAIN pushes' : Held(patches', pushes'[p].notices) /\ Distinct(pushes'[p].notices)
      BY <2>1, <3>2, <3>3, <3>4 DEF NoticeInv, PushesHold
    <3>7. \A p, q \in DOMAIN pushes' : p # q => Disjoint(pushes'[p].notices, pushes'[q].notices)
      BY <3>2, <3>3, <3>5 DEF NoticeInv, PushesHold
    <3> QED
      BY <2>1, <2>2, <3>6, <3>7 DEF PushesHold
  <2> QED
    BY <1>5, <2>2, <2>4, <2>5 DEF NotifyNewPatches
<1> QED
  BY <1>2, <1>3, <1>4, <1>5, NoticeSteps

LEMMA NoticesStart == Init => NoticeInv
<1> SUFFICES ASSUME Init
             PROVE  NoticeInv
  OBVIOUS
<1>1. Settled /\ Unannounced
  BY DEF Init, Settled, Unannounced
<1>2. NoticesHold /\ PushesHold
  BY DEF Init, IdleRun, NoticesHold, PushesHold, Held, Distinct, Disjoint
<1> QED
  BY <1>1, <1>2, HistoryStarts DEF NoticeInv

LEMMA NoticesGoOn ==
  NoticeInv /\ [Next]_vars /\ [Considerate]_vars /\ [KeepsReleases]_vars => NoticeInv'
<1> SUFFICES ASSUME NoticeInv, [Next]_vars, [Considerate]_vars, [KeepsReleases]_vars
             PROVE  NoticeInv'
  OBVIOUS
<1>1. HistoryInv'
  BY HistoryGoesOn DEF NoticeInv
<1> QED
  BY <1>1, PushesStay, SettledStays, UnannouncedStays DEF NoticeInv

\* Every notice, sent or not, has its row, and every row its notice at most once, in
\* every reachable state.
THEOREM NoticeInvariant == Spec /\ HintsUndisturbed /\ ReleasesUndisturbed => []NoticeInv
<1>1. NoticeInv /\ [Next]_vars /\ [Considerate]_vars /\ [KeepsReleases]_vars => NoticeInv'
  BY NoticesGoOn
<1> QED
  BY <1>1, NoticesStart, PTL DEF Spec, HintsUndisturbed, ReleasesUndisturbed

\* What a notification announces is in the table for good, wherever a run is killed or
\* aborted, with an operator who leaves the releases of the rows (notify_new_patches is
\* called after the last commit).
THEOREM PushesAreDurable == Spec /\ HintsUndisturbed /\ ReleasesUndisturbed => []PushedIsStored
<1>1. NoticeInv => PushedIsStored
  BY DEF NoticeInv, PushesHold, PushedIsStored, Held, SameRelease, Realises
<1> QED
  BY <1>1, NoticeInvariant, PTL

\* No release is announced twice, in one notification or in two, whatever the sources
\* report again, whoever fills in its KB number, whatever the operator enters while it
\* is inserted, and wherever a run is killed (new_notices in run_all_fetchers).
THEOREM ReleasesAreAnnouncedOnce == Spec /\ HintsUndisturbed /\ ReleasesUndisturbed => []AnnouncedOnce
<1>1. NoticeInv => AnnouncedOnce
  BY DEF NoticeInv, PushesHold, AnnouncedOnce, Distinct, Disjoint
<1> QED
  BY <1>1, NoticeInvariant, PTL

-----------------------------------------------------------------------------
(***************************************************************************)
(* The outcome of a run and what is sent about it agree, for any operator  *)
(* and any failures, unless the process is killed between the commit of    *)
(* the outcome and the notifications: that loses them.                     *)
(*                                                                         *)
(* Both properties look at all runs, finished, aborted and killed, when    *)
(* none is in progress.  The invariant adds what is known of the last one  *)
(* at each point of it.                                                    *)
(***************************************************************************)

NotKilledAtTheEnd == CrashAt \cap {"notify", "alert"} = {}

Alerted(r)  == \E a \in DOMAIN alerts : alerts[a] = r
ToAlert(r)  == runs[r].errors # <<>> /\ (r = 1 \/ runs[r].errors # runs[r - 1].errors)
PushesOf(r) == {p \in DOMAIN pushes : pushes[p].run = r}
ToPush(r)   == r > 1 /\ runs[r].new > 0

\* A run that is over.
AlertIsRight(r) == Alerted(r) <=> ToAlert(r)
PushIsRight(r)  == runs[r].status # "running" =>
                     Cardinality(PushesOf(r)) = IF ToPush(r) THEN 1 ELSE 0

Finishing == {"notify", "alert"}
LastRun   == Len(runs)

\* The runs before the last, and the last once it is over.
PastRuns == \A r \in DOMAIN runs : (r # LastRun \/ pc = "idle") => AlertIsRight(r) /\ PushIsRight(r)
\* Nothing is sent about a run that has not started.
NothingAhead == /\ \A a \in DOMAIN alerts : alerts[a] \in DOMAIN runs
                /\ \A p \in DOMAIN pushes : pushes[p].run \in DOMAIN runs
\* The run in progress.
RunInProgress ==
  pc # "idle" =>
    /\ LastRun \in DOMAIN runs /\ (run.first <=> LastRun = 1)
    /\ ~Alerted(LastRun)
    /\ pc # "alert" => PushesOf(LastRun) = {}
    /\ pc \notin Finishing => runs[LastRun].status = "running" /\ runs[LastRun].errors = <<>>
    /\ pc \in Finishing => run.alert <=> ToAlert(LastRun)
    /\ pc = "notify" => runs[LastRun].new = Len(run.notices)
    /\ pc = "alert" => PushIsRight(LastRun)

OutcomeInv == PastRuns /\ NothingAhead /\ RunInProgress

-----------------------------------------------------------------------------
LEMMA RunsTyped ==
  ASSUME TypeOK
  PROVE  /\ runs \in Seq(RunRow) /\ LastRun \in Nat /\ DOMAIN runs = 1 .. LastRun
         /\ run \in Locals /\ run.notices \in Seq(Key) /\ run.errors \in Seq(Errors)
         /\ pushes \in Seq([run : Nat, notices : Seq(Key)]) /\ alerts \in Seq(Nat)
BY DEF TypeOK, LastRun, Locals

LEMMA OutcomesStart == Init => OutcomeInv
BY DEF Init, OutcomeInv, PastRuns, NothingAhead, RunInProgress

\* run.first is written by StartRun only.
LEMMA FirstStays ==
  ASSUME TypeOK, RefreshStep, pc # "idle", pc' # "idle"
  PROVE  run'.first = run.first
<1>1. run \in Locals
  BY RunsTyped
<1>2. /\ Touch(run).first = run.first /\ Advance(run).first = run.first
      /\ Advance(Announce(run)).first = run.first
      /\ Advance(Announce(Touch(run))).first = run.first
      /\ \A id : [Touch(run) EXCEPT !.found = id].first = run.first
  BY <1>1 DEF Touch, Advance, Announce, Locals
<1>3. CASE FetchRaises
  BY ONLY <1>1, <1>3 DEF FetchRaises, Locals
<1>4. CASE FetchReturns
  BY ONLY <1>1, <1>4 DEF FetchReturns, Locals
<1>5. CASE CommitSource
  BY ONLY <1>1, <1>5 DEF CommitSource, Locals
<1>6. CASE \/ SkipUnknownProduct \/ SelectByBuild \/ InsertByBuild
           \/ RefreshByBuild \/ InsertOnConflict \/ RefreshByKey
  <2>1. \/ run' = run \/ run' = Touch(run) \/ run' = Advance(run)
        \/ run' = Advance(Announce(run)) \/ run' = Advance(Announce(Touch(run)))
        \/ \E id : run' = [Touch(run) EXCEPT !.found = id]
    <3>1. CASE SelectByBuild
      BY ONLY <3>1, Zenon DEF SelectByBuild
    <3>2. CASE SkipUnknownProduct \/ RefreshByBuild \/ RefreshByKey
      BY ONLY <3>2, Zenon DEF SkipUnknownProduct, RefreshByBuild, RefreshByKey
    <3>3. CASE InsertByBuild
      BY ONLY <3>3, Zenon DEF InsertByBuild, Insert
    <3>4. CASE InsertOnConflict
      BY ONLY <3>4, Zenon DEF InsertOnConflict, Insert
    <3> QED
      BY <1>6, <3>1, <3>2, <3>3, <3>4
  <2> QED
    BY ONLY <1>2, <2>1, Zenon
<1>7. CASE SelectHintRows
  BY ONLY <1>1, <1>7 DEF SelectHintRows, Locals
<1>8. CASE ApplyHint
  <2>1. run' = run \/ \E h \in run.hintRows : run' = [run EXCEPT !.hintRows = @ \ {h}]
    BY <1>8 DEF ApplyHint, Hinted
  <2> QED
    BY ONLY <1>1, <2>1 DEF Locals
<1>9. CASE FinishRun
  BY ONLY <1>1, <1>9 DEF FinishRun, Locals
<1>10. CASE CommitHints \/ NotifyNewPatches \/ DeadlockAborts
  BY <1>10 DEF CommitHints, NotifyNewPatches, DeadlockAborts
<1>11. CASE StartRun \/ NotifyFetchErrors \/ Unwind
  BY <1>11 DEF StartRun, NotifyFetchErrors, Unwind
<1> QED
  BY <1>3, <1>4, <1>5, <1>6, <1>7, <1>8, <1>9, <1>10, <1>11 DEF RefreshStep

\* A step in the middle of a run.
Midway == /\ pc \notin {"idle", "notify", "alert"} /\ pc' \notin {"idle", "notify", "alert"}
          /\ run'.first = run.first /\ UNCHANGED <<runs, pushes, alerts>>

LEMMA MidwaySteps ==
  ASSUME TypeOK,
         \/ FetchRaises \/ FetchReturns \/ CommitSource
         \/ SkipUnknownProduct \/ SelectByBuild \/ InsertByBuild \/ RefreshByBuild
         \/ InsertOnConflict \/ RefreshByKey
         \/ SelectHintRows \/ ApplyHint \/ CommitHints \/ DeadlockAborts
  PROVE  Midway
<1>1. /\ pc \notin {"idle", "notify", "alert"} /\ pc' \notin {"idle", "notify", "alert"}
      /\ UNCHANGED <<runs, pushes, alerts>>
  BY DeadlockIsMidway DEF Upserting, AtItem, SourcesDone, FetchRaises, FetchReturns, CommitSource, SkipUnknownProduct,
     SelectByBuild, InsertByBuild, Insert, RefreshByBuild, InsertOnConflict, RefreshByKey,
     SelectHintRows, ApplyHint, CommitHints
<1> QED
  BY <1>1, FirstStays DEF Midway, RefreshStep

\* Nothing is written that the outcomes are about.
LEMMA SameRecords ==
  ASSUME UNCHANGED <<runs, pushes, alerts>>
  PROVE  /\ LastRun' = LastRun /\ (NothingAhead => NothingAhead')
         /\ \A r : /\ Alerted(r)' = Alerted(r) /\ ToAlert(r)' = ToAlert(r)
                   /\ PushesOf(r)' = PushesOf(r) /\ AlertIsRight(r)' = AlertIsRight(r)
                   /\ PushIsRight(r)' = PushIsRight(r)
BY DEF LastRun, NothingAhead, Alerted, ToAlert, PushesOf, ToPush, AlertIsRight, PushIsRight

LEMMA MidwayKeeps ==
  ASSUME OutcomeInv, Midway
  PROVE  OutcomeInv'
<1>1. UNCHANGED <<runs, pushes, alerts>> /\ pc \notin {"idle", "notify", "alert"}
      /\ pc' \notin {"idle", "notify", "alert"} /\ run'.first = run.first
  BY DEF Midway
<1>2. PastRuns' /\ NothingAhead'
  BY <1>1, SameRecords DEF OutcomeInv, PastRuns
<1>3. RunInProgress'
  BY <1>1, SameRecords DEF OutcomeInv, RunInProgress, Finishing
<1> QED
  BY <1>2, <1>3 DEF OutcomeInv

LEMMA StartKeepsOutcomes ==
  ASSUME TypeOK, OutcomeInv, StartRun
  PROVE  OutcomeInv'
<1>0. PICK n : n = LastRun
  OBVIOUS
<1> DEFINE row == [status |-> "running", new |-> 0, errors |-> <<>>]
<1>1. /\ pc = "idle" /\ pc' = "fetch" /\ runs' = Append(runs, row) /\ pushes' = pushes
      /\ alerts' = alerts /\ (run'.first <=> runs = <<>>)
  BY DEF StartRun, IdleRun
<1>2. row.status = "running" /\ row.errors = <<>>
  OBVIOUS
<1>3. runs \in Seq(RunRow) /\ n \in Nat /\ DOMAIN runs = 1 .. n /\ n = Len(runs)
  BY <1>0, RunsTyped DEF LastRun
<1> HIDE DEF row
<1>4. /\ LastRun' = n + 1 /\ DOMAIN runs' = 1 .. n + 1 /\ runs'[n + 1] = row
      /\ \A r \in 1 .. n : runs'[r] = runs[r]
  BY <1>1, <1>3 DEF LastRun
<1>5. \A r \in 1 .. n : AlertIsRight(r)' /\ PushIsRight(r)'
  <2>1. \A r \in 1 .. n : AlertIsRight(r) /\ PushIsRight(r)
    BY <1>0, <1>1, <1>3 DEF OutcomeInv, PastRuns
  <2>2. \A r \in 1 .. n : r # 1 => r - 1 \in 1 .. n
    BY <1>3
  <2>3. ASSUME NEW r \in 1 .. n
        PROVE  AlertIsRight(r)'
    <3>1. runs'[r] = runs[r] /\ (r # 1 => runs'[r - 1] = runs[r - 1])
      BY <1>4, <2>2
    <3>2. ToAlert(r)' <=> ToAlert(r)
      BY ONLY <3>1, Zenon DEF ToAlert
    <3> QED
      BY <1>1, <2>1, <3>2 DEF AlertIsRight, Alerted
  <2>4. \A r \in 1 .. n : PushIsRight(r)'
    BY <1>1, <1>4, <2>1 DEF PushIsRight, PushesOf, ToPush
  <2> QED
    BY <2>3, <2>4
<1>6. PastRuns'
  BY <1>1, <1>3, <1>4, <1>5 DEF PastRuns
<1>7. NothingAhead' /\ ~Alerted(n + 1)' /\ PushesOf(n + 1)' = {}
  <2>1. n + 1 \notin 1 .. n /\ \A x \in 1 .. n : x \in 1 .. n + 1
    BY <1>3
  <2>2. /\ \A a \in DOMAIN alerts : alerts[a] \in 1 .. n
        /\ \A p \in DOMAIN pushes : pushes[p].run \in 1 .. n
    BY <1>3 DEF OutcomeInv, NothingAhead
  <2> QED
    BY <1>1, <1>4, <2>1, <2>2 DEF NothingAhead, Alerted, PushesOf
<1>8. run'.first <=> n + 1 = 1
  <2>1. runs = <<>> <=> n = 0
    BY <1>3, EmptySeq
  <2> QED
    BY <1>1, <1>3, <2>1
<1>9. RunInProgress'
  <2>1. n + 1 \in DOMAIN runs' /\ LastRun' = n + 1 /\ pc' = "fetch"
        /\ runs'[n + 1].status = "running" /\ runs'[n + 1].errors = <<>>
    BY <1>1, <1>2, <1>3, <1>4
  <2> QED
    BY <1>7, <1>8, <2>1 DEF RunInProgress, Finishing
<1> QED
  BY <1>6, <1>7, <1>9 DEF OutcomeInv

LEMMA FinishKeepsOutcomes ==
  ASSUME TypeOK, OutcomeInv, FinishRun
  PROVE  OutcomeInv'
<1>0. PICK n : n = LastRun
  OBVIOUS
<1> DEFINE row == [status |-> RunStatus, new |-> Len(run.notices), errors |-> run.errors]
           due == run.errors # <<>> /\ run.errors # PreviousErrors
<1>1. /\ pc \notin {"idle", "notify", "alert"} /\ pc' = "notify"
      /\ runs' = [runs EXCEPT ![n] = row] /\ pushes' = pushes /\ alerts' = alerts
      /\ run' = [run EXCEPT !.alert = due]
  BY <1>0 DEF FinishRun, SourcesDone, LastRun
<1>2. run'.alert = due /\ run'.first = run.first /\ run'.notices = run.notices
  <2>1. run \in Locals
    BY RunsTyped
  <2> HIDE DEF due
  <2> QED
    BY ONLY <1>1, <2>1 DEF Locals
<1>3. runs \in Seq(RunRow) /\ n \in Nat /\ DOMAIN runs = 1 .. n /\ n = Len(runs) /\ n \in 1 .. n
  BY <1>0, <1>1, RunsTyped DEF LastRun, OutcomeInv, RunInProgress
<1>4. row.errors = run.errors /\ row.new = Len(run.notices)
  OBVIOUS
<1> HIDE DEF row
<1>5. /\ LastRun' = n /\ DOMAIN runs' = 1 .. n /\ runs'[n] = row
      /\ \A r \in 1 .. n : r # n => runs'[r] = runs[r]
  BY <1>1, <1>3 DEF LastRun
<1>6. \A r \in 1 .. n : r # n => AlertIsRight(r)' /\ PushIsRight(r)'
  <2>1. \A r \in 1 .. n : r # n => AlertIsRight(r) /\ PushIsRight(r)
    BY <1>0, <1>1, <1>3 DEF OutcomeInv, PastRuns
  <2>2. \A r \in 1 .. n : r # 1 => r - 1 \in 1 .. n /\ r - 1 # n
    BY <1>3
  <2>3. \A r \in 1 .. n : r # n => AlertIsRight(r)'
    BY <1>1, <1>5, <2>1, <2>2 DEF AlertIsRight, Alerted, ToAlert
  <2>4. \A r \in 1 .. n : r # n => PushIsRight(r)'
    BY <1>1, <1>5, <2>1 DEF PushIsRight, PushesOf, ToPush
  <2> QED
    BY <2>3, <2>4
<1>7. PastRuns' /\ NothingAhead'
  BY <1>1, <1>3, <1>5, <1>6 DEF OutcomeInv, PastRuns, NothingAhead
<1>8. ~Alerted(n)' /\ PushesOf(n)' = {}
  BY <1>0, <1>1 DEF OutcomeInv, RunInProgress, Alerted, PushesOf
<1>9. due <=> ToAlert(n)'
  <2>1. runs'[n].errors = run.errors
    BY <1>4, <1>5
  <2>2. PreviousErrors = IF n = 1 THEN <<>> ELSE runs[n - 1].errors
    BY <1>3 DEF PreviousErrors
  <2>3. n # 1 => n - 1 \in 1 .. n /\ n - 1 # n
    <3>1. n \in Nat /\ n >= 1
      BY <1>3
    <3> QED
      BY ONLY <3>1
  <2>4. n # 1 => runs'[n - 1] = runs[n - 1]
    BY <1>5, <2>3
  <2>5. ToAlert(n)' <=> run.errors # <<>> /\ (n = 1 \/ run.errors # runs[n - 1].errors)
    BY ONLY <2>1, <2>4, Zenon DEF ToAlert
  <2>6. CASE n = 1
    BY <2>2, <2>5, <2>6
  <2>7. CASE n # 1
    BY <2>2, <2>5, <2>7
  <2> QED
    BY <2>6, <2>7
<1>10. run'.first <=> n = 1
  BY <1>0, <1>1, <1>2 DEF OutcomeInv, RunInProgress
<1> HIDE DEF due
<1>11. RunInProgress'
  BY <1>1, <1>2, <1>3, <1>4, <1>5, <1>8, <1>9, <1>10 DEF RunInProgress, Finishing
<1> QED
  BY <1>7, <1>11 DEF OutcomeInv

LEMMA PushKeepsOutcomes ==
  ASSUME TypeOK, OutcomeInv, NotifyNewPatches
  PROVE  OutcomeInv'
<1>0. PICK n : n = LastRun
  OBVIOUS
<1> DEFINE new == [run |-> n, notices |-> run.notices]
<1>1. /\ pc = "notify" /\ pc' = "alert" /\ run' = run /\ runs' = runs /\ alerts' = alerts
      /\ pushes' = IF ShouldPush THEN Append(pushes, new) ELSE pushes
  BY <1>0 DEF NotifyNewPatches, LastRun
<1>2. /\ n \in DOMAIN runs /\ n \in Nat /\ LastRun' = n /\ (run.first <=> n = 1) /\ ~Alerted(n)
      /\ PushesOf(n) = {} /\ (run.alert <=> ToAlert(n)) /\ runs[n].new = Len(run.notices)
      /\ run.notices \in Seq(Key)
  BY <1>0, <1>1, RunsTyped DEF OutcomeInv, RunInProgress, Finishing, LastRun
<1>3. ShouldPush <=> ToPush(n)
  <2>1. run.notices # <<>> <=> Len(run.notices) > 0
    BY <1>2, EmptySeq
  <2>2. n # 1 <=> n > 1
    <3>1. n \in 1 .. LastRun
      BY <1>2, RunsTyped
    <3> QED
      BY <1>2, <3>1
  <2> QED
    BY <1>2, <2>1, <2>2 DEF ShouldPush, ToPush
<1>4. /\ PushesOf(n)' = IF ShouldPush THEN {Len(pushes) + 1} ELSE {}
      /\ \A r \in DOMAIN runs : r # n => PushesOf(r)' = PushesOf(r)
      /\ \A p \in DOMAIN pushes' : pushes'[p].run \in DOMAIN runs
  <2>1. CASE ShouldPush
    <3>1. pushes \in Seq([run : Nat, notices : Seq(Key)]) /\ pushes' = Append(pushes, new) /\ new.run = n
      BY <1>1, <2>1, RunsTyped
    <3> HIDE DEF new
    <3>2. /\ DOMAIN pushes' = DOMAIN pushes \cup {Len(pushes) + 1} /\ Len(pushes) + 1 \notin DOMAIN pushes
          /\ pushes'[Len(pushes) + 1] = new /\ \A p \in DOMAIN pushes : pushes'[p] = pushes[p]
      BY <3>1
    <3>3. PushesOf(n)' = {Len(pushes) + 1}
      BY <1>2, <3>1, <3>2 DEF PushesOf
    <3>4. \A r \in DOMAIN runs : r # n => PushesOf(r)' = PushesOf(r)
      BY <3>1, <3>2 DEF PushesOf
    <3>5. \A p \in DOMAIN pushes' : pushes'[p].run \in DOMAIN runs
      BY <1>2, <3>1, <3>2 DEF OutcomeInv, NothingAhead
    <3> QED
      BY <2>1, <3>3, <3>4, <3>5
  <2>2. CASE ~ShouldPush
    BY <1>1, <1>2, <2>2 DEF PushesOf, OutcomeInv, NothingAhead
  <2> QED
    BY <2>1, <2>2
<1>5. PushIsRight(n)'
  <2>1. Cardinality(PushesOf(n)') = IF ToPush(n) THEN 1 ELSE 0
    BY <1>3, <1>4, FS_Singleton, FS_EmptySet
  <2>2. ToPush(n)' <=> ToPush(n)
    BY <1>1 DEF ToPush
  <2> QED
    BY <2>1, <2>2 DEF PushIsRight
<1>6. \A r \in DOMAIN runs : r # n => AlertIsRight(r)' /\ PushIsRight(r)'
  <2>1. \A r \in DOMAIN runs : r # n => AlertIsRight(r) /\ PushIsRight(r)
    BY <1>0 DEF OutcomeInv, PastRuns
  <2>2. \A r \in DOMAIN runs : r # n => AlertIsRight(r)'
    BY <1>1, <2>1 DEF AlertIsRight, Alerted, ToAlert
  <2>3. \A r \in DOMAIN runs : r # n => PushIsRight(r)'
    BY <1>1, <1>4, <2>1 DEF PushIsRight, ToPush
  <2> QED
    BY <2>2, <2>3
<1>7. PastRuns' /\ NothingAhead'
  BY <1>1, <1>2, <1>4, <1>6 DEF OutcomeInv, PastRuns, NothingAhead
<1>8. ~Alerted(n)' /\ (ToAlert(n)' <=> ToAlert(n))
  BY <1>1, <1>2 DEF Alerted, ToAlert
<1>9. RunInProgress'
  BY <1>1, <1>2, <1>5, <1>8 DEF RunInProgress, Finishing
<1> QED
  BY <1>7, <1>9 DEF OutcomeInv

LEMMA AlertKeepsOutcomes ==
  ASSUME TypeOK, OutcomeInv, NotifyFetchErrors
  PROVE  OutcomeInv'
<1>0. PICK n : n = LastRun
  OBVIOUS
<1>1. /\ pc = "alert" /\ pc' = "idle" /\ runs' = runs /\ pushes' = pushes
      /\ alerts' = IF run.alert THEN Append(alerts, n) ELSE alerts
  BY <1>0 DEF NotifyFetchErrors, LastRun
<1>2. /\ n \in DOMAIN runs /\ n \in Nat /\ LastRun' = n /\ ~Alerted(n)
      /\ (run.alert <=> ToAlert(n)) /\ PushIsRight(n)
  BY <1>0, <1>1, RunsTyped DEF OutcomeInv, RunInProgress, Finishing, LastRun
<1>3. /\ \A r \in DOMAIN runs : Alerted(r)' <=> (Alerted(r) \/ (r = n /\ run.alert))
      /\ \A a \in DOMAIN alerts' : alerts'[a] \in DOMAIN runs
  <2>1. CASE run.alert
    <3>1. alerts \in Seq(Nat) /\ alerts' = Append(alerts, n)
      BY <1>1, <2>1, RunsTyped
    <3>2. /\ DOMAIN alerts' = DOMAIN alerts \cup {Len(alerts) + 1}
          /\ alerts'[Len(alerts) + 1] = n /\ \A a \in DOMAIN alerts : alerts'[a] = alerts[a]
      BY <1>2, <3>1
    <3> QED
      BY <1>2, <2>1, <3>2 DEF Alerted, OutcomeInv, NothingAhead
  <2>2. CASE ~run.alert
    BY <1>1, <2>2 DEF Alerted, OutcomeInv, NothingAhead
  <2> QED
    BY <2>1, <2>2
<1>4. \A r : ToAlert(r)' = ToAlert(r) /\ PushIsRight(r)' = PushIsRight(r)
  BY <1>1 DEF ToAlert, PushIsRight, PushesOf, ToPush
<1>5. \A r \in DOMAIN runs : AlertIsRight(r)' /\ PushIsRight(r)'
  <2>1. \A r \in DOMAIN runs : r # n => AlertIsRight(r) /\ PushIsRight(r)
    BY <1>0 DEF OutcomeInv, PastRuns
  <2> QED
    BY <1>2, <1>3, <1>4, <2>1 DEF AlertIsRight
<1>6. PastRuns' /\ NothingAhead'
  BY <1>1, <1>3, <1>5 DEF OutcomeInv, PastRuns, NothingAhead
<1> QED
  BY <1>1, <1>6 DEF OutcomeInv, RunInProgress

\* A run that is aborted, or killed before its outcome is written, has no errors and
\* owes nobody anything.
LEMMA AbortKeepsOutcomes ==
  ASSUME TypeOK, OutcomeInv, pc \notin {"idle", "notify", "alert"}, pc' = "idle",
         UNCHANGED <<runs, pushes, alerts>>
  PROVE  OutcomeInv'
<1>1. AlertIsRight(LastRun) /\ PushIsRight(LastRun)
  BY DEF OutcomeInv, RunInProgress, Finishing, AlertIsRight, ToAlert, PushIsRight
<1>2. PastRuns' /\ NothingAhead'
  BY <1>1, SameRecords DEF OutcomeInv, PastRuns
<1> QED
  BY <1>2 DEF OutcomeInv, RunInProgress

LEMMA OutcomesGoOn ==
  NotKilledAtTheEnd /\ TypeOK /\ OutcomeInv /\ [Next]_vars => OutcomeInv'
<1> SUFFICES ASSUME NotKilledAtTheEnd, TypeOK, OutcomeInv, [Next]_vars
             PROVE  OutcomeInv'
  OBVIOUS
<1>1. CASE \/ FetchRaises \/ FetchReturns \/ CommitSource
           \/ SkipUnknownProduct \/ SelectByBuild \/ InsertByBuild \/ RefreshByBuild
           \/ InsertOnConflict \/ RefreshByKey
           \/ SelectHintRows \/ ApplyHint \/ CommitHints \/ DeadlockAborts
  BY <1>1, MidwaySteps, MidwayKeeps
<1>2. CASE StartRun \/ FinishRun \/ NotifyNewPatches \/ NotifyFetchErrors
  BY <1>2, StartKeepsOutcomes, FinishKeepsOutcomes, PushKeepsOutcomes, AlertKeepsOutcomes
<1>3. CASE Unwind \/ Crash
  BY <1>3, AbortKeepsOutcomes DEF Unwind, Crash, NotKilledAtTheEnd
<1>4. CASE AdminStep \/ UNCHANGED vars
  <2>1. UNCHANGED <<runs, pushes, alerts, pc, run>>
    BY <1>4 DEF AdminStep, AdminCreate, AdminOpen, AdminStore, EditAborts, AdminDelete, vars
  <2>2. PastRuns' /\ NothingAhead'
    BY <2>1, SameRecords DEF OutcomeInv, PastRuns
  <2>3. RunInProgress'
    BY <2>1, SameRecords DEF OutcomeInv, RunInProgress
  <2> QED
    BY <2>2, <2>3 DEF OutcomeInv
<1> QED
  BY <1>1, <1>2, <1>3, <1>4 DEF Next, RefreshStep

\* What is sent about a run follows its outcome, at every point of the run.
THEOREM OutcomeInvariant == NotKilledAtTheEnd /\ Spec => []OutcomeInv
<1> SUFFICES ASSUME NotKilledAtTheEnd
             PROVE  Spec => []OutcomeInv
  OBVIOUS
<1>1. TypeOK /\ OutcomeInv /\ [Next]_vars => OutcomeInv'
  BY OutcomesGoOn
<1> QED
  BY <1>1, OutcomesStart, TypeInvariant, PTL DEF Spec

\* The operator is alerted about exactly the runs whose errors changed, for any
\* sources, operator and aborted runs (should_notify_errors in run_all_fetchers).
THEOREM AlertsAreExact == NotKilledAtTheEnd /\ Spec => []AlertExactly
<1>1. TypeOK /\ OutcomeInv => AlertExactly
  BY DEF OutcomeInv, PastRuns, AlertExactly, AlertIsRight, Alerted, ToAlert
<1> QED
  BY <1>1, OutcomeInvariant, TypeInvariant, PTL

\* Each completed run with finds, but the first, has pushed them exactly once, and the
\* others nothing (notify_new_patches at the end of run_all_fetchers).
THEOREM CompletedRunsArePushed == NotKilledAtTheEnd /\ Spec => []CompletedRunsPush
<1>1. TypeOK /\ OutcomeInv => CompletedRunsPush
  BY DEF OutcomeInv, PastRuns, CompletedRunsPush, PushIsRight, PushesOf, ToPush
<1> QED
  BY <1>1, OutcomeInvariant, TypeInvariant, PTL

-----------------------------------------------------------------------------
(***************************************************************************)
(* "A refresh that finds new patches sends exactly one push": what a       *)
(* source has committed is announced, unless the run is killed, or aborted *)
(* by a later source, before it gets to its notifications.                 *)
(***************************************************************************)

NeverKilled == CrashAt \subseteq {"idle"}
Over == {"idle", "notify", "alert"}

\* What a source has found is among the run's notices, then in the run's outcome.
Counted(s) == sources[s].new > 0 =>
                IF sources[s].run = LastRun /\ pc \notin Over
                THEN run.notices # <<>> ELSE runs[sources[s].run].new > 0
FindsInv ==
  /\ \A r \in DOMAIN runs : runs[r].status = "running" => r = LastRun /\ pc \notin Over
  /\ \A s \in DOMAIN sources : sources[s].run \in DOMAIN runs /\ Counted(s)

\* No statement takes a notice back.
LEMMA NoticesGrow ==
  ASSUME PipelineInv, run.notices # <<>>,
         \/ FetchRaises \/ FetchReturns \/ CommitSource \/ Upserts
         \/ SelectHintRows \/ ApplyHint \/ CommitHints
  PROVE  run'.notices # <<>>
<1>1. run \in Locals
  BY TablesTyped DEF TypeOK
<1>2. CASE Upserts
  <2>1. run.notices \in Seq(Key) /\ KeyOf(Current) \in Key
    <3>1. AtItem \/ pc \in {"insertBuild", "refreshBuild", "refreshKey"}
      BY <1>2 DEF Upserts, SkipUnknownProduct, SelectByBuild, InsertByBuild, RefreshByBuild,
         InsertOnConflict, RefreshByKey
    <3> QED
      BY <3>1, AtItemFacts, ItemTyped
  <2>2. /\ Touch(run).notices = run.notices /\ Advance(run).notices = run.notices
        /\ Advance(Announce(run)).notices = Append(run.notices, KeyOf(Current))
        /\ Advance(Announce(Touch(run))).notices = Append(run.notices, KeyOf(Current))
        /\ \A id : [Touch(run) EXCEPT !.found = id].notices = run.notices
    BY <1>1 DEF Touch, Advance, Announce, Locals
  <2>3. \/ run' = run \/ run' = Touch(run) \/ run' = Advance(run)
        \/ run' = Advance(Announce(run)) \/ run' = Advance(Announce(Touch(run)))
        \/ \E id : run' = [Touch(run) EXCEPT !.found = id]
    <3>1. CASE SelectByBuild
      BY ONLY <3>1, Zenon DEF SelectByBuild
    <3>2. CASE SkipUnknownProduct \/ RefreshByBuild \/ RefreshByKey
      BY ONLY <3>2, Zenon DEF SkipUnknownProduct, RefreshByBuild, RefreshByKey
    <3>3. CASE InsertByBuild
      BY ONLY <3>3, Zenon DEF InsertByBuild, Insert
    <3>4. CASE InsertOnConflict
      BY ONLY <3>4, Zenon DEF InsertOnConflict, Insert
    <3> QED
      BY <1>2, <3>1, <3>2, <3>3, <3>4 DEF Upserts
  <2>4. run'.notices = run.notices \/ run'.notices = Append(run.notices, KeyOf(Current))
    BY ONLY <2>2, <2>3, Zenon
  <2>5. \A n \in Seq(Key), k \in Key : Len(Append(n, k)) # 0
    OBVIOUS
  <2>6. Len(<<>>) = 0
    OBVIOUS
  <2> QED
    BY <2>1, <2>4, <2>5, <2>6
<1>3. CASE FetchRaises
  BY ONLY <1>1, <1>3, run.notices # <<>> DEF FetchRaises, Locals
<1>4. CASE FetchReturns
  BY ONLY <1>1, <1>4, run.notices # <<>> DEF FetchReturns, Locals
<1>5. CASE CommitSource
  BY ONLY <1>1, <1>5, run.notices # <<>> DEF CommitSource, Locals
<1>6. CASE SelectHintRows
  BY ONLY <1>1, <1>6, run.notices # <<>> DEF SelectHintRows, Locals
<1>7. CASE ApplyHint
  <2>1. run' = run \/ \E h \in run.hintRows : run' = [run EXCEPT !.hintRows = @ \ {h}]
    BY <1>7 DEF ApplyHint, Hinted
  <2> QED
    BY ONLY <1>1, <2>1, run.notices # <<>> DEF Locals
<1>8. CASE CommitHints
  BY <1>8 DEF CommitHints
<1> QED
  BY <1>2, <1>3, <1>4, <1>5, <1>6, <1>7, <1>8

\* A source is recorded with no more finds than there are notices.
LEMMA SourceCounted ==
  ASSUME PipelineInv, OutcomeInv, FindsInv, FetchRaises \/ CommitSource
  PROVE  FindsInv'
<1>0. PICK n : n = LastRun
  OBVIOUS
<1>1. pc \notin Over /\ pc' \notin Over /\ runs' = runs /\ LastRun' = LastRun
  BY DEF FetchRaises, CommitSource, Over, LastRun
<1>2. TypeOK /\ n \in DOMAIN runs /\ run \in Locals /\ run.before \in Nat /\ Len(run.notices) \in Nat
  BY <1>0, <1>1, TablesTyped DEF OutcomeInv, RunInProgress, Over, TypeOK, Locals
<1>3. PICK row : /\ sources' = Append(sources, row) /\ row.run = n
                 /\ row.new = 0 \/ row.new = Len(run.notices) - run.before
  <2>1. \A status, k : SourceRow(status, k).run = n /\ SourceRow(status, k).new = k
    BY <1>0 DEF SourceRow, LastRun
  <2>2. CASE FetchRaises
    <3>1. sources' = Append(sources, SourceRow("error", 0))
      BY ONLY <2>2 DEF FetchRaises
    <3> QED
      BY ONLY <2>1, <3>1
  <2>3. CASE CommitSource
    <3>1. sources' = Append(sources, SourceRow(SourceStatus, Len(run.notices) - run.before))
      BY ONLY <2>3 DEF CommitSource
    <3> QED
      BY ONLY <2>1, <3>1
  <2> QED
    BY <2>2, <2>3
<1>4. row.new > 0 => run.notices # <<>>
  <2>1. run.notices = <<>> => Len(run.notices) = 0
    OBVIOUS
  <2> QED
    BY <1>2, <1>3, <2>1
<1>5. run.notices # <<>> => run'.notices # <<>>
  BY NoticesGrow
<1>6. /\ DOMAIN sources' = DOMAIN sources \cup {Len(sources) + 1}
      /\ sources'[Len(sources) + 1] = row /\ \A s \in DOMAIN sources : sources'[s] = sources[s]
  BY <1>2, <1>3 DEF TypeOK
<1>7. ASSUME NEW s \in DOMAIN sources'
      PROVE  sources'[s].run \in DOMAIN runs' /\ Counted(s)'
  <2>1. CASE s \in DOMAIN sources
    BY <1>1, <1>5, <1>6, <2>1 DEF FindsInv, Counted
  <2>2. CASE s = Len(sources) + 1
    BY <1>0, <1>1, <1>2, <1>3, <1>4, <1>5, <1>6, <2>2 DEF Counted
  <2> QED
    BY <1>6, <2>1, <2>2
<1> QED
  BY <1>1, <1>7 DEF FindsInv

LEMMA FindsGoOn ==
  ASSUME NeverKilled, PipelineInv, RunNeverAborts, OutcomeInv, FindsInv, [Next]_vars
  PROVE  FindsInv'
<1>1. TypeOK /\ runs \in Seq(RunRow) /\ LastRun \in Nat /\ DOMAIN runs = 1 .. LastRun /\ Len(runs) = LastRun
  BY TablesTyped, RunsTyped DEF LastRun
<1>2. CASE FetchRaises \/ CommitSource
  BY <1>2, SourceCounted
<1>3. CASE FetchReturns \/ Upserts \/ SelectHintRows \/ ApplyHint \/ CommitHints
  <2>1. UNCHANGED <<runs, sources>> /\ pc \notin Over /\ pc' \notin Over
    BY <1>3 DEF Over, AtItem, SourcesDone, Upserts, FetchReturns, SkipUnknownProduct, SelectByBuild,
       InsertByBuild, Insert, RefreshByBuild, InsertOnConflict, RefreshByKey, SelectHintRows,
       ApplyHint, CommitHints, dbVars
  <2>2. run.notices # <<>> => run'.notices # <<>>
    BY <1>3, NoticesGrow
  <2> QED
    BY <2>1, <2>2 DEF FindsInv, Counted, LastRun
<1>4. CASE StartRun
  <2> DEFINE row == [status |-> "running", new |-> 0, errors |-> <<>>]
  <2>1. /\ pc = "idle" /\ pc' = "fetch" /\ runs' = Append(runs, row) /\ sources' = sources
    BY <1>4 DEF StartRun
  <2> HIDE DEF row
  <2>2. /\ LastRun' = LastRun + 1 /\ DOMAIN runs' = 1 .. LastRun + 1
        /\ \A r \in 1 .. LastRun : runs'[r] = runs[r]
    BY <1>1, <2>1 DEF LastRun
  <2>3. \A r \in DOMAIN runs : runs[r].status # "running"
    BY <2>1 DEF FindsInv, Over
  <2>4. \A s \in DOMAIN sources : sources[s].run \in 1 .. LastRun /\ sources[s].run # LastRun + 1
    BY <1>1 DEF FindsInv
  <2>5. \A s \in DOMAIN sources : sources[s].new > 0 => runs[sources[s].run].new > 0
    BY <2>1 DEF FindsInv, Counted, Over
  <2> QED
    BY <1>1, <2>1, <2>2, <2>3, <2>4, <2>5 DEF FindsInv, Counted, Over
<1>5. CASE FinishRun
  <2> DEFINE row == [status |-> RunStatus, new |-> Len(run.notices), errors |-> run.errors]
  <2>1. /\ pc \notin Over /\ pc' = "notify" /\ sources' = sources
        /\ runs' = [runs EXCEPT ![LastRun] = row]
    BY <1>5 DEF FinishRun, SourcesDone, Over, LastRun
  <2>2. row.status # "running" /\ row.new = Len(run.notices)
    BY DEF RunStatus
  <2> HIDE DEF row
  <2>3. LastRun \in DOMAIN runs /\ run.notices \in Seq(Key)
    BY <1>1, <2>1, RunsTyped DEF OutcomeInv, RunInProgress, Over
  <2>4. /\ LastRun' = LastRun /\ DOMAIN runs' = DOMAIN runs /\ runs'[LastRun] = row
        /\ \A r \in DOMAIN runs : r # LastRun => runs'[r] = runs[r]
    BY <1>1, <2>1, <2>3 DEF LastRun
  <2>5. run.notices # <<>> => Len(run.notices) > 0
    BY <2>3, EmptySeq
  <2> QED
    BY <2>1, <2>2, <2>4, <2>5 DEF FindsInv, Counted, Over
<1>6. CASE NotifyNewPatches \/ NotifyFetchErrors
  <2>1. UNCHANGED <<runs, sources>> /\ pc \in Over /\ pc' \in Over
    BY <1>6 DEF NotifyNewPatches, NotifyFetchErrors, Over, dbVars
  <2> QED
    BY <2>1 DEF FindsInv, Counted, LastRun
<1>7. ~Unwind /\ ~Crash
  BY DEF Unwind, Crash, RunNeverAborts, NeverKilled
<1>8. CASE AdminStep \/ UNCHANGED vars
  <2>1. UNCHANGED <<runs, sources, pc, run>>
    BY <1>8 DEF AdminStep, AdminCreate, AdminOpen, AdminStore, EditAborts, AdminDelete, vars, dbVars
  <2> QED
    BY <2>1 DEF FindsInv, Counted, LastRun
<1>9. CASE DeadlockAborts
  <2>1. UNCHANGED <<runs, sources, run>> /\ pc \notin Over /\ pc' \notin Over
    BY <1>9, DeadlockIsMidway DEF Upserting, Over
  <2> QED
    BY <2>1 DEF FindsInv, Counted, LastRun
<1> QED
  BY <1>2, <1>3, <1>4, <1>5, <1>6, <1>7, <1>8, <1>9 DEF Next, RefreshStep, Upserts

\* Whatever a source finds, but in the first run, is pushed once by its run, as long as no
\* run is killed, the sources agree on the KB number that goes with a build, the operator
\* leaves the builds to them and no form of his changes the key of a row: when the README
\* is right about its one push (run lost_push shows that it is not when a later source
\* aborts the run).
THEOREM FindsArePushed ==
  NeverKilled /\ BuildsHaveOneKB /\ Spec /\ HintsUndisturbed /\ BuildsUndisturbed /\ FormsKeepReleases
    => []EveryFindIsPushed
<1> SUFFICES ASSUME NeverKilled, BuildsHaveOneKB
             PROVE  Spec /\ HintsUndisturbed /\ BuildsUndisturbed /\ FormsKeepReleases
                      => []EveryFindIsPushed
  OBVIOUS
<1>1. NotKilledAtTheEnd
  BY DEF NeverKilled, NotKilledAtTheEnd
<1>2. Init => FindsInv
  BY DEF Init, FindsInv
<1>3. PipelineInv /\ RunNeverAborts /\ OutcomeInv /\ FindsInv /\ [Next]_vars => FindsInv'
  BY FindsGoOn
<1>4. TypeOK /\ OutcomeInv /\ FindsInv => EveryFindIsPushed
  <2> SUFFICES ASSUME TypeOK, OutcomeInv, FindsInv, pc = "idle",
                      NEW s \in DOMAIN sources, sources[s].new > 0, sources[s].run # 1
               PROVE  Cardinality({p \in DOMAIN pushes : pushes[p].run = sources[s].run}) = 1
    BY DEF EveryFindIsPushed
  <2> DEFINE r == sources[s].run
  <2>1. r \in DOMAIN runs /\ runs[r].new > 0 /\ runs[r].status # "running"
    BY DEF FindsInv, Counted, Over
  <2>2. PushIsRight(r)
    BY <2>1 DEF OutcomeInv, PastRuns
  <2>3. r > 1
    <3>1. r \in 1 .. LastRun /\ LastRun \in Nat
      BY <2>1, RunsTyped
    <3> QED
      BY <3>1
  <2> QED
    BY <2>1, <2>2, <2>3 DEF PushIsRight, ToPush, PushesOf
<1> QED
  BY <1>1, <1>2, <1>3, <1>4, PipelineInvariant, TypeInvariant, OutcomeInvariant, RunsNeverAbort, PTL DEF Spec
=============================================================================
