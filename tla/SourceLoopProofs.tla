-------------------------- MODULE SourceLoopProofs --------------------------
(* What the four sources return, for any documents, articles, pages and    *)
(* answers: MSRC alone, and all of them in the loop of run_all_fetchers.   *)
EXTENDS SourceLoop, FiniteSetTheorems, FunctionTheorems, TLAPS

\* The position in the list of updates.
AtIsPositive == at \in Nat \ {0}

\* A row of a month is for a product of that month's tree (_handle_remediation).
LEMMA GranularProducts ==
  ASSUME pc = "months", at \in DOMAIN Updates, NEW d \in Documents[Update], NEW r \in Granular(d)
  PROVE  r.product \in d.products
<1>1. Update \in DOMAIN Documents
  BY SourcesAssumption DEF Update
<1>2. \A i \in DOMAIN d.fixes : d.fixes[i].products \subseteq d.products
  BY <1>1, SourcesAssumption
<1>3. PICK x \in Frameworks \X DOMAIN d.fixes :
        /\ x[1] \in d.fixes[x[2]].products
        /\ r = [product |-> x[1], kb |-> d.fixes[x[2]].kb, date |-> Date, url |-> "catalog",
                os |-> {}]
  BY DEF Granular, Pairs
<1> QED
  BY <1>2, <1>3

\* An article changes what a row says, never whose it is (_discover_os_bundles).
LEMMA OwnKeepsProduct ==
  ASSUME NEW p, NEW k, NEW a
  PROVE  Own(p, k, a).product = p.product
BY DEF Own

LEMMA InitProducts == Init => AtIsPositive /\ EveryPatchHasItsProduct
BY DEF Init, AtIsPositive, EveryPatchHasItsProduct

LEMMA StepKeepsPosition ==
  ASSUME AtIsPositive, Step \/ UNCHANGED vars PROVE AtIsPositive'
BY DEF AtIsPositive, Step, ListUpdates, ListRaises, ProcessMonth, MonthFails, MonthsDone,
       Request, ArticleFails, ArticleRead, ArticlesDone, vars

\* Only a month and an article add rows, and both list the products of theirs.
LEMMA StepKeepsProducts ==
  ASSUME AtIsPositive, EveryPatchHasItsProduct, Step \/ UNCHANGED vars
  PROVE  EveryPatchHasItsProduct'
<1>1. CASE ProcessMonth
  <2>1. pc = "months" /\ at \in DOMAIN Updates
    <3>1. Updates \in Seq(DOMAIN Documents)
      BY SourcesAssumption
    <3>2. DOMAIN Updates = 1 .. Len(Updates)
      BY <3>1
    <3> QED
      BY <1>1, <3>1, <3>2 DEF ProcessMonth, AtIsPositive
  <2>2. PICK d \in Documents[Update] : /\ products' = products \cup d.products
                                       /\ patches' = patches \cup Granular(d)
    BY <1>1 DEF ProcessMonth, Listed
  <2> QED
    BY <2>1, <2>2, GranularProducts DEF EveryPatchHasItsProduct
<1>2. CASE ArticleRead
  <2>1. PICK k \in inFlight : \E a \in Articles[k] :
          /\ patches' = {Own(p, k, a) : p \in patches} \cup {Bundle(b, k) : b \in Bundles(a)}
          /\ products' = products \cup {b.os : b \in Bundles(a)}
    BY <1>2 DEF ArticleRead
  <2>2. PICK a \in Articles[k] :
          /\ patches' = {Own(p, k, a) : p \in patches} \cup {Bundle(b, k) : b \in Bundles(a)}
          /\ products' = products \cup {b.os : b \in Bundles(a)}
    BY <2>1
  <2>3. SUFFICES ASSUME NEW r \in patches' PROVE r.product \in products'
    BY DEF EveryPatchHasItsProduct
  <2>4. CASE r \in {Own(p, k, a) : p \in patches}
    <3>1. PICK p \in patches : r = Own(p, k, a)
      BY <2>4
    <3> QED
      BY <2>2, <3>1, OwnKeepsProduct DEF EveryPatchHasItsProduct
  <2>5. CASE r \in {Bundle(b, k) : b \in Bundles(a)}
    BY <2>2, <2>5 DEF Bundle
  <2> QED
    BY <2>2, <2>4, <2>5
<1>3. CASE UNCHANGED <<products, patches>>
  BY <1>3 DEF EveryPatchHasItsProduct
<1>4. CASE ListRaises
  BY <1>4 DEF EveryPatchHasItsProduct, ListRaises
<1> QED
  BY <1>1, <1>2, <1>3, <1>4
     DEF Step, ListUpdates, MonthFails, MonthsDone, Request, ArticleFails, ArticlesDone,
         vars, resultVars

\* The rows of a fetch have their products in the same result, so that the caller
\* drops none of them (run_all_fetchers), whatever could not be read.
THEOREM RowsHaveProducts == Spec => []EveryPatchHasItsProduct
<1>1. AtIsPositive /\ EveryPatchHasItsProduct /\ [Next]_vars
        => AtIsPositive' /\ EveryPatchHasItsProduct'
  BY StepKeepsPosition, StepKeepsProducts DEF Next
<1> QED
  BY InitProducts, <1>1, PTL DEF Spec

-----------------------------------------------------------------------------
(* Finding the first and the last of a set of positions *)

\* Any non-empty set of numbers has a least one: what fix inserts a KB, what listing
\* is the first of its KB.
LEMMA Least ==
  ASSUME NEW S \in SUBSET Nat, S # {}
  PROVE  \E m \in S : \A n \in S : m <= n
<1> SUFFICES ASSUME \A m \in S : \E n \in S : n < m
             PROVE  FALSE
  OBVIOUS
<1> PICK x \in S : TRUE
  OBVIOUS
<1> DEFINE L == {k \in 0 .. x : \A n \in S : k < n}
           next == [k \in L |-> k + 1]
<1>1. IsFiniteSet(L)
  BY FS_Interval, FS_Subset, L \subseteq 0 .. x, 0 \in Int, x \in Int
<1>2. 0 \in L
  OBVIOUS
<1>3. ASSUME NEW k \in L PROVE k + 1 \in L
  <2>1. k < x /\ k \in Nat
    OBVIOUS
  <2>2. ASSUME NEW n \in S PROVE k + 1 < n
    <3>1. PICK j \in S : j < n
      OBVIOUS
    <3> QED
      BY <3>1
  <2> QED
    BY <2>1, <2>2
<1>4. next \in Injection(L, L)
  BY <1>3 DEF Injection, IsInjective
<1> HIDE DEF L
<1>5. next \in Surjection(L, L)
  BY <1>1, <1>4, FS_Injection
<1>6. PICK k \in L : next[k] = 0
  BY <1>2, <1>5 DEF Surjection
<1> QED
  BY <1>6 DEF L

\* A non-empty set of positions of a sequence has a last one.
LEMMA Greatest ==
  ASSUME NEW n \in Nat, NEW S \in SUBSET (1 .. n), S # {}
  PROVE  \E m \in S : \A j \in S : j <= m
<1> DEFINE B == {b \in Nat : \A s \in S : s <= b}
<1>1. n \in B
  OBVIOUS
<1>2. PICK b \in B : \A c \in B : b <= c
  BY <1>1, Least, B \in SUBSET Nat, B # {}
<1>3. b \in S
  <2>1. SUFFICES ASSUME b \notin S PROVE FALSE
    OBVIOUS
  <2>2. PICK s \in S : TRUE
    OBVIOUS
  <2>3. s <= b /\ s >= 1
    OBVIOUS
  <2>4. b - 1 \in Nat
    BY <2>3
  <2>5. \A t \in S : t <= b - 1
    BY <2>1
  <2> QED
    BY <1>2, <2>4, <2>5
<1> QED
  BY <1>3

-----------------------------------------------------------------------------
(* What the assumptions on the documents and the articles give *)

LEMMA UpdateIsThere ==
  ASSUME at \in Nat \ {0}, at <= Len(Updates)
  PROVE  Update \in DOMAIN Documents /\ Date \in Dates \cup {NoDate}
<1>1. Updates \in Seq(DOMAIN Documents)
  BY SourcesAssumption
<1>2. at \in 1 .. Len(Updates)
  BY <1>1
<1>3. Update \in DOMAIN Documents
  BY <1>1, <1>2 DEF Update
<1> QED
  BY <1>3, SourcesAssumption DEF Date

LEMMA FixesOf ==
  ASSUME NEW u \in DOMAIN Documents, NEW d \in Documents[u]
  PROVE  /\ Len(d.fixes) \in Nat /\ DOMAIN d.fixes = 1 .. Len(d.fixes)
         /\ d.products \subseteq Frameworks \cup Cores
         /\ \A i \in DOMAIN d.fixes : /\ d.fixes[i].kb \in KBs
                                      /\ d.fixes[i].products \subseteq Frameworks \cup Cores
<1>1. d \in Document
  BY SourcesAssumption
<1>2. d.fixes \in Seq(Fix) /\ d.products \subseteq Frameworks \cup Cores
  BY <1>1 DEF Document
<1>3. DOMAIN d.fixes = 1 .. Len(d.fixes) /\ Len(d.fixes) \in Nat
  BY <1>2
<1>4. \A i \in DOMAIN d.fixes : d.fixes[i] \in Fix
  BY <1>2
<1> QED
  BY <1>2, <1>3, <1>4 DEF Fix

LEMMA ListingsOf ==
  ASSUME NEW k \in KBs, NEW a \in Articles[k]
  PROVE  /\ Len(a.listings) \in Nat /\ DOMAIN a.listings = 1 .. Len(a.listings)
         /\ a.date \in Dates \cup {NoDate} /\ a.os \in Systems \cup {NoSystem}
         /\ \A i \in DOMAIN a.listings : /\ a.listings[i].kb \in KBs
                                         /\ a.listings[i].os \in Systems
                                         /\ a.listings[i].date \in Dates \cup {NoDate}
<1>1. a \in Article
  BY SourcesAssumption
<1>2. /\ a.listings \in Seq(Listing) /\ a.date \in Dates \cup {NoDate}
      /\ a.os \in Systems \cup {NoSystem}
  BY <1>1 DEF Article
<1>3. DOMAIN a.listings = 1 .. Len(a.listings) /\ Len(a.listings) \in Nat
  BY <1>2
<1>4. \A i \in DOMAIN a.listings : a.listings[i] \in Listing
  BY <1>2
<1> QED
  BY <1>2, <1>3, <1>4 DEF Listing

\* A row of a month is one of its fixes, for a Framework (_handle_remediation).
LEMMA GranularIs ==
  ASSUME NEW d, NEW r \in Granular(d)
  PROVE  \E p \in Frameworks, i \in DOMAIN d.fixes :
           /\ p \in d.fixes[i].products
           /\ r = [product |-> p, kb |-> d.fixes[i].kb, date |-> Date, url |-> "catalog", os |-> {}]
<1>1. PICK x \in Frameworks \X DOMAIN d.fixes :
        /\ x[1] \in d.fixes[x[2]].products
        /\ r = [product |-> x[1], kb |-> d.fixes[x[2]].kb, date |-> Date, url |-> "catalog",
                os |-> {}]
  BY DEF Granular, Pairs
<1> QED
  BY <1>1

LEMMA GranularHas ==
  ASSUME NEW d, NEW i \in DOMAIN d.fixes, NEW p \in Frameworks, p \in d.fixes[i].products
  PROVE  \E r \in Granular(d) : r.product = p /\ r.kb = d.fixes[i].kb
<1> DEFINE x == <<p, i>>
           r == [product |-> p, kb |-> d.fixes[i].kb, date |-> Date, url |-> "catalog", os |-> {}]
<1>1. x \in Pairs(d)
  BY DEF Pairs
<1>2. r = [product |-> x[1], kb |-> d.fixes[x[2]].kb, date |-> Date, url |-> "catalog", os |-> {}]
  OBVIOUS
<1> HIDE DEF x
<1>3. r \in Granular(d)
  BY <1>1, <1>2 DEF Granular
<1> QED
  BY <1>3

\* The first fix with a KB that is followed: the one whose place its key keeps.
LEMMA FirstFixIsThere ==
  ASSUME NEW u \in DOMAIN Documents, NEW d \in Documents[u], NEW k \in KBsToFollow(d)
  PROVE  FirstFix(d, k) \in Nat \ {0} /\ k \in KBs /\ Date # NoDate
<1>1. Date # NoDate /\ \E r \in Granular(d) : r.kb = k
  BY DEF KBsToFollow, FrameworkKBs
<1>2. PICK p \in Frameworks, i \in DOMAIN d.fixes : p \in d.fixes[i].products /\ d.fixes[i].kb = k
  BY <1>1, GranularIs
<1>3. DOMAIN d.fixes = 1 .. Len(d.fixes) /\ Len(d.fixes) \in Nat /\ d.fixes[i].kb \in KBs
  BY FixesOf
<1> DEFINE S == {j \in DOMAIN d.fixes : Inserts(d, k, j)}
<1>4. S \in SUBSET Nat /\ S # {}
  BY <1>2, <1>3 DEF Inserts
<1>5. PICK m \in S : \A n \in S : m <= n
  BY <1>4, Least
<1>6. \A j \in 1 .. m - 1 : ~Inserts(d, k, j)
  BY <1>3, <1>5
<1>7. FirstFix(d, k) \in DOMAIN d.fixes
  BY <1>5, <1>6 DEF FirstFix
<1> QED
  BY <1>1, <1>2, <1>3, <1>7

-----------------------------------------------------------------------------
(* Types: a task is followed only for a KB that has a date *)

LEMMA GranularTypes ==
  ASSUME Update \in DOMAIN Documents, Date \in Dates \cup {NoDate}, NEW d \in Documents[Update]
  PROVE  Granular(d) \subseteq Patch
<1> SUFFICES ASSUME NEW r \in Granular(d) PROVE r \in Patch
  OBVIOUS
<1>1. PICK p \in Frameworks, i \in DOMAIN d.fixes :
        r = [product |-> p, kb |-> d.fixes[i].kb, date |-> Date, url |-> "catalog", os |-> {}]
  BY GranularIs
<1>2. d.fixes[i].kb \in KBs
  BY FixesOf
<1> QED
  BY <1>1, <1>2 DEF Patch, Products

LEMMA OwnTypes ==
  ASSUME NEW k \in KBs, NEW a \in Articles[k], NEW p \in Patch
  PROVE  Own(p, k, a) \in Patch
<1>1. a.date \in Dates \cup {NoDate} /\ a.os \in Systems \cup {NoSystem}
  BY ListingsOf
<1> QED
  BY <1>1 DEF Own, Patch

LEMMA BundlesAre ==
  ASSUME NEW k \in KBs, NEW a \in Articles[k], NEW b \in Bundles(a)
  PROVE  /\ \E i \in Reached(a) : i \in DOMAIN a.listings /\ b = a.listings[i] /\ ~b.broken
         /\ b.kb \in KBs /\ b.os \in Systems /\ b.date \in Dates \cup {NoDate}
<1>1. PICK i \in Reached(a) : b = a.listings[i] /\ ~a.listings[i].broken
  BY DEF Bundles
<1>2. i \in DOMAIN a.listings
  BY DEF Reached, Fresh
<1> QED
  BY <1>1, <1>2, ListingsOf

LEMMA BundleTypes ==
  ASSUME NEW k \in KBs, NEW a \in Articles[k], NEW b \in Bundles(a), kbDates[k] \in Dates
  PROVE  Bundle(b, k) \in Patch
BY BundlesAre DEF Bundle, Patch, Products

LEMMA InitTypes == Init => TypeOK
BY DEF Init, TypeOK, None

LEMMA MonthTypes ==
  ASSUME TypeOK, ProcessMonth PROVE TypeOK'
<1>1. /\ Update \in DOMAIN Documents /\ Date \in Dates \cup {NoDate} /\ at \in Nat \ {0}
  BY UpdateIsThere DEF TypeOK, ProcessMonth
<1>2. PICK d \in Documents[Update] :
        /\ products' = products \cup d.products
        /\ patches' = patches \cup Granular(d)
        /\ kbDates' = With(kbDates, [k \in KBsToFollow(d) |-> Date])
        /\ met' = With(Met(d), met)
        /\ errors' = IF d.broken THEN errors + 1 ELSE errors
  BY DEF ProcessMonth, Listed
<1>3. \A k \in KBsToFollow(d) : FirstFix(d, k) \in Nat \ {0} /\ k \in KBs /\ Date # NoDate
  BY <1>1, FirstFixIsThere
<1>4. /\ DOMAIN kbDates' = DOMAIN kbDates \cup KBsToFollow(d)
      /\ \A k \in KBsToFollow(d) : kbDates'[k] = Date
      /\ \A k \in DOMAIN kbDates \ KBsToFollow(d) : kbDates'[k] = kbDates[k]
  <2> DEFINE dates == [k \in KBsToFollow(d) |-> Date]
  <2>1. DOMAIN dates = KBsToFollow(d) /\ \A k \in KBsToFollow(d) : dates[k] = Date
    OBVIOUS
  <2>2. kbDates' = With(kbDates, dates)
    BY <1>2
  <2> HIDE DEF dates
  <2> QED
    BY <2>1, <2>2 DEF With
<1>5. kbDates' = [k \in DOMAIN kbDates' |-> kbDates'[k]]
  BY <1>2 DEF With
<1>6. DOMAIN kbDates' \subseteq KBs /\ kbDates' \in [DOMAIN kbDates' -> Dates]
  <2>1. \A k \in DOMAIN kbDates' : k \in KBs /\ kbDates'[k] \in Dates
    BY <1>1, <1>3, <1>4 DEF TypeOK
  <2> QED
    BY <1>5, <2>1
<1>7. met' \in [DOMAIN kbDates' -> (Nat \ {0}) \X (Nat \ {0})]
  <2>1. DOMAIN Met(d) = KBsToFollow(d) /\ DOMAIN met = DOMAIN kbDates
    BY DEF Met, TypeOK
  <2>2. /\ DOMAIN met' = DOMAIN kbDates'
        /\ \A k \in DOMAIN met : met'[k] = met[k]
        /\ \A k \in KBsToFollow(d) \ DOMAIN met : met'[k] = Met(d)[k]
    <3>1. met' = With(Met(d), met)
      BY <1>2
    <3> QED
      BY <1>4, <2>1, <3>1 DEF With
  <2>3. met' = [k \in DOMAIN met' |-> met'[k]]
    BY <1>2 DEF With
  <2>4. ASSUME NEW k \in DOMAIN kbDates' PROVE met'[k] \in (Nat \ {0}) \X (Nat \ {0})
    <3>1. CASE k \in DOMAIN met
      BY <2>2, <3>1 DEF TypeOK
    <3>2. CASE k \notin DOMAIN met
      <4>1. k \in KBsToFollow(d) /\ met'[k] = Met(d)[k]
        BY <1>4, <2>1, <2>2, <3>2
      <4> QED
        BY <1>1, <1>3, <4>1 DEF Met
    <3> QED
      BY <3>1, <3>2
  <2> QED
    BY <2>2, <2>3, <2>4
<1>8. /\ products' \subseteq Products /\ patches' \subseteq Patch /\ errors' \in Nat
  <2>1. d.products \subseteq Products /\ Granular(d) \subseteq Patch
    BY <1>1, FixesOf, GranularTypes DEF Products
  <2> QED
    BY <1>2, <2>1 DEF TypeOK
<1>9. /\ pc' = pc /\ at' = at + 1 /\ queued' = queued /\ inFlight' = inFlight /\ seen' = seen
  BY DEF ProcessMonth, taskVars
<1> QED
  BY <1>1, <1>4, <1>6, <1>7, <1>8, <1>9 DEF TypeOK

LEMMA ArticleTypes ==
  ASSUME TypeOK, ArticleRead PROVE TypeOK'
<1>0. PICK k \in inFlight : \E a \in Articles[k] :
        /\ patches' = {Own(p, k, a) : p \in patches} \cup {Bundle(b, k) : b \in Bundles(a)}
        /\ products' = products \cup {b.os : b \in Bundles(a)}
        /\ seen' = SeenBy(a)
        /\ inFlight' = inFlight \ {k}
  BY DEF ArticleRead
<1>1. PICK a \in Articles[k] :
        /\ patches' = {Own(p, k, a) : p \in patches} \cup {Bundle(b, k) : b \in Bundles(a)}
        /\ products' = products \cup {b.os : b \in Bundles(a)}
        /\ seen' = SeenBy(a)
        /\ inFlight' = inFlight \ {k}
  BY <1>0
<1>2. k \in KBs /\ kbDates[k] \in Dates
  BY DEF TypeOK
<1>3. patches' \subseteq Patch
  <2>1. \A p \in patches : Own(p, k, a) \in Patch
    BY <1>2, OwnTypes DEF TypeOK
  <2>2. \A b \in Bundles(a) : Bundle(b, k) \in Patch
    BY <1>2, BundleTypes
  <2> QED
    BY <1>1, <2>1, <2>2
<1>4. products' \subseteq Products
  BY <1>1, <1>2, BundlesAre DEF TypeOK, Products
<1>5. seen' \subseteq KBs
  <2>1. \A i \in Reached(a) : a.listings[i].kb \in KBs
    BY <1>2, ListingsOf DEF Reached, Fresh
  <2> QED
    BY <1>1, <2>1 DEF SeenBy, TypeOK
<1>6. UNCHANGED <<pc, at, errors, kbDates, met, queued>>
  BY DEF ArticleRead, dictVars
<1> QED
  BY <1>1, <1>3, <1>4, <1>5, <1>6 DEF TypeOK

\* A fetch() that raises leaves nothing behind.
Lost == /\ at = 1 /\ products = {} /\ patches = {} /\ hints = None /\ errors = 0
        /\ kbDates = None /\ met = None /\ queued = {} /\ inFlight = {} /\ seen = {}
        /\ docs = None /\ read = None

LEMMA RaiseLoses == ListRaises => Lost' /\ pc' = "raised"
BY DEF ListRaises, Lost, None

LEMMA StepTypes ==
  ASSUME TypeOK, Step \/ UNCHANGED vars PROVE TypeOK'
<1>0. CASE ListRaises
  BY <1>0, RaiseLoses DEF TypeOK, Lost, None
<1>1. CASE ListUpdates
  BY <1>1 DEF TypeOK, ListUpdates, dictVars, taskVars
<1>2. CASE ProcessMonth
  BY <1>2, MonthTypes
<1>3. CASE MonthFails
  BY <1>3 DEF TypeOK, MonthFails, dictVars, taskVars
<1>4. CASE MonthsDone
  BY <1>4 DEF TypeOK, MonthsDone, resultVars, dictVars
<1>5. CASE Request
  BY <1>5 DEF TypeOK, Request, resultVars, dictVars
<1>6. CASE ArticleFails
  BY <1>6 DEF TypeOK, ArticleFails, resultVars, dictVars
<1>7. CASE ArticleRead
  BY <1>7, ArticleTypes
<1>8. CASE ArticlesDone
  BY <1>8 DEF TypeOK, ArticlesDone, resultVars, dictVars, taskVars
<1>9. CASE UNCHANGED vars
  BY <1>9 DEF TypeOK, vars, resultVars, dictVars, taskVars
<1> QED
  BY <1>0, <1>1, <1>2, <1>3, <1>4, <1>5, <1>6, <1>7, <1>8, <1>9 DEF Step

-----------------------------------------------------------------------------
(* A KB has one task, which writes once *)

\* Articles are asked for after the walk, and each at most once.
TasksOnce ==
  /\ queued \cap inFlight = {} /\ (queued \cup inFlight) \cap DOMAIN read = {}
  /\ pc \notin {"articles", "done"} => queued = {} /\ inFlight = {} /\ DOMAIN read = {}

LEMMA InitTasks == Init => TasksOnce
BY DEF Init, TasksOnce, None

LEMMA StepTasks ==
  ASSUME TasksOnce, Step \/ UNCHANGED vars PROVE TasksOnce'
<1>1. CASE ArticleRead
  <2>0. PICK k \in inFlight : \E a \in Articles[k] :
          /\ read' = With(read, [x \in {k} |-> a])
          /\ inFlight' = inFlight \ {k}
    BY <1>1 DEF ArticleRead
  <2>1. PICK a \in Articles[k] :
          /\ read' = With(read, [x \in {k} |-> a])
          /\ inFlight' = inFlight \ {k}
    BY <2>0
  <2>2. DOMAIN read' = DOMAIN read \cup {k}
    BY <2>1 DEF With
  <2>3. queued' = queued /\ pc' = pc
    BY <1>1 DEF ArticleRead
  <2> QED
    BY <2>1, <2>2, <2>3 DEF TasksOnce
<1>2. CASE ListUpdates \/ ProcessMonth \/ MonthFails
  BY <1>2 DEF TasksOnce, ListUpdates, ProcessMonth, MonthFails, taskVars
<1>3. CASE MonthsDone
  BY <1>3 DEF TasksOnce, MonthsDone
<1>4. CASE Request
  BY <1>4 DEF TasksOnce, Request
<1>5. CASE ArticleFails \/ ArticlesDone
  BY <1>5 DEF TasksOnce, ArticleFails, ArticlesDone, taskVars
<1>6. CASE UNCHANGED vars
  BY <1>6 DEF TasksOnce, vars, taskVars
<1>7. CASE ListRaises
  BY <1>7, RaiseLoses DEF TasksOnce, Lost, None
<1> QED
  BY <1>1, <1>2, <1>3, <1>4, <1>5, <1>6, <1>7 DEF Step

-----------------------------------------------------------------------------
(* The rows of a granular KB *)

\* At every step, not only at the end.
OwnRows ==
  \A p \in patches : p.product \in Frameworks =>
    IF p.kb \in DOMAIN read
    THEN /\ p.url = "article"
         /\ read[p.kb].date # NoDate => p.date = read[p.kb].date
         /\ read[p.kb].os # NoSystem => read[p.kb].os \in p.os
    ELSE p.url = "catalog" /\ p.os = {}

LEMMA InitOwnRows == Init => OwnRows
BY DEF Init, OwnRows

LEMMA StepOwnRows ==
  ASSUME TypeOK, TasksOnce, OwnRows, Step \/ UNCHANGED vars PROVE OwnRows'
<1>1. CASE ProcessMonth
  <2>1. PICK d \in Documents[Update] : patches' = patches \cup Granular(d)
    BY <1>1 DEF ProcessMonth
  <2>2. read' = read /\ DOMAIN read = {}
    BY <1>1 DEF ProcessMonth, TasksOnce
  <2>3. \A r \in Granular(d) : r.url = "catalog" /\ r.os = {}
    BY GranularIs
  <2> QED
    BY <2>1, <2>2, <2>3 DEF OwnRows
<1>2. CASE ArticleRead
  <2>0. PICK k \in inFlight : \E a \in Articles[k] :
          /\ patches' = {Own(p, k, a) : p \in patches} \cup {Bundle(b, k) : b \in Bundles(a)}
          /\ read' = With(read, [x \in {k} |-> a])
    BY <1>2 DEF ArticleRead
  <2>1. PICK a \in Articles[k] :
          /\ patches' = {Own(p, k, a) : p \in patches} \cup {Bundle(b, k) : b \in Bundles(a)}
          /\ read' = With(read, [x \in {k} |-> a])
    BY <2>0
  <2>2. k \notin DOMAIN read /\ k \in KBs
    BY DEF TasksOnce, TypeOK
  <2>3. /\ DOMAIN read' = DOMAIN read \cup {k} /\ read'[k] = a
        /\ \A x \in DOMAIN read : read'[x] = read[x]
    BY <2>1, <2>2 DEF With
  <2>4. SUFFICES ASSUME NEW r \in patches', r.product \in Frameworks
                 PROVE  IF r.kb \in DOMAIN read'
                        THEN /\ r.url = "article"
                             /\ read'[r.kb].date # NoDate => r.date = read'[r.kb].date
                             /\ read'[r.kb].os # NoSystem => read'[r.kb].os \in r.os
                        ELSE r.url = "catalog" /\ r.os = {}
    BY DEF OwnRows
  <2>5. PICK p \in patches : r = Own(p, k, a)
    <3>1. \A b \in Bundles(a) : Bundle(b, k).product \in Systems
      BY <2>2, BundlesAre DEF Bundle
    <3> QED
      BY <2>1, <2>4, <3>1, ValuesAssumption
  <2>6. p \in Patch /\ p.product \in Frameworks
    BY <2>4, <2>5, OwnKeepsProduct DEF TypeOK
  <2>7. CASE p.kb = k
    <3>1. /\ r.kb = k /\ r.url = "article"
          /\ a.date # NoDate => r.date = a.date
          /\ a.os # NoSystem => a.os \in r.os
      BY <2>5, <2>6, <2>7 DEF Own, Patch
    <3> QED
      BY <2>3, <3>1
  <2>8. CASE p.kb # k
    <3>1. r = p
      BY <2>5, <2>8 DEF Own
    <3> QED
      BY <2>3, <2>6, <2>8, <3>1 DEF OwnRows
  <2> QED
    BY <2>7, <2>8
<1>3. CASE UNCHANGED <<patches, read>>
  BY <1>3 DEF OwnRows
<1>4. CASE ListRaises
  BY <1>4, RaiseLoses DEF OwnRows, Lost
<1> QED
  BY <1>1, <1>2, <1>3, <1>4
     DEF Step, ListUpdates, MonthFails, MonthsDone, Request, ArticleFails, ArticlesDone,
         vars, resultVars

-----------------------------------------------------------------------------
(* The rows of a bundle KB *)

\* A bundle KB has one row, which was reported when it was marked as seen, and so has
\* every seen KB unless a link to it broke; an article without a broken link leaves
\* none of its listings unseen.
BundleRows ==
  /\ \A p, q \in patches : p.product \in Systems /\ q.product \in Systems /\ p.kb = q.kb => p = q
  /\ \A p \in patches : p.product \in Systems => p.kb \in seen
BundlesReported ==
  \A k \in seen : (\A g \in DOMAIN read : ~BreaksOn(read[g], k)) =>
    \E p \in patches : p.product \in Systems /\ p.kb = k
BundlesSeen == \A g \in DOMAIN read : Whole(read[g]) => \A k \in KBs : Lists(read[g], k) => k \in seen

LEMMA InitBundles == Init => BundleRows /\ BundlesReported /\ BundlesSeen
BY DEF Init, BundleRows, BundlesReported, BundlesSeen, None

\* An article changes what a row says, never its KB.
LEMMA OwnKeepsKB ==
  ASSUME NEW p, NEW k, NEW a PROVE Own(p, k, a).kb = p.kb
BY DEF Own

\* A listing of a fresh KB is the only fresh one with it.
LEMMA FreshOnce ==
  ASSUME NEW k \in KBs, NEW a \in Articles[k], NEW i \in Fresh(a), NEW j \in Fresh(a),
         a.listings[i].kb = a.listings[j].kb
  PROVE  i = j
<1>1. DOMAIN a.listings = 1 .. Len(a.listings) /\ Len(a.listings) \in Nat
  BY ListingsOf
<1> QED
  BY <1>1 DEF Fresh

\* The first listing of a KB that is not seen yet is fresh.
LEMMA FirstListing ==
  ASSUME NEW g \in KBs, NEW a \in Articles[g], NEW k \in KBs, Lists(a, k), k \notin seen
  PROVE  \E i \in Fresh(a) : a.listings[i].kb = k
<1>1. DOMAIN a.listings = 1 .. Len(a.listings) /\ Len(a.listings) \in Nat
  BY ListingsOf
<1> DEFINE S == {i \in DOMAIN a.listings : a.listings[i].kb = k}
<1>2. S \in SUBSET Nat /\ S # {}
  BY <1>1 DEF Lists
<1>3. PICK m \in S : \A n \in S : m <= n
  BY <1>2, Least
<1>4. \A j \in 1 .. m - 1 : a.listings[j].kb # k
  BY <1>1, <1>3
<1>5. m \in Fresh(a)
  BY <1>3, <1>4 DEF Fresh
<1> QED
  BY <1>3, <1>5

LEMMA MonthKeepsBundles ==
  ASSUME TypeOK, BundleRows, BundlesReported, BundlesSeen, ProcessMonth
  PROVE  BundleRows' /\ BundlesReported' /\ BundlesSeen'
<1>1. PICK d \in Documents[Update] : patches' = patches \cup Granular(d)
  BY DEF ProcessMonth
<1>2. \A r \in Granular(d) : r.product \notin Systems
  BY GranularIs, ValuesAssumption
<1>3. seen' = seen /\ read' = read
  BY DEF ProcessMonth, taskVars
<1>4. BundleRows'
  BY <1>1, <1>2, <1>3 DEF BundleRows
<1>5. BundlesReported' /\ BundlesSeen'
  BY <1>1, <1>3 DEF BundlesReported, BundlesSeen
<1> QED
  BY <1>4, <1>5

LEMMA ArticleKeepsBundles ==
  ASSUME TypeOK, TasksOnce, BundleRows, BundlesReported, BundlesSeen, ArticleRead
  PROVE  BundleRows' /\ BundlesReported' /\ BundlesSeen'
<1>0. PICK k \in inFlight : \E a \in Articles[k] :
        /\ patches' = {Own(p, k, a) : p \in patches} \cup {Bundle(b, k) : b \in Bundles(a)}
        /\ seen' = SeenBy(a)
        /\ read' = With(read, [x \in {k} |-> a])
  BY DEF ArticleRead
<1>1. PICK a \in Articles[k] :
        /\ patches' = {Own(p, k, a) : p \in patches} \cup {Bundle(b, k) : b \in Bundles(a)}
        /\ seen' = SeenBy(a)
        /\ read' = With(read, [x \in {k} |-> a])
  BY <1>0
<1>2. k \notin DOMAIN read /\ k \in KBs
  BY DEF TasksOnce, TypeOK
<1>3. /\ DOMAIN read' = DOMAIN read \cup {k} /\ read'[k] = a
      /\ \A x \in DOMAIN read : read'[x] = read[x]
  BY <1>1, <1>2 DEF With
<1>4. seen' = seen \cup {a.listings[i].kb : i \in Reached(a)} /\ seen \subseteq KBs
  BY <1>1 DEF SeenBy, TypeOK
<1>5. \A i \in Reached(a) : i \in Fresh(a) /\ i \in DOMAIN a.listings /\ a.listings[i].kb \notin seen
  BY DEF Reached, Fresh
<1>6. \A b \in Bundles(a) : \E i \in Reached(a) : b = a.listings[i]
  BY <1>2, BundlesAre
<1>7. ASSUME NEW b \in Bundles(a)
      PROVE  /\ Bundle(b, k).kb = b.kb /\ Bundle(b, k).product \in Systems
             /\ b.kb \notin seen /\ b.kb \in seen'
  <2>1. b.os \in Systems
    BY <1>2, BundlesAre
  <2>2. PICK i \in Reached(a) : b = a.listings[i]
    BY <1>6
  <2>3. b.kb \notin seen /\ b.kb \in seen'
    BY <1>4, <1>5, <2>2
  <2> QED
    BY <2>1, <2>3 DEF Bundle
<1>8. \A r \in patches' : \/ \E p \in patches : r = Own(p, k, a) /\ r.kb = p.kb /\ r.product = p.product
                          \/ \E b \in Bundles(a) : r = Bundle(b, k)
  BY <1>1, OwnKeepsKB, OwnKeepsProduct
<1>9. \A p \in patches' : p.product \in Systems => p.kb \in seen'
  BY <1>4, <1>7, <1>8 DEF BundleRows
<1>10. ASSUME NEW r \in patches', NEW t \in patches',
              r.product \in Systems, t.product \in Systems, r.kb = t.kb
       PROVE  r = t
  <2>1. CASE /\ \E p \in patches : r = Own(p, k, a) /\ r.kb = p.kb /\ r.product = p.product
             /\ \E p \in patches : t = Own(p, k, a) /\ t.kb = p.kb /\ t.product = p.product
    <3>1. PICK p \in patches : r = Own(p, k, a) /\ r.kb = p.kb /\ r.product = p.product
      BY <2>1
    <3>2. PICK q \in patches : t = Own(q, k, a) /\ t.kb = q.kb /\ t.product = q.product
      BY <2>1
    <3>3. p = q
      BY <1>10, <3>1, <3>2 DEF BundleRows
    <3> QED
      BY <3>1, <3>2, <3>3
  <2>2. CASE /\ \E p \in patches : r = Own(p, k, a) /\ r.kb = p.kb /\ r.product = p.product
             /\ \E b \in Bundles(a) : t = Bundle(b, k)
    <3>1. r.kb \in seen
      BY <1>10, <2>2 DEF BundleRows
    <3>2. t.kb \notin seen
      BY <1>7, <2>2
    <3> QED
      BY <1>10, <3>1, <3>2
  <2>3. CASE /\ \E b \in Bundles(a) : r = Bundle(b, k)
             /\ \E p \in patches : t = Own(p, k, a) /\ t.kb = p.kb /\ t.product = p.product
    <3>1. t.kb \in seen
      BY <1>10, <2>3 DEF BundleRows
    <3>2. r.kb \notin seen
      BY <1>7, <2>3
    <3> QED
      BY <1>10, <3>1, <3>2
  <2>4. CASE /\ \E b \in Bundles(a) : r = Bundle(b, k)
             /\ \E b \in Bundles(a) : t = Bundle(b, k)
    <3>1. PICK b \in Bundles(a) : r = Bundle(b, k)
      BY <2>4
    <3>2. PICK c \in Bundles(a) : t = Bundle(c, k)
      BY <2>4
    <3>3. PICK i \in Reached(a) : b = a.listings[i]
      BY <1>6
    <3>4. PICK j \in Reached(a) : c = a.listings[j]
      BY <1>6
    <3>5. i = j
      BY <1>2, <1>5, <1>7, <1>10, <3>1, <3>2, <3>3, <3>4, FreshOnce
    <3> QED
      BY <3>1, <3>2, <3>3, <3>4, <3>5
  <2> QED
    BY <1>8, <2>1, <2>2, <2>3, <2>4
<1>11. BundleRows'
  BY <1>9, <1>10 DEF BundleRows
<1>12. ASSUME NEW h \in seen', \A g \in DOMAIN read' : ~BreaksOn(read'[g], h)
       PROVE  \E p \in patches' : p.product \in Systems /\ p.kb = h
  <2>1. CASE h \in seen
    <3>1. \A g \in DOMAIN read : ~BreaksOn(read[g], h)
      BY <1>3, <1>12
    <3>2. PICK p \in patches : p.product \in Systems /\ p.kb = h
      BY <2>1, <3>1 DEF BundlesReported
    <3>3. Own(p, k, a) \in patches'
      BY <1>1
    <3> QED
      BY <3>2, <3>3, OwnKeepsKB, OwnKeepsProduct
  <2>2. CASE h \notin seen
    <3>1. PICK i \in Reached(a) : a.listings[i].kb = h
      BY <1>4, <2>2
    <3>2. ~a.listings[i].broken
      BY <1>3, <1>5, <1>12, <3>1 DEF BreaksOn
    <3>3. a.listings[i] \in Bundles(a)
      BY <3>2 DEF Bundles
    <3> QED
      BY <1>1, <1>7, <3>1, <3>3
  <2> QED
    BY <2>1, <2>2
<1>13. BundlesReported'
  BY <1>12 DEF BundlesReported
<1>14. ASSUME NEW g \in DOMAIN read', Whole(read'[g]), NEW h \in KBs, Lists(read'[g], h)
       PROVE  h \in seen'
  <2>1. CASE g \in DOMAIN read
    BY <1>3, <1>4, <1>14, <2>1 DEF BundlesSeen
  <2>2. CASE g = k /\ h \notin seen
    <3>1. Lists(a, h) /\ Whole(a)
      BY <1>3, <1>14, <2>2
    <3>2. PICK i \in Fresh(a) : a.listings[i].kb = h
      BY <1>2, <2>2, <3>1, FirstListing
    <3>3. i \in Reached(a)
      BY <3>1 DEF Reached, Fresh, Whole
    <3> QED
      BY <1>4, <3>2, <3>3
  <2> QED
    BY <1>3, <1>4, <2>1, <2>2
<1>15. BundlesSeen'
  BY <1>14 DEF BundlesSeen
<1> QED
  BY <1>11, <1>13, <1>15

LEMMA StepBundles ==
  ASSUME TypeOK, TasksOnce, BundleRows, BundlesReported, BundlesSeen, Step \/ UNCHANGED vars
  PROVE  BundleRows' /\ BundlesReported' /\ BundlesSeen'
<1>1. CASE ProcessMonth
  BY <1>1, MonthKeepsBundles
<1>2. CASE ArticleRead
  BY <1>2, ArticleKeepsBundles
<1>3. CASE UNCHANGED <<patches, seen, read>>
  BY <1>3 DEF BundleRows, BundlesReported, BundlesSeen
<1>4. CASE ListRaises
  BY <1>4, RaiseLoses DEF BundleRows, BundlesReported, BundlesSeen, Lost, None
<1> QED
  BY <1>1, <1>2, <1>3, <1>4
     DEF Step, ListUpdates, MonthFails, MonthsDone, Request, ArticleFails, ArticlesDone,
         vars, resultVars, taskVars

\* At the end and before.
LEMMA BundlesOnce ==
  ASSUME TypeOK, BundleRows, BundlesReported, BundlesSeen
  PROVE  EveryBundleIsReportedOnce
<1> SUFFICES ASSUME NEW k \in KBs
             PROVE  LET rows == {p \in patches : p.kb = k /\ p.product \in Systems} IN
                    /\ Cardinality(rows) <= 1
                    /\ (\E g \in DOMAIN read : Lists(read[g], k) /\ Whole(read[g]))
                       /\ (\A g \in DOMAIN read : ~BreaksOn(read[g], k))
                       => Cardinality(rows) = 1
  BY DEF EveryBundleIsReportedOnce
<1> DEFINE rows == {p \in patches : p.kb = k /\ p.product \in Systems}
<1>1. CASE rows = {}
  <2>1. Cardinality(rows) = 0
    BY <1>1, FS_EmptySet
  <2>2. ~ /\ \E g \in DOMAIN read : Lists(read[g], k) /\ Whole(read[g])
          /\ \A g \in DOMAIN read : ~BreaksOn(read[g], k)
    BY <1>1 DEF BundlesReported, BundlesSeen
  <2> QED
    BY <2>1, <2>2
<1>2. CASE rows # {}
  <2>1. PICK p \in rows : TRUE
    BY <1>2
  <2>2. rows = {p}
    BY <2>1 DEF BundleRows
  <2>3. Cardinality(rows) = 1
    BY <2>2, FS_Singleton
  <2> QED
    BY <2>3
<1> QED
  BY <1>1, <1>2

-----------------------------------------------------------------------------
(* The fixes of a document *)

\* The fix a month's hint names: the last one that counts.
LEMMA LastThatCounts ==
  ASSUME NEW u \in DOMAIN Documents, NEW d \in Documents[u], NEW p,
         NEW i \in DOMAIN d.fixes, p \in d.fixes[i].products
  PROVE  \E m \in DOMAIN d.fixes : /\ Counts(d, p, m) /\ HintKB(d, p) = d.fixes[m].kb
                                   /\ \A j \in DOMAIN d.fixes : Counts(d, p, j) => j <= m
<1>1. DOMAIN d.fixes = 1 .. Len(d.fixes) /\ Len(d.fixes) \in Nat
  BY FixesOf
<1> DEFINE S == {j \in DOMAIN d.fixes : p \in d.fixes[j].products}
           C == {j \in DOMAIN d.fixes : Counts(d, p, j)}
<1>2. PICK f \in S : \A j \in S : f <= j
  BY <1>1, Least, S \in SUBSET Nat, S # {}
<1>3. f \in C
  BY <1>1, <1>2 DEF Counts
<1>4. C \in SUBSET (1 .. Len(d.fixes)) /\ C # {}
  BY <1>1, <1>3
<1>5. \E m \in C : \A j \in C : j <= m
  <2> HIDE DEF C
  <2> QED
    BY <1>1, <1>4, Greatest
<1> DEFINE m == CHOOSE m \in C : \A j \in C : j <= m
<1>6. m \in C /\ \A j \in C : j <= m
  BY <1>5
<1>7. HintKB(d, p) = d.fixes[m].kb
  BY DEF HintKB
<1> QED
  BY <1>6, <1>7

\* No fix after one with the hinted KB is new: it would have been the last that counts.
LEMMA HintIsTheLast ==
  ASSUME NEW u \in DOMAIN Documents, NEW d \in Documents[u], NEW p,
         NEW i \in DOMAIN d.fixes, p \in d.fixes[i].products, HintKB(d, p) = d.fixes[i].kb,
         NEW j \in i + 1 .. Len(d.fixes), p \in d.fixes[j].products
  PROVE  Repeats(d, p, j)
<1>1. DOMAIN d.fixes = 1 .. Len(d.fixes) /\ Len(d.fixes) \in Nat
  BY FixesOf
<1>2. PICK m \in DOMAIN d.fixes : /\ Counts(d, p, m) /\ HintKB(d, p) = d.fixes[m].kb
                                  /\ \A n \in DOMAIN d.fixes : Counts(d, p, n) => n <= m
  BY LastThatCounts
<1>3. SUFFICES ASSUME ~Repeats(d, p, j) PROVE FALSE
  OBVIOUS
<1>4. j \in DOMAIN d.fixes /\ i < j
  BY <1>1
<1>5. Counts(d, p, j)
  BY <1>3 DEF Counts, Repeats
<1>6. i \in 1 .. m - 1
  BY <1>1, <1>2, <1>4, <1>5
<1> QED
  BY <1>2, <1>6 DEF Counts

\* The two halves of EveryFixIsReported, for a document: its rows; and its hints,
\* if its month has no other document.
FixesReported(d, rows) ==
  \A i \in DOMAIN d.fixes : \A p \in d.fixes[i].products :
    p \in Frameworks => \E r \in rows : r.product = p /\ r.kb = d.fixes[i].kb
HintsReported(u, d, hs) ==
  \A i \in DOMAIN d.fixes : \A p \in d.fixes[i].products :
    p \in Cores =>
      /\ <<p, Month(u)>> \in DOMAIN hs
      /\ hs[<<p, Month(u)>>] \in KBsFor(d, p)
      /\ hs[<<p, Month(u)>>] = d.fixes[i].kb =>
           \A j \in i + 1 .. Len(d.fixes) : p \in d.fixes[j].products => Repeats(d, p, j)
Alone(u, ds) == ReleaseDate[u] # NoDate /\ \A v \in DOMAIN ds \ {u} : Month(v) # Month(u)

LEMMA FixesAndHints ==
  ASSUME \A u \in DOMAIN docs : /\ FixesReported(docs[u], patches)
                                /\ Alone(u, docs) => HintsReported(u, docs[u], hints)
  PROVE  EveryFixIsReported
BY DEF EveryFixIsReported, FixesReported, HintsReported, Alone

LEMMA FixesOfEveryFix ==
  ASSUME EveryFixIsReported, NEW u \in DOMAIN docs
  PROVE  /\ FixesReported(docs[u], patches)
         /\ Alone(u, docs) => HintsReported(u, docs[u], hints)
<1> DEFINE d == docs[u]
<1>1. ASSUME NEW i \in DOMAIN d.fixes, NEW p \in d.fixes[i].products, p \in Frameworks
      PROVE  \E r \in patches : r.product = p /\ r.kb = d.fixes[i].kb
  BY <1>1, ZenonT(30) DEF EveryFixIsReported
<1>2. ASSUME Alone(u, docs), NEW i \in DOMAIN d.fixes, NEW p \in d.fixes[i].products, p \in Cores
      PROVE  /\ <<p, Month(u)>> \in DOMAIN hints
             /\ hints[<<p, Month(u)>>] \in KBsFor(d, p)
             /\ hints[<<p, Month(u)>>] = d.fixes[i].kb =>
                  \A j \in i + 1 .. Len(d.fixes) : p \in d.fixes[j].products => Repeats(d, p, j)
  BY <1>2 DEF EveryFixIsReported, Alone
<1>3. FixesReported(d, patches)
  BY ONLY <1>1 DEF FixesReported
<1>4. Alone(u, docs) => HintsReported(u, d, hints)
  BY ONLY <1>2 DEF HintsReported
<1> QED
  BY <1>3, <1>4

LEMMA InitFixes == Init => EveryFixIsReported
BY DEF Init, EveryFixIsReported, None

\* The document a month's step has read is reported by it.
LEMMA MonthReports ==
  ASSUME Update \in DOMAIN Documents, Date # NoDate, NEW d \in Documents[Update], NEW hs,
         hs = With(hints, DocHints(d))
  PROVE  HintsReported(Update, d, hs)
<1>1. Month(Update) = MonthOf[Date]
  BY DEF Month, Date
<1> SUFFICES ASSUME NEW i \in DOMAIN d.fixes, NEW p \in d.fixes[i].products, p \in Cores
             PROVE  /\ <<p, Month(Update)>> \in DOMAIN hs
                    /\ hs[<<p, Month(Update)>>] \in KBsFor(d, p)
                    /\ hs[<<p, Month(Update)>>] = d.fixes[i].kb =>
                         \A j \in i + 1 .. Len(d.fixes) : p \in d.fixes[j].products => Repeats(d, p, j)
  BY DEF HintsReported
<1> DEFINE hinted == {q \in Cores : \E n \in DOMAIN d.fixes : q \in d.fixes[n].products}
           key == <<p, MonthOf[Date]>>
<1>2. DocHints(d) = [x \in hinted \X {MonthOf[Date]} |-> HintKB(d, x[1])]
  BY DEF DocHints
<1>3. key \in hinted \X {MonthOf[Date]} /\ key[1] = p
  OBVIOUS
<1> HIDE DEF hinted, key
<1>4. key \in DOMAIN DocHints(d) /\ DocHints(d)[key] = HintKB(d, p)
  BY <1>2, <1>3
<1>5. key \in DOMAIN hs /\ hs[key] = HintKB(d, p)
  BY <1>4 DEF With
<1>6. key = <<p, Month(Update)>>
  BY <1>1 DEF key
<1>7. HintKB(d, p) \in KBsFor(d, p)
  BY LastThatCounts DEF KBsFor, Counts
<1> QED
  BY <1>5, <1>6, <1>7, HintIsTheLast

\* A month's step keeps the hints of every other month.
LEMMA MonthKeepsHints ==
  ASSUME NEW d, NEW p, NEW m, Date # NoDate => m # MonthOf[Date], NEW hs,
         hs = With(hints, DocHints(d)), <<p, m>> \in DOMAIN hints
  PROVE  <<p, m>> \in DOMAIN hs /\ hs[<<p, m>>] = hints[<<p, m>>]
<1>1. <<p, m>> \notin DOMAIN DocHints(d)
  <2>1. CASE Date = NoDate
    BY <2>1 DEF DocHints, None
  <2>2. CASE Date # NoDate
    <3>1. DOMAIN DocHints(d) =
            {q \in Cores : \E n \in DOMAIN d.fixes : q \in d.fixes[n].products} \X {MonthOf[Date]}
      BY <2>2 DEF DocHints
    <3> QED
      BY <2>2, <3>1
  <2> QED
    BY <2>1, <2>2
<1> QED
  BY <1>1 DEF With

LEMMA MonthFixes ==
  ASSUME TypeOK, EveryFixIsReported, ProcessMonth PROVE EveryFixIsReported'
<1>1. Update \in DOMAIN Documents
  BY UpdateIsThere DEF TypeOK, ProcessMonth
<1>2. PICK d \in Documents[Update] :
        /\ docs' = With(docs, [u \in {Update} |-> d])
        /\ patches' = patches \cup Granular(d)
        /\ hints' = With(hints, DocHints(d))
  BY DEF ProcessMonth
<1>3. /\ DOMAIN docs' = DOMAIN docs \cup {Update} /\ docs'[Update] = d
      /\ \A u \in DOMAIN docs : u # Update => docs'[u] = docs[u]
  BY <1>2 DEF With
<1>4. FixesReported(d, patches')
  BY <1>2, GranularHas DEF FixesReported
<1>5. Alone(Update, docs') => HintsReported(Update, d, hints')
  BY <1>1, <1>2, MonthReports DEF Alone, Date
<1>6. ASSUME NEW u \in DOMAIN docs, u # Update
      PROVE  /\ FixesReported(docs[u], patches')
             /\ Alone(u, docs') => HintsReported(u, docs[u], hints')
  <2>1. FixesReported(docs[u], patches')
    BY <1>2, FixesOfEveryFix DEF FixesReported
  <2>2. ASSUME Alone(u, docs') PROVE HintsReported(u, docs[u], hints')
    <3>1. HintsReported(u, docs[u], hints)
      BY <1>3, <2>2, FixesOfEveryFix DEF Alone
    <3>2. Date # NoDate => Month(u) # MonthOf[Date]
      BY <1>3, <1>6, <2>2 DEF Alone, Month, Date
    <3>3. \A p : <<p, Month(u)>> \in DOMAIN hints =>
            <<p, Month(u)>> \in DOMAIN hints' /\ hints'[<<p, Month(u)>>] = hints[<<p, Month(u)>>]
      BY <1>2, <3>2, MonthKeepsHints
    <3> QED
      BY <3>1, <3>3 DEF HintsReported
  <2> QED
    BY <2>1, <2>2
<1>7. \A u \in DOMAIN docs' : /\ FixesReported(docs'[u], patches')
                              /\ Alone(u, docs') => HintsReported(u, docs'[u], hints')
  BY <1>3, <1>4, <1>5, <1>6
<1> QED
  BY <1>7 DEF EveryFixIsReported, FixesReported, HintsReported, Alone

LEMMA ArticleFixes ==
  ASSUME EveryFixIsReported, ArticleRead PROVE EveryFixIsReported'
<1>0. PICK k \in inFlight : \E a \in Articles[k] :
        patches' = {Own(p, k, a) : p \in patches} \cup {Bundle(b, k) : b \in Bundles(a)}
  BY DEF ArticleRead
<1>1. PICK a \in Articles[k] :
        patches' = {Own(p, k, a) : p \in patches} \cup {Bundle(b, k) : b \in Bundles(a)}
  BY <1>0
<1>2. docs' = docs /\ hints' = hints
  BY DEF ArticleRead
<1>3. \A p \in patches : \E r \in patches' : r.product = p.product /\ r.kb = p.kb
  BY <1>1, OwnKeepsKB, OwnKeepsProduct
<1>4. ASSUME NEW u \in DOMAIN docs PROVE FixesReported(docs[u], patches')
  <2>1. FixesReported(docs[u], patches)
    BY FixesOfEveryFix
  <2>2. ASSUME NEW i \in DOMAIN docs[u].fixes, NEW p \in docs[u].fixes[i].products, p \in Frameworks
        PROVE  \E r \in patches' : r.product = p /\ r.kb = docs[u].fixes[i].kb
    <3>1. PICK q \in patches : q.product = p /\ q.kb = docs[u].fixes[i].kb
      BY <2>1, <2>2 DEF FixesReported
    <3> QED
      BY <1>3, <3>1
  <2> QED
    BY <2>2 DEF FixesReported
<1>5. \A u \in DOMAIN docs : Alone(u, docs) => HintsReported(u, docs[u], hints)
  BY FixesOfEveryFix
<1> QED
  BY <1>2, <1>4, <1>5 DEF EveryFixIsReported, FixesReported, HintsReported, Alone

LEMMA StepFixes ==
  ASSUME TypeOK, EveryFixIsReported, Step \/ UNCHANGED vars PROVE EveryFixIsReported'
<1>1. CASE ProcessMonth
  BY <1>1, MonthFixes
<1>2. CASE ArticleRead
  BY <1>2, ArticleFixes
<1>3. CASE UNCHANGED <<patches, hints, docs>>
  BY <1>3 DEF EveryFixIsReported
<1>4. CASE ListRaises
  BY <1>4, RaiseLoses DEF EveryFixIsReported, Lost, None
<1> QED
  BY <1>1, <1>2, <1>3, <1>4
     DEF Step, ListUpdates, MonthFails, MonthsDone, Request, ArticleFails, ArticlesDone,
         vars, resultVars

-----------------------------------------------------------------------------
(* The loop *)

\* A step of the loop is a step of MSRC's fetch(), the end of a fetch(), or none of
\* its business.
LEMMA LoopSteps ==
  ASSUME [LoopStep]_loopVars
  PROVE  \/ Step \/ UNCHANGED vars
         \/ products' = {} /\ patches' = {} /\ at' = 1
BY DEF LoopStep, ReleaseHealth, Msrc, DotNet, SqlServer, NextSource, Forgotten, loopVars

\* The rows of a result have their products in the same result at every step of
\* the loop, so that run_all_fetchers drops none of them, whichever sources came
\* before and whatever became of them.
THEOREM LoopRowsHaveProducts == LoopSpec => []EveryPatchHasItsProduct
<1>1. LoopInit => AtIsPositive /\ EveryPatchHasItsProduct
  BY InitProducts DEF LoopInit
<1>2. ASSUME AtIsPositive, EveryPatchHasItsProduct, [LoopStep]_loopVars
      PROVE  AtIsPositive' /\ EveryPatchHasItsProduct'
  <2>1. CASE Step \/ UNCHANGED vars
    BY <1>2, <2>1, StepKeepsPosition, StepKeepsProducts
  <2>2. CASE products' = {} /\ patches' = {} /\ at' = 1
    BY <2>2 DEF AtIsPositive, EveryPatchHasItsProduct
  <2> QED
    BY <1>2, <2>1, <2>2, LoopSteps
<1> QED
  BY <1>1, <1>2, PTL DEF LoopSpec

\* What holds of a fetch() of the MSRC source at every step, in the loop or out of it.
MsrcInv == TypeOK /\ TasksOnce /\ OwnRows /\ BundleRows /\ BundlesReported /\ BundlesSeen
           /\ EveryFixIsReported

LEMMA InitMsrc == Init => MsrcInv
BY InitTypes, InitTasks, InitOwnRows, InitBundles, InitFixes DEF MsrcInv

LEMMA StepMsrc == MsrcInv /\ (Step \/ UNCHANGED vars) => MsrcInv'
BY StepTypes, StepTasks, StepOwnRows, StepBundles, StepFixes DEF MsrcInv

\* Whichever source it is at, the loop takes a step of the MSRC fetch(), leaves it
\* alone, or lets go of what it held.
LEMMA LoopTakesItsSteps == [LoopStep]_loopVars => Step \/ UNCHANGED vars \/ Init'
<1>1. Forgotten => Init'
  BY DEF Forgotten, Init
<1> QED
  BY <1>1 DEF LoopStep, ReleaseHealth, Msrc, DotNet, SqlServer, NextSource, loopVars

LEMMA LoopKeepsMsrc == LoopSpec => []MsrcInv
<1>1. LoopInit => MsrcInv
  BY InitMsrc DEF LoopInit
<1>2. Init' => MsrcInv'
  BY InitMsrc, PTL
<1>3. MsrcInv /\ [LoopStep]_loopVars => MsrcInv'
  BY <1>2, StepMsrc, LoopTakesItsSteps
<1> QED
  BY <1>1, <1>3, PTL DEF LoopSpec

\* The types of the MSRC fetch() hold throughout the loop: above all, an article is
\* asked for only for a KB whose month has a date (framework_kbs_seen), which the row of
\* a bundle falls back to.
THEOREM MsrcTypes == LoopSpec => []TypeOK
<1>1. MsrcInv => TypeOK
  BY DEF MsrcInv
<1> QED
  BY <1>1, LoopKeepsMsrc, PTL

\* However the articles interleave, fail or repeat each other, the rows of a granular KB
\* are written by the task of its own article and by no other (_handle_one).
THEOREM ArticlesOwnTheirRows == LoopSpec => []RowsFollowTheirArticle
<1>1. MsrcInv => RowsFollowTheirArticle
  BY DEF MsrcInv, OwnRows, RowsFollowTheirArticle
<1> QED
  BY <1>1, LoopKeepsMsrc, PTL

\* seen_bundle_kbs makes one row of a bundle KB out of any number of articles that list
\* it, in any order of their answers, and loses none that a whole article lists.
THEOREM BundlesAreReportedOnce == LoopSpec => []EveryBundleIsReportedOnce
<1>1. MsrcInv => EveryBundleIsReportedOnce
  BY BundlesOnce DEF MsrcInv
<1> QED
  BY <1>1, LoopKeepsMsrc, PTL

\* Every fix of every document that was read has its rows, and the hint of a month with
\* one document is its last new KB (_handle_remediation, seen_in_month), whatever months
\* failed around it and wherever the document itself breaks off.
THEOREM FixesAreReported == LoopSpec => []EveryFixIsReported
<1>1. MsrcInv => EveryFixIsReported
  BY DEF MsrcInv
<1> QED
  BY <1>1, LoopKeepsMsrc, PTL

-----------------------------------------------------------------------------
(* The sources that share the FetchResult of FetchResults: each starts from *)
(* an empty one, and only the source the loop is at writes it.              *)

Empty == result = NoResult /\ scan = NoScan /\ walked = <<>> /\ DotNetInit

LEMMA LoopIsAtOne ==
  [LoopStep]_loopVars =>
    \/ Empty'
    \/ /\ source' = source
       /\ \/ At("windows-release-health") /\ ReleaseHealthStep
          \/ At("dotnet-core") /\ DotNetStep
          \/ At("sql-server") /\ SqlServerStep
          \/ UNCHANGED <<pageVars, dotnetVars>>
<1>1. NextSource => Empty'
  BY DEF NextSource, Forgotten, Empty, DotNetInit
<1> QED
  BY <1>1 DEF LoopStep, ReleaseHealth, Msrc, DotNet, SqlServer, loopVars

LEMMA OneAtATime ==
  /\ ~(At("windows-release-health") /\ At("dotnet-core"))
  /\ ~(At("windows-release-health") /\ At("sql-server"))
  /\ ~(At("dotnet-core") /\ At("sql-server"))
BY DEF At

IsResult(r) == DOMAIN r = {"products", "patches", "errors"}

LEMMA NoResultIsOne ==
  /\ IsResult(NoResult) /\ NoResult.products = {} /\ NoResult.patches = {} /\ NoResult.errors = {}
BY DEF IsResult, NoResult

LEMMA ResultListing ==
  ASSUME NEW r, IsResult(r), NEW x
  PROVE  /\ IsResult(ListProduct(r, x)) /\ ListProduct(r, x).products = r.products \cup {x}
         /\ ListProduct(r, x).patches = r.patches /\ ListProduct(r, x).errors = r.errors
BY DEF IsResult, ListProduct

LEMMA ResultAdding ==
  ASSUME NEW r, IsResult(r), NEW x
  PROVE  /\ IsResult(AddPatches(r, x)) /\ AddPatches(r, x).patches = r.patches \cup x
         /\ AddPatches(r, x).products = r.products /\ AddPatches(r, x).errors = r.errors
BY DEF IsResult, AddPatches

LEMMA ResultError ==
  ASSUME NEW r, IsResult(r), NEW x
  PROVE  /\ IsResult(ReportError(r, x)) /\ ReportError(r, x).errors = r.errors \cup {x}
         /\ ReportError(r, x).products = r.products /\ ReportError(r, x).patches = r.patches
BY DEF IsResult, ReportError

-----------------------------------------------------------------------------
(* .NET: the channels *)

\* The rows a channel has once its task was answered, or at once without one.
Rows(i) ==
  IF i \in DOMAIN answered /\ answered[i] # Absent THEN ChannelPatches(walked[i], answered[i])
  ELSE Fallback(walked[i])
Pending == waiting \cup asking

\* A task waits, asks, or has been answered; what the result has of a channel is what
\* its own task was answered.
DotNetTasks ==
  /\ stage \in {"index", "channels", "done", "raised"} /\ IsResult(result)
  /\ walked \in Indexes \cup {<<>>}
  /\ waiting \cap asking = {} /\ Pending \cap DOMAIN answered = {}
  /\ Pending \cup DOMAIN answered = Asked(walked)
  /\ stage = "index" => result = NoResult /\ walked = <<>>
  /\ stage = "done" => Pending = {}
DotNetRows ==
  \A i \in Channels(walked) :
    /\ IsListed(DotNetProduct(walked[i]))
    /\ DotNetProduct(walked[i]) \in result.errors <=> i \in DOMAIN answered /\ answered[i] = Absent
    /\ RowsOf(DotNetProduct(walked[i])) = IF i \in Pending THEN {} ELSE Rows(i)

LEMMA EmptyChannels == Channels(<<>>) = {} /\ Asked(<<>>) = {}
BY DEF Channels, Asked

LEMMA DotNetStarts == Empty => DotNetTasks /\ DotNetRows
BY EmptyChannels, NoResultIsOne DEF Empty, DotNetInit, DotNetTasks, DotNetRows, Pending

\* Two channels are two products.
LEMMA ChannelsDiffer ==
  ASSUME NEW index \in Indexes \cup {<<>>}, NEW i \in Channels(index), NEW j \in Channels(index),
         DotNetProduct(index[i]) = DotNetProduct(index[j])
  PROVE  i = j
<1>1. index[i].version = index[j].version
  BY DEF DotNetProduct
<1> QED
  BY <1>1, IndexAssumption, EmptyChannels DEF Channels

LEMMA PatchesOfChannel ==
  ASSUME NEW c, NEW list
  PROVE  /\ \A p \in Fallback(c) : p.product = DotNetProduct(c)
         /\ \A p \in ChannelPatches(c, list) : p.product = DotNetProduct(c)
         /\ {p.build : p \in Fallback(c)} = {c.latest} \ {Absent}
         /\ list # <<>> => {p.build : p \in ChannelPatches(c, list)} = ToSet(list) \ {Absent}
         /\ list = <<>> => ChannelPatches(c, list) = Fallback(c)
<1>1. \A b : ReleasePatch(c, b).product = DotNetProduct(c) /\ ReleasePatch(c, b).build = b
  BY DEF ReleasePatch
<1>2. /\ \A p \in Fallback(c) : p.product = DotNetProduct(c)
      /\ {p.build : p \in Fallback(c)} = {c.latest} \ {Absent}
  BY <1>1 DEF Fallback
<1>3. list = <<>> => ChannelPatches(c, list) = Fallback(c)
  BY DEF ChannelPatches
<1>4. ASSUME list # <<>>
      PROVE  /\ \A p \in ChannelPatches(c, list) : p.product = DotNetProduct(c)
             /\ {p.build : p \in ChannelPatches(c, list)} = ToSet(list) \ {Absent}
  <2> DEFINE named == ToSet(list) \ {Absent}
  <2>1. ChannelPatches(c, list) = {ReleasePatch(c, b) : b \in named}
    BY <1>4 DEF ChannelPatches
  <2> HIDE DEF named
  <2>2. /\ \A p \in ChannelPatches(c, list) : p.product = DotNetProduct(c)
        /\ {p.build : p \in ChannelPatches(c, list)} = named
    BY <1>1, <2>1
  <2> QED
    BY <2>2 DEF named
<1> QED
  BY <1>2, <1>3, <1>4

LEMMA IndexGivesRows ==
  ASSUME DotNetTasks, ReadIndex PROVE DotNetTasks' /\ DotNetRows'
<1>1. PICK index \in Indexes :
        /\ result' = [result EXCEPT
                       !.products = @ \cup {Plain(DotNetProduct(index[i])) : i \in Channels(index)},
                       !.patches  = @ \cup UNION {Fallback(index[i]) :
                                                  i \in Channels(index) \ Asked(index)}]
        /\ waiting' = Asked(index)
        /\ walked' = index
  BY DEF ReadIndex
<1>2. /\ result = NoResult /\ waiting = {} /\ asking = {} /\ DOMAIN answered = {}
      /\ stage' = "channels" /\ asking' = asking /\ answered' = answered
  BY EmptyChannels DEF ReadIndex, DotNetTasks, Pending
<1>3. /\ IsResult(result')
      /\ result'.products = {Plain(DotNetProduct(index[i])) : i \in Channels(index)}
      /\ result'.patches = UNION {Fallback(index[i]) : i \in Channels(index) \ Asked(index)}
      /\ result'.errors = {}
  BY <1>1, <1>2, NoResultIsOne DEF IsResult
<1>4. DotNetTasks'
  BY <1>1, <1>2, <1>3 DEF DotNetTasks, Pending
<1>5. ASSUME NEW i \in Channels(index)
      PROVE  /\ \E p \in result'.products : p.key = DotNetProduct(index[i])
             /\ {p \in result'.patches : p.product = DotNetProduct(index[i])} =
                  IF i \in Asked(index) THEN {} ELSE Fallback(index[i])
  <2>1. Plain(DotNetProduct(index[i])).key = DotNetProduct(index[i])
    BY DEF Plain
  <2>2. ASSUME NEW j \in Channels(index) \ Asked(index), NEW p \in Fallback(index[j]),
               p.product = DotNetProduct(index[i])
        PROVE  j = i
    BY <2>2, PatchesOfChannel, ChannelsDiffer
  <2>3. \A p \in Fallback(index[i]) : p.product = DotNetProduct(index[i])
    BY PatchesOfChannel
  <2> QED
    BY <1>3, <2>1, <2>2, <2>3
<1>6. DotNetRows'
  BY <1>1, <1>2, <1>3, <1>5 DEF DotNetRows, IsListed, RowsOf, Rows, Pending
<1> QED
  BY <1>4, <1>6

\* An answer of a task gives its channel the rows, and the error if it is none.
LEMMA AnswerGivesRows ==
  ASSUME DotNetTasks, DotNetRows, NEW i \in asking, NEW what, Answer(i, what), IsResult(result'),
         result'.products = result.products,
         result'.patches = result.patches \cup
           (IF what # Absent THEN ChannelPatches(walked[i], what) ELSE Fallback(walked[i])),
         result'.errors =
           IF what = Absent THEN result.errors \cup {DotNetProduct(walked[i])} ELSE result.errors,
         UNCHANGED <<walked, stage, waiting>>, stage = "channels"
  PROVE  DotNetTasks' /\ DotNetRows'
<1>1. /\ DOMAIN answered' = DOMAIN answered \cup {i} /\ answered'[i] = what
      /\ \A j \in DOMAIN answered : j # i => answered'[j] = answered[j]
  BY DEF Answer
<1>2. asking' = asking \ {i} /\ i \notin waiting /\ i \notin DOMAIN answered /\ i \in Channels(walked)
  BY DEF Answer, DotNetTasks, Pending, Asked
<1>3. DotNetTasks'
  BY <1>1, <1>2 DEF DotNetTasks, Pending
<1>4. ASSUME NEW j \in Channels(walked)
      PROVE  /\ IsListed(DotNetProduct(walked[j]))'
             /\ DotNetProduct(walked[j]) \in result'.errors
                  <=> j \in DOMAIN answered' /\ answered'[j] = Absent
             /\ {p \in result'.patches : p.product = DotNetProduct(walked[j])} =
                  IF j \in Pending' THEN {} ELSE Rows(j)'
  <2> DEFINE new == IF what # Absent THEN ChannelPatches(walked[i], what) ELSE Fallback(walked[i])
             old == {p \in result.patches : p.product = DotNetProduct(walked[j])}
  <2>1. \A p \in new : p.product = DotNetProduct(walked[i])
    BY PatchesOfChannel
  <2>2. walked \in Indexes \cup {<<>>}
    BY DEF DotNetTasks
  <2>3. old = IF j \in Pending THEN {} ELSE Rows(j)
    BY DEF DotNetRows, RowsOf
  <2>4. IsListed(DotNetProduct(walked[j]))'
    BY DEF DotNetRows, IsListed
  <2>5. CASE j = i
    <3>1. old = {}
      BY <1>2, <2>3, <2>5 DEF Pending
    <3>2. {p \in result'.patches : p.product = DotNetProduct(walked[j])} = new
      BY <2>1, <2>5, <3>1
    <3>3. Rows(j)' = new /\ j \notin Pending'
      BY <1>1, <1>2, <2>5 DEF Rows, Pending
    <3>4. DotNetProduct(walked[j]) \notin result.errors
      BY <1>2, <2>5 DEF DotNetRows
    <3> QED
      BY <1>1, <2>4, <2>5, <3>2, <3>3, <3>4
  <2>6. CASE j # i
    <3>1. DotNetProduct(walked[j]) # DotNetProduct(walked[i])
      BY <1>2, <2>2, <2>6, ChannelsDiffer
    <3>2. {p \in result'.patches : p.product = DotNetProduct(walked[j])} = old
      BY <2>1, <3>1
    <3>3. Rows(j)' = Rows(j) /\ (j \in Pending' <=> j \in Pending)
      BY <1>1, <1>2, <2>6 DEF Rows, Pending
    <3>4. DotNetProduct(walked[j]) \in result'.errors <=> DotNetProduct(walked[j]) \in result.errors
      BY <3>1
    <3>5. DotNetProduct(walked[j]) \in result.errors <=> j \in DOMAIN answered /\ answered[j] = Absent
      BY DEF DotNetRows
    <3> QED
      BY <1>1, <2>3, <2>4, <2>6, <3>2, <3>3, <3>4, <3>5
  <2> QED
    BY <2>5, <2>6
<1>5. DotNetRows'
  BY <1>4 DEF DotNetRows, RowsOf, IsListed
<1> QED
  BY <1>3, <1>5

LEMMA StepDotNet ==
  ASSUME DotNetTasks, DotNetRows, DotNetStep PROVE DotNetTasks' /\ DotNetRows'
<1>1. CASE ReadIndex
  BY <1>1, IndexGivesRows
<1>2. CASE IndexFails
  <2>1. IsResult(result') /\ walked' = walked /\ walked = <<>> /\ stage' = "done"
    BY <1>2, ResultError DEF IndexFails, DotNetTasks
  <2>2. UNCHANGED <<waiting, asking, answered>>
    BY <1>2 DEF IndexFails
  <2> QED
    BY <2>1, <2>2, EmptyChannels DEF DotNetTasks, DotNetRows, Pending
<1>3. CASE AskChannel
  <2>1. PICK i \in waiting : asking' = asking \cup {i} /\ waiting' = waiting \ {i}
    BY <1>3 DEF AskChannel
  <2>2. Pending' = Pending /\ waiting' \cap asking' = {}
    BY <2>1 DEF Pending, DotNetTasks
  <2>3. UNCHANGED <<result, walked, stage, answered>>
    BY <1>3 DEF AskChannel
  <2> QED
    BY <2>2, <2>3 DEF DotNetTasks, DotNetRows, RowsOf, IsListed, Rows
<1>4. CASE ChannelAnswers
  <2>1. PICK i \in asking : \E list \in Answers[walked[i].version] :
          /\ result' = AddPatches(result, ChannelPatches(walked[i], list))
          /\ Answer(i, list)
    BY <1>4 DEF ChannelAnswers
  <2>2. PICK list \in Answers[walked[i].version] :
          /\ result' = AddPatches(result, ChannelPatches(walked[i], list))
          /\ Answer(i, list)
    BY <2>1
  <2>3. list # Absent
    <3>1. i \in Asked(walked) /\ walked \in Indexes
      BY EmptyChannels DEF DotNetTasks, Pending
    <3>2. walked[i].version \in DOMAIN Answers
      BY <3>1, IndexAssumption DEF Asked, Channels
    <3> QED
      BY <3>2, IndexAssumption
  <2>4. /\ IsResult(result') /\ result'.patches = result.patches \cup ChannelPatches(walked[i], list)
        /\ result'.products = result.products /\ result'.errors = result.errors
    BY <2>2, ResultAdding DEF DotNetTasks
  <2>5. UNCHANGED <<walked, stage, waiting>> /\ stage = "channels"
    BY <1>4 DEF ChannelAnswers
  <2> QED
    BY <2>2, <2>3, <2>4, <2>5, AnswerGivesRows
<1>5. CASE ChannelFails
  <2>1. PICK i \in asking :
          /\ result' = ReportError(AddPatches(result, Fallback(walked[i])), DotNetProduct(walked[i]))
          /\ Answer(i, Absent)
    BY <1>5 DEF ChannelFails, FailedPatches
  <2>2. /\ IsResult(result') /\ result'.patches = result.patches \cup Fallback(walked[i])
        /\ result'.products = result.products
        /\ result'.errors = result.errors \cup {DotNetProduct(walked[i])}
    BY <2>1, ResultAdding, ResultError DEF DotNetTasks
  <2>3. UNCHANGED <<walked, stage, waiting>> /\ stage = "channels"
    BY <1>5 DEF ChannelFails
  <2> QED
    BY <2>1, <2>2, <2>3, AnswerGivesRows
<1>6. CASE Malformed
  BY <1>6, EmptyChannels, NoResultIsOne DEF Malformed, DotNetTasks, DotNetRows, Pending
<1>7. CASE ChannelsDone
  <2>1. UNCHANGED <<result, walked, waiting, asking, answered>> /\ stage' = "done" /\ Pending = {}
        /\ stage = "channels"
    BY <1>7 DEF ChannelsDone, Pending
  <2> QED
    BY <2>1 DEF DotNetTasks, DotNetRows, RowsOf, IsListed, Rows, Pending
<1> QED
  BY <1>1, <1>2, <1>3, <1>4, <1>5, <1>6, <1>7 DEF DotNetStep

LEMMA ChannelsAtTheEnd ==
  ASSUME DotNetTasks, DotNetRows PROVE EveryChannelIsReported
<1> SUFFICES ASSUME stage = "done", NEW i \in Channels(walked)
             PROVE  LET c    == walked[i]
                        rows == {p.build : p \in RowsOf(DotNetProduct(c))}
                        has  == i \in DOMAIN answered
                        list == answered[i]
                    IN /\ IsListed(DotNetProduct(c))
                       /\ DotNetProduct(c) \in result.errors <=> has /\ list = Absent
                       /\ has <=> c.url
                       /\ rows = IF has /\ list # Absent /\ list # <<>> THEN ToSet(list) \ {Absent}
                                 ELSE {c.latest} \ {Absent}
  BY DEF EveryChannelIsReported
<1>1. i \in DOMAIN answered <=> walked[i].url
  BY DEF DotNetTasks, Asked
<1>2. RowsOf(DotNetProduct(walked[i])) = Rows(i)
  BY DEF DotNetTasks, DotNetRows
<1>3. {p.build : p \in Rows(i)} =
        IF i \in DOMAIN answered /\ answered[i] # Absent /\ answered[i] # <<>>
        THEN ToSet(answered[i]) \ {Absent} ELSE {walked[i].latest} \ {Absent}
  BY PatchesOfChannel DEF Rows
<1> QED
  BY <1>1, <1>2, <1>3 DEF DotNetRows

\* Every channel of the index ends with the rows of its own answer or with its latest
\* release, in whatever order the answers come and whichever of them fail (the gather of
\* fetch() and _handle_channel), for any index and any answers.
THEOREM ChannelsAreAllReported == LoopSpec => []ChannelsAreReported
<1> DEFINE Inv == At("dotnet-core") => DotNetTasks /\ DotNetRows
<1>1. LoopInit => Inv
  BY DotNetStarts DEF LoopInit, Empty
<1>2. Empty' => Inv'
  BY DotNetStarts, PTL
<1>3. ASSUME Inv, [LoopStep]_loopVars PROVE Inv'
  <2>1. CASE Empty'
    BY <1>2, <2>1
  <2>2. CASE At("dotnet-core") /\ DotNetStep
    BY <1>3, <2>2, StepDotNet
  <2>3. CASE source' = source /\ UNCHANGED <<pageVars, dotnetVars>>
    BY <1>3, <2>3 DEF At, pageVars, dotnetVars, DotNetTasks, DotNetRows, RowsOf, IsListed, Rows, Pending
  <2>4. CASE /\ source' = source
             /\ At("windows-release-health") \/ At("sql-server")
    <3>1. ~At("dotnet-core")'
      BY <2>4 DEF At
    <3> QED
      BY <3>1
  <2> QED
    BY <1>3, <2>1, <2>2, <2>3, <2>4, LoopIsAtOne
<1>4. Inv => ChannelsAreReported
  BY ChannelsAtTheEnd DEF ChannelsAreReported
<1> QED
  BY <1>1, <1>3, <1>4, PTL DEF LoopSpec

-----------------------------------------------------------------------------
(* A walk over pages *)

\* The elements of some pages.
Parts(pages) == UNION {UNION {pages[g][i] : i \in DOMAIN pages[g]} : g \in DOMAIN pages}
Walk(pages) == Seq(Seq(Parts(pages)))
IsScan == DOMAIN scan = {"open", "section", "label", "eol", "tables"} /\ scan.open \in BOOLEAN
This   == walked[Len(walked)]

LEMMA NoScanIsOne ==
  /\ DOMAIN NoScan = {"open", "section", "label", "eol", "tables"}
  /\ NoScan.open = FALSE /\ NoScan.section = "none" /\ NoScan.label = Absent
  /\ DOMAIN NoScan.eol = {} /\ NoScan.tables = 0
BY DEF NoScan

LEMMA OpenWalks ==
  ASSUME NEW pages, walked \in Walk(pages), Open
  PROVE  /\ walked' \in Walk(pages) /\ Len(walked') = Len(walked) + 1 /\ Len(walked) \in Nat
         /\ This' = <<>> /\ \A n \in 1 .. Len(walked) : walked'[n] = walked[n]
         /\ IsScan' /\ scan'.open /\ scan'.section = "none" /\ scan'.label = Absent
         /\ DOMAIN scan'.eol = {} /\ scan'.tables = 0
<1>1. walked' = Append(walked, <<>>) /\ <<>> \in Seq(Parts(pages))
  BY DEF Open
<1>2. /\ walked' \in Walk(pages) /\ Len(walked') = Len(walked) + 1 /\ Len(walked) \in Nat
      /\ This' = <<>> /\ \A n \in 1 .. Len(walked) : walked'[n] = walked[n]
  BY <1>1 DEF Walk, This
<1>3. scan' = [NoScan EXCEPT !.open = TRUE]
  BY DEF Open
<1> QED
  BY <1>2, <1>3, NoScanIsOne DEF IsScan

LEMMA UnreadableWalks ==
  ASSUME NEW pages, walked \in Walk(pages), NEW page, Unreadable(page)
  PROVE  /\ walked' \in Walk(pages) /\ Len(walked') = Len(walked) + 1 /\ Len(walked) \in Nat
         /\ This' = <<>> /\ \A n \in 1 .. Len(walked) : walked'[n] = walked[n]
<1>1. walked' = Append(walked, <<>>) /\ <<>> \in Seq(Parts(pages))
  BY DEF Unreadable
<1> QED
  BY <1>1 DEF Walk, This

LEMMA Replaced ==
  ASSUME NEW S, NEW f \in Seq(S), NEW n \in 1 .. Len(f), NEW l \in S
  PROVE  LET g == [f EXCEPT ![n] = l]
         IN g \in Seq(S) /\ Len(g) = Len(f) /\ g[n] = l /\ \A m \in 1 .. Len(f) : m # n => g[m] = f[m]
OBVIOUS

LEMMA PassWalks ==
  ASSUME NEW pages, walked \in Walk(pages), Len(walked) > 0, NEW el \in Parts(pages), Pass(el)
  PROVE  /\ walked' \in Walk(pages) /\ Len(walked') = Len(walked)
         /\ This' = Append(This, el)
         /\ \A n \in 1 .. Len(walked) - 1 : walked'[n] = walked[n]
<1> DEFINE S == Seq(Parts(pages))
           l == Append(walked[Len(walked)], el)
<1>1. walked \in Seq(S) /\ walked' = [walked EXCEPT ![Len(walked)] = l]
  BY DEF Pass, Walk
<1>2. Len(walked) \in 1 .. Len(walked) /\ Len(walked) \in Nat
  BY <1>1
<1>3. walked[Len(walked)] \in S
  <2> HIDE DEF S
  <2> QED
    BY <1>1, <1>2
<1>4. l \in S
  BY <1>3
<1> HIDE DEF S, l
<1>5. /\ walked' \in Seq(S) /\ Len(walked') = Len(walked) /\ walked'[Len(walked)] = l
      /\ \A m \in 1 .. Len(walked) : m # Len(walked) => walked'[m] = walked[m]
  BY <1>1, <1>2, <1>4, Replaced
<1>6. \A n \in 1 .. Len(walked) - 1 : n \in 1 .. Len(walked) /\ n # Len(walked)
  BY <1>2
<1> QED
  BY <1>5, <1>6 DEF S, l, Walk, This

\* An element that comes next is one of its page's.
LEMMA ComingIs ==
  ASSUME NEW pages, NEW g \in DOMAIN pages, NEW el \in Coming(pages[g])
  PROVE  /\ scan.open /\ el \in Parts(pages)
         /\ \E i \in DOMAIN pages[g] : el \in pages[g][i]
<1>1. scan.open /\ Len(walked[Len(walked)]) + 1 \in DOMAIN pages[g]
      /\ el \in pages[g][Len(walked[Len(walked)]) + 1]
  BY DEF Coming
<1> QED
  BY <1>1 DEF Parts

LEMMA ListOf ==
  ASSUME NEW U, NEW l \in Seq(U), NEW el \in U
  PROVE  /\ Len(l) \in Nat /\ DOMAIN l = 1 .. Len(l)
         /\ Append(l, el) \in Seq(U) /\ Len(Append(l, el)) = Len(l) + 1
         /\ DOMAIN Append(l, el) = 1 .. Len(l) + 1
         /\ Append(l, el)[Len(l) + 1] = el
         /\ \A i \in 1 .. Len(l) : Append(l, el)[i] = l[i]
OBVIOUS

LEMMA LastOf ==
  ASSUME NEW n \in Nat, NEW S \in SUBSET (1 .. n), S # {}
  PROVE  Max(S) \in S /\ \A j \in S : j <= Max(S)
<1>1. \E m \in S : \A j \in S : j <= m
  BY Greatest
<1>2. \E m \in S : \A j \in S : m >= j
  BY <1>1
<1> QED
  BY <1>2 DEF Max

\* What follows an element changes nothing above it; a heading is the last one as far
\* as itself, and any other element leaves the last one as it was.
LEMMA HeadingsGrow ==
  ASSUME NEW U, NEW l \in Seq(U), NEW el \in U
  PROVE  /\ \A i \in 1 .. Len(l) : Headings(Append(l, el), i) = Headings(l, i)
         /\ el.kind # "h2" => Headings(Append(l, el), Len(l) + 1) = Headings(l, Len(l))
         /\ el.kind = "h2" => /\ Headings(Append(l, el), Len(l) + 1) # {}
                              /\ Max(Headings(Append(l, el), Len(l) + 1)) = Len(l) + 1
         /\ \A i \in 0 .. Len(l) : Headings(l, i) # {} => Max(Headings(l, i)) \in 1 .. i
<1> DEFINE k == Append(l, el)
<1>1. /\ Len(l) \in Nat /\ DOMAIN l = 1 .. Len(l) /\ k[Len(l) + 1] = el
      /\ \A i \in 1 .. Len(l) : k[i] = l[i]
  BY ListOf
<1> HIDE DEF k
<1>2. \A i \in 1 .. Len(l) : Headings(k, i) = Headings(l, i)
  BY <1>1 DEF Headings
<1>3. el.kind # "h2" => Headings(k, Len(l) + 1) = Headings(l, Len(l))
  BY <1>1 DEF Headings
<1>4. ASSUME el.kind = "h2"
      PROVE  Headings(k, Len(l) + 1) # {} /\ Max(Headings(k, Len(l) + 1)) = Len(l) + 1
  <2>1. Len(l) + 1 \in Headings(k, Len(l) + 1) /\ Headings(k, Len(l) + 1) \subseteq 1 .. Len(l) + 1
    BY <1>1, <1>4 DEF Headings
  <2>2. /\ Max(Headings(k, Len(l) + 1)) \in Headings(k, Len(l) + 1)
        /\ \A j \in Headings(k, Len(l) + 1) : j <= Max(Headings(k, Len(l) + 1))
    BY <1>1, <2>1, LastOf, Len(l) + 1 \in Nat
  <2> QED
    BY <1>1, <2>1, <2>2
<1>5. ASSUME NEW i \in 0 .. Len(l), Headings(l, i) # {} PROVE Max(Headings(l, i)) \in 1 .. i
  <2>1. i \in Nat /\ Headings(l, i) \in SUBSET (1 .. i)
    BY <1>1 DEF Headings
  <2> QED
    BY <1>5, <2>1, LastOf
<1> QED
  BY <1>2, <1>3, <1>4, <1>5 DEF k

-----------------------------------------------------------------------------
(* SQL Server: the versions *)

\* The rows a page shows, as the version's.
ShownRows(v, l) == {SqlPatch(v, l[x[1]].rows[x[2]], TrackAt(l, x[1])) : x \in Shown(l)}
HasTable(l) == \E i \in DOMAIN l : l[i].kind = "builds"

\* A row of a page is the place of a build table and the place in it.
IsAt(l, x) == /\ x = <<x[1], x[2]>> /\ x[1] \in DOMAIN l /\ l[x[1]].kind = "builds"
              /\ x[2] \in DOMAIN l[x[1]].rows

LEMMA RowsAreAt ==
  ASSUME NEW l, NEW x PROVE x \in SqlRowsAt(l) <=> IsAt(l, x)
<1>1. ASSUME x \in SqlRowsAt(l) PROVE IsAt(l, x)
  <2>1. PICK i \in DOMAIN l : l[i].kind = "builds" /\ x \in {i} \X DOMAIN l[i].rows
    BY <1>1 DEF SqlRowsAt
  <2>3. x \in {i} \X DOMAIN l[i].rows
    BY <2>1
  <2>2. x = <<x[1], x[2]>> /\ x[1] = i /\ x[2] \in DOMAIN l[i].rows
    BY <2>3
  <2> QED
    BY <2>1, <2>2 DEF IsAt
<1>2. ASSUME IsAt(l, x) PROVE x \in SqlRowsAt(l)
  <2>1. x \in {x[1]} \X DOMAIN l[x[1]].rows
    BY <1>2 DEF IsAt
  <2> QED
    BY <1>2, <2>1 DEF SqlRowsAt, IsAt
<1> QED
  BY <1>1, <1>2

\* Is x a row of the table el that follows n elements?
IsNew(n, el, x) == /\ x = <<x[1], x[2]>> /\ el.kind = "builds"
                   /\ x[1] = n + 1 /\ x[2] \in DOMAIN el.rows

\* k is the page l with el below it.
Grown(l, el, k) ==
  /\ \A x : x \in SqlRowsAt(k) <=> x \in SqlRowsAt(l) \/ IsNew(Len(l), el, x)
  /\ \A x \in SqlRowsAt(l) : /\ x[1] \in 1 .. Len(l) /\ k[x[1]] = l[x[1]]
                             /\ TrackAt(k, x[1]) = TrackAt(l, x[1])
  /\ \A x : IsNew(Len(l), el, x) => /\ x[1] = Len(l) + 1 /\ k[x[1]] = el
                                    /\ TrackAt(k, x[1]) = TrackAt(l, Len(l))
  /\ HasTable(k) <=> HasTable(l) \/ el.kind = "builds"

LEMMA Above ==
  ASSUME NEW n \in Nat, NEW a \in 1 .. n, NEW b, b = n + 1 PROVE a < b /\ ~(b < b)
OBVIOUS

LEMMA SqlRowsGrow ==
  ASSUME NEW l \in Seq(Parts(VersionElements)), NEW el \in Parts(VersionElements),
         NEW k, k = Append(l, el)
  PROVE  Grown(l, el, k)
<1>1. /\ Len(l) \in Nat /\ DOMAIN l = 1 .. Len(l) /\ DOMAIN k = 1 .. Len(l) + 1
      /\ k[Len(l) + 1] = el /\ \A i \in 1 .. Len(l) : k[i] = l[i]
  BY ListOf
<1>2. /\ \A i \in 1 .. Len(l) : Headings(k, i) = Headings(l, i)
      /\ el.kind # "h2" => Headings(k, Len(l) + 1) = Headings(l, Len(l))
      /\ \A i \in 0 .. Len(l) : Headings(l, i) # {} => Max(Headings(l, i)) \in 1 .. i
  BY HeadingsGrow
<1>3. ASSUME NEW i \in 1 .. Len(l) PROVE TrackAt(k, i) = TrackAt(l, i)
  <2>1. Headings(l, i) # {} => Max(Headings(l, i)) \in 1 .. Len(l)
    BY <1>1, <1>2
  <2> QED
    BY <1>1, <1>2, <2>1 DEF TrackAt
<1>4. ASSUME el.kind = "builds" PROVE TrackAt(k, Len(l) + 1) = TrackAt(l, Len(l))
  <2>1. Headings(l, Len(l)) # {} => Max(Headings(l, Len(l))) \in 1 .. Len(l)
    BY <1>1, <1>2
  <2>2. Headings(k, Len(l) + 1) = Headings(l, Len(l))
    BY <1>2, <1>4
  <2> QED
    BY <1>1, <2>1, <2>2 DEF TrackAt
<1>5. /\ Len(l) + 1 \in 1 .. Len(l) + 1 /\ Len(l) + 1 \notin 1 .. Len(l)
      /\ 1 .. Len(l) + 1 = 1 .. Len(l) \cup {Len(l) + 1}
  BY <1>1
<1>6. \A x : IsNew(Len(l), el, x) => x[1] = Len(l) + 1
  BY DEF IsNew
<1>7. \A x : IsAt(k, x) <=> IsAt(l, x) \/ IsNew(Len(l), el, x)
  BY <1>1, <1>5, <1>6 DEF IsAt, IsNew
<1>8. \A x \in SqlRowsAt(l) : x[1] \in 1 .. Len(l)
  BY <1>1, RowsAreAt DEF IsAt
<1>9. HasTable(k) <=> HasTable(l) \/ el.kind = "builds"
  BY <1>1, <1>5 DEF HasTable
<1>10. \A x : IsNew(Len(l), el, x) => k[x[1]] = el /\ TrackAt(k, x[1]) = TrackAt(l, Len(l))
  BY <1>1, <1>4, <1>6 DEF IsNew
<1> QED
  BY <1>1, <1>3, <1>6, <1>7, <1>8, <1>9, <1>10, RowsAreAt DEF Grown

\* An element that is no build table shows no rows.
LEMMA OthersShowNothing ==
  ASSUME NEW l \in Seq(Parts(VersionElements)), NEW el \in Parts(VersionElements),
         el.kind # "builds", NEW v, NEW k, k = Append(l, el)
  PROVE  /\ ShownRows(v, k) = ShownRows(v, l)
         /\ Breaks(k) <=> Breaks(l)
         /\ HasTable(k) <=> HasTable(l)
<1>1. Grown(l, el, k) /\ \A x : ~IsNew(Len(l), el, x)
  BY SqlRowsGrow DEF IsNew
<1>2. /\ \A x : x \in SqlRowsAt(k) <=> x \in SqlRowsAt(l)
      /\ HasTable(k) <=> HasTable(l)
      /\ \A x \in SqlRowsAt(l) : k[x[1]] = l[x[1]] /\ TrackAt(k, x[1]) = TrackAt(l, x[1])
  BY <1>1 DEF Grown
<1>3. \A x \in SqlRowsAt(l) : BreaksAt(k, x) <=> BreaksAt(l, x)
  BY <1>2 DEF BreaksAt
<1>4. Breaks(k) <=> Breaks(l)
  BY <1>2, <1>3 DEF Breaks
<1>5. Shown(k) = Shown(l)
  BY <1>2, <1>3 DEF Shown
<1>6. \A x \in Shown(l) : x \in SqlRowsAt(l)
  BY DEF Shown
<1>7. ShownRows(v, k) = ShownRows(v, l)
  BY <1>2, <1>5, <1>6 DEF ShownRows
<1> QED
  BY <1>2, <1>4, <1>7

\* A build table shows its rows as far as it goes, under the last heading.
LEMMA TablesShowRows ==
  ASSUME NEW l \in Seq(Parts(VersionElements)), ~Breaks(l), NEW v,
         NEW el \in Parts(VersionElements), el.kind = "builds", DOMAIN el.rows \subseteq Nat,
         NEW k, k = Append(l, el)
  PROVE  /\ ShownRows(v, k) =
              ShownRows(v, l) \cup {SqlPatch(v, row, TrackAt(l, Len(l))) : row \in TableRows(el.rows)}
         /\ Breaks(k) <=> \E j \in DOMAIN el.rows : BreaksOff(el.rows[j])
         /\ HasTable(k)
<1> DEFINE New(x) == IsNew(Len(l), el, x)
<1>1. Grown(l, el, k)
  BY SqlRowsGrow
<1>2. DOMAIN el.rows \subseteq Nat
  OBVIOUS
<1>3. Len(l) \in Nat
  BY ListOf
<1>4. /\ \A x : x \in SqlRowsAt(k) <=> x \in SqlRowsAt(l) \/ New(x)
      /\ \A x \in SqlRowsAt(l) : /\ x[1] \in 1 .. Len(l) /\ k[x[1]] = l[x[1]]
                                 /\ TrackAt(k, x[1]) = TrackAt(l, x[1])
      /\ \A x : New(x) => /\ x[1] = Len(l) + 1 /\ k[x[1]] = el
                          /\ TrackAt(k, x[1]) = TrackAt(l, Len(l))
      /\ HasTable(k)
  BY <1>1 DEF Grown
<1>5. /\ \A x : New(x) => x[2] \in DOMAIN el.rows
      /\ \A j \in DOMAIN el.rows : New(<<Len(l) + 1, j>>) /\ <<Len(l) + 1, j>>[2] = j
  BY DEF IsNew
<1> HIDE DEF New
<1>6. \A x \in SqlRowsAt(l) : ~BreaksAt(k, x)
  BY <1>4 DEF Breaks, BreaksAt
<1>7. \A x : New(x) => (BreaksAt(k, x) <=> BreaksOff(el.rows[x[2]]))
  BY <1>4 DEF BreaksAt
<1>8. Breaks(k) <=> \E j \in DOMAIN el.rows : BreaksOff(el.rows[j])
  <2>1. ASSUME NEW x \in SqlRowsAt(k), BreaksAt(k, x)
        PROVE  \E j \in DOMAIN el.rows : BreaksOff(el.rows[j])
    BY <1>4, <1>5, <1>6, <1>7, <2>1
  <2>2. ASSUME NEW j \in DOMAIN el.rows, BreaksOff(el.rows[j])
        PROVE  Breaks(k)
    <3> DEFINE x == <<Len(l) + 1, j>>
    <3>1. New(x) /\ x[2] = j
      BY <1>5
    <3> HIDE DEF x
    <3> QED
      BY <1>4, <1>7, <2>2, <3>1 DEF Breaks
  <2> QED
    BY <2>1, <2>2 DEF Breaks
<1>9. ASSUME NEW x \in SqlRowsAt(l), NEW y, New(y) PROVE Precedes(x, y)
  <2>1. x[1] \in 1 .. Len(l) /\ y[1] = Len(l) + 1
    BY <1>4, <1>9
  <2>2. x[1] < y[1]
    BY <1>3, <2>1, Above
  <2> QED
    BY <2>2 DEF Precedes
<1>10. ASSUME NEW x, NEW y, New(x), New(y) PROVE Precedes(x, y) <=> x[2] < y[2]
  <2>1. x[1] = Len(l) + 1 /\ y[1] = Len(l) + 1
    BY <1>4, <1>10
  <2>2. ~(Len(l) + 1 < Len(l) + 1)
    BY <1>3
  <2>3. ~(x[1] < y[1]) /\ x[1] = y[1]
    BY <2>1, <2>2, Zenon
  <2> QED
    BY <2>3 DEF Precedes
<1>11. \A x \in SqlRowsAt(l) : x \in Shown(k) <=> x \in Shown(l)
  <2>1. \A x \in SqlRowsAt(l) : x \in Shown(l) <=> SqlUsable(l[x[1]].rows[x[2]])
    BY DEF Shown, Breaks
  <2>2. \A x \in SqlRowsAt(l) : x \in Shown(k) <=> SqlUsable(k[x[1]].rows[x[2]])
    BY <1>4, <1>6, <1>9 DEF Shown
  <2> QED
    BY <1>4, <2>1, <2>2
<1>12. ASSUME NEW x, New(x)
       PROVE  x \in Shown(k) <=>
                SqlUsable(el.rows[x[2]]) /\ \A h \in DOMAIN el.rows : BreaksOff(el.rows[h]) => x[2] < h
  <2>1. x \in Shown(k) <=>
          SqlUsable(el.rows[x[2]]) /\ \A y \in SqlRowsAt(k) : BreaksAt(k, y) => Precedes(x, y)
    BY <1>4, <1>12 DEF Shown
  <2>2. ASSUME \A y \in SqlRowsAt(k) : BreaksAt(k, y) => Precedes(x, y),
               NEW h \in DOMAIN el.rows, BreaksOff(el.rows[h])
        PROVE  x[2] < h
    <3> DEFINE y == <<Len(l) + 1, h>>
    <3>1. New(y) /\ y[2] = h
      BY <1>5
    <3> HIDE DEF y
    <3>2. Precedes(x, y)
      BY <1>4, <1>7, <2>2, <3>1
    <3> QED
      BY <1>10, <1>12, <3>1, <3>2
  <2>3. ASSUME \A h \in DOMAIN el.rows : BreaksOff(el.rows[h]) => x[2] < h,
               NEW y \in SqlRowsAt(k), BreaksAt(k, y)
        PROVE  Precedes(x, y)
    <3>1. New(y)
      BY <1>4, <1>6, <2>3
    <3> QED
      BY <1>5, <1>7, <1>10, <1>12, <2>3, <3>1
  <2> QED
    BY <2>1, <2>2, <2>3
<1>13. \A row : row \in TableRows(el.rows) <=> \E x : New(x) /\ x \in Shown(k) /\ row = el.rows[x[2]]
  <2>1. ASSUME NEW row \in TableRows(el.rows)
        PROVE  \E x : New(x) /\ x \in Shown(k) /\ row = el.rows[x[2]]
    <3>1. PICK j \in DOMAIN el.rows :
            /\ row = el.rows[j] /\ SqlUsable(el.rows[j])
            /\ \A h \in DOMAIN el.rows : BreaksOff(el.rows[h]) => j < h
      BY DEF TableRows
    <3> DEFINE x == <<Len(l) + 1, j>>
    <3>2. New(x) /\ x[2] = j
      BY <1>5
    <3> HIDE DEF x
    <3> QED
      BY <1>12, <3>1, <3>2
  <2>2. ASSUME NEW x, New(x), x \in Shown(k) PROVE el.rows[x[2]] \in TableRows(el.rows)
    BY <1>5, <1>12, <2>2 DEF TableRows
  <2> QED
    BY <2>1, <2>2
<1> DEFINE Of(x) == SqlPatch(v, k[x[1]].rows[x[2]], TrackAt(k, x[1]))
<1>14. ShownRows(v, k) = {Of(x) : x \in Shown(k)}
  BY DEF ShownRows
<1>15. ShownRows(v, l) = {Of(x) : x \in Shown(l)}
  <2>1. \A x \in Shown(l) : x \in SqlRowsAt(l)
    BY DEF Shown
  <2> QED
    BY <1>4, <2>1 DEF ShownRows
<1>16. \A x : New(x) => Of(x) = SqlPatch(v, el.rows[x[2]], TrackAt(l, Len(l)))
  BY <1>4
<1>17. Shown(k) \subseteq SqlRowsAt(k) /\ Shown(l) \subseteq SqlRowsAt(l)
  BY DEF Shown
<1> HIDE DEF Of
<1>18. ShownRows(v, k) =
         ShownRows(v, l) \cup {SqlPatch(v, row, TrackAt(l, Len(l))) : row \in TableRows(el.rows)}
  <2>1. ASSUME NEW p \in ShownRows(v, k)
        PROVE  p \in ShownRows(v, l) \/ \E row \in TableRows(el.rows) : p = SqlPatch(v, row, TrackAt(l, Len(l)))
    <3>1. PICK x \in Shown(k) : p = Of(x)
      BY <1>14, <2>1
    <3>2. CASE x \in SqlRowsAt(l)
      BY <1>11, <1>15, <3>1, <3>2
    <3>3. CASE New(x)
      BY <1>13, <1>16, <3>1, <3>3
    <3> QED
      BY <1>4, <1>17, <3>2, <3>3
  <2>2. ASSUME NEW p \in ShownRows(v, l) PROVE p \in ShownRows(v, k)
    BY <1>11, <1>14, <1>15, <1>17
  <2>3. ASSUME NEW row \in TableRows(el.rows)
        PROVE  SqlPatch(v, row, TrackAt(l, Len(l))) \in ShownRows(v, k)
    <3>1. PICK x : New(x) /\ x \in Shown(k) /\ row = el.rows[x[2]]
      BY <1>13
    <3> QED
      BY <1>14, <1>16, <3>1
  <2> QED
    BY <2>1, <2>2, <2>3
<1> QED
  BY <1>4, <1>8, <1>18

\* What the result has of a version: nothing, what its finished page comes to, or what
\* its page has shown so far.
Unmentioned(v) == /\ ~IsListed(SqlProduct(v)) /\ SqlProduct(v) \notin result.errors
                  /\ RowsOf(SqlProduct(v)) = {}
Accounted(v, l) == /\ IsListed(SqlProduct(v)) <=> IsUsable(l)
                   /\ SqlProduct(v) \in result.errors <=> ~IsUsable(l)
                   /\ RowsOf(SqlProduct(v)) = ShownRows(v, l)
SoFar(v, l) == /\ ~IsListed(SqlProduct(v)) /\ SqlProduct(v) \notin result.errors
               /\ RowsOf(SqlProduct(v)) = ShownRows(v, l) /\ ~Breaks(l)
               /\ scan.label = TrackAt(l, Len(l))
               /\ scan.tables \in Nat
               /\ scan.tables = 0 <=> ~HasTable(l)

\* The pages before this one are finished, this one is as far as it goes, and of those
\* after it there is nothing.
SqlInv ==
  /\ IsResult(result) /\ IsScan /\ walked \in Walk(VersionElements)
  /\ Len(walked) <= Len(Versions) /\ (scan.open => Len(walked) > 0)
  /\ \A n \in 1 .. Len(Versions) :
       /\ n > Len(walked) => Unmentioned(Versions[n])
       /\ n < Len(walked) \/ (n = Len(walked) /\ ~scan.open) => Accounted(Versions[n], walked[n])
       /\ n = Len(walked) /\ scan.open => SoFar(Versions[n], walked[n])

Untouched(v) == /\ IsListed(SqlProduct(v))' <=> IsListed(SqlProduct(v))
                /\ (SqlProduct(v) \in result.errors)' <=> SqlProduct(v) \in result.errors
                /\ RowsOf(SqlProduct(v))' = RowsOf(SqlProduct(v))

LEMMA EmptyPage ==
  ASSUME NEW v
  PROVE  /\ ShownRows(v, <<>>) = {} /\ ~Breaks(<<>>) /\ ~HasTable(<<>>)
         /\ TrackAt(<<>>, 0) = Absent /\ ~IsUsable(<<>>)
<1>1. SqlRowsAt(<<>>) = {}
  BY DEF SqlRowsAt
<1>2. Headings(<<>>, 0) = {}
  BY DEF Headings
<1> QED
  BY <1>1, <1>2 DEF ShownRows, Shown, Breaks, HasTable, TrackAt, IsUsable

LEMMA SqlStarts == Empty => SqlInv
<1>1. Empty => walked \in Walk(VersionElements) /\ Len(walked) = 0
  BY DEF Empty, Walk
<1>2. Len(Versions) \in Nat
  BY VersionsAssumption
<1>3. Empty => IsResult(result) /\ IsScan /\ ~scan.open
  BY NoResultIsOne, NoScanIsOne DEF Empty, IsScan
<1>4. Empty => \A v : Unmentioned(v)
  BY NoResultIsOne DEF Empty, Unmentioned, IsListed, RowsOf
<1>5. \A n \in 1 .. Len(Versions) : n > 0 /\ ~(n < 0) /\ n # 0
  BY <1>2
<1> QED
  BY <1>1, <1>2, <1>3, <1>4, <1>5 DEF SqlInv

\* A step on the page of a version keeps the rest of the walk as it is.
LEMMA OnePageMoves ==
  ASSUME SqlInv, NEW m \in 1 .. Len(Versions),
         m = Len(walked) \/ (m = Len(walked) + 1 /\ ~scan.open),
         IsResult(result'), IsScan', walked' \in Walk(VersionElements), Len(walked') = m,
         \A n \in 1 .. m - 1 : walked'[n] = walked[n],
         \A n \in 1 .. Len(Versions) : n # m => Untouched(Versions[n]),
         scan'.open => SoFar(Versions[m], walked[m])',
         ~scan'.open => Accounted(Versions[m], walked[m])'
  PROVE  SqlInv'
<1>1. Len(walked) \in Nat /\ m \in Nat /\ Len(Versions) \in Nat
  BY VersionsAssumption DEF SqlInv, Walk
<1>2. ASSUME NEW n \in 1 .. Len(Versions), n > m PROVE Unmentioned(Versions[n])'
  <2>1. n > Len(walked) /\ n # m
    BY <1>1, <1>2
  <2> QED
    BY <2>1 DEF SqlInv, Untouched, Unmentioned
<1>3. ASSUME NEW n \in 1 .. Len(Versions), n < m PROVE Accounted(Versions[n], walked[n])'
  <2>1. /\ n < Len(walked) \/ (n = Len(walked) /\ ~scan.open)
        /\ n # m /\ n \in 1 .. m - 1
    BY <1>1, <1>3
  <2>2. Accounted(Versions[n], walked[n]) /\ Untouched(Versions[n]) /\ walked'[n] = walked[n]
    BY <2>1 DEF SqlInv
  <2> QED
    BY <2>2 DEF Untouched, Accounted
<1> QED
  BY <1>1, <1>2, <1>3 DEF SqlInv

\* What a step writes for one version is nothing to the others.
LEMMA OthersUntouched ==
  ASSUME NEW m \in 1 .. Len(Versions), NEW n \in 1 .. Len(Versions), n # m,
         \/ result' = result
         \/ /\ IsResult(result)
            /\ \/ result' = ReportError(result, SqlProduct(Versions[m]))
               \/ result' = ListProduct(result, Plain(SqlProduct(Versions[m])))
               \/ \E ps : /\ \A p \in ps : p.product = SqlProduct(Versions[m])
                         /\ LET taken == AddPatches(result, ps)
                            IN result' = taken \/ result' = ReportError(taken, SqlProduct(Versions[m]))
  PROVE  Untouched(Versions[n])
<1> DEFINE a == SqlProduct(Versions[m])
           b == SqlProduct(Versions[n])
<1>1. a # b
  <2>1. Versions[m] # Versions[n]
    BY VersionsAssumption
  <2> QED
    BY <2>1 DEF SqlProduct
<1>2. Plain(a).key = a
  BY DEF Plain
<1> HIDE DEF a, b
<1>3. CASE result' = result
  BY <1>3 DEF Untouched, IsListed, RowsOf
<1>4. CASE IsResult(result) /\ result' = ReportError(result, a)
  BY <1>1, <1>4, ResultError DEF Untouched, IsListed, RowsOf, b
<1>5. CASE IsResult(result) /\ result' = ListProduct(result, Plain(a))
  BY <1>1, <1>2, <1>5, ResultListing DEF Untouched, IsListed, RowsOf, b
<1>6. ASSUME IsResult(result), NEW ps, \A p \in ps : p.product = a,
             LET taken == AddPatches(result, ps) IN result' = taken \/ result' = ReportError(taken, a)
      PROVE  Untouched(Versions[n])
  <2>1. {p \in result.patches \cup ps : p.product = b} = {p \in result.patches : p.product = b}
    BY <1>1, <1>6
  <2>2. PICK taken : taken = AddPatches(result, ps)
    OBVIOUS
  <2>3. /\ IsResult(taken) /\ taken.patches = result.patches \cup ps /\ taken.products = result.products
        /\ taken.errors = result.errors
    BY <1>6, <2>2, ResultAdding
  <2>4. result' = taken \/ result' = ReportError(taken, a)
    BY <1>6, <2>2
  <2>5. /\ result'.patches = result.patches \cup ps /\ result'.products = result.products
        /\ b \in result'.errors <=> b \in result.errors
    BY <1>1, <2>3, <2>4, ResultError
  <2> QED
    BY <2>1, <2>5 DEF Untouched, IsListed, RowsOf, b
<1> QED
  BY <1>3, <1>4, <1>5, <1>6 DEF a

\* What the open page is, and what an element that is passed makes of it.
LEMMA ThisSqlPage ==
  ASSUME SqlInv, scan.open, NEW m, m = Len(walked)
  PROVE  /\ m \in Nat /\ m > 0 /\ m \in 1 .. Len(Versions) /\ ThisVersion = Versions[m]
         /\ This \in Seq(Parts(VersionElements)) /\ SoFar(Versions[m], This)
<1>1. m \in Nat /\ m > 0 /\ m \in 1 .. Len(Versions)
  BY VersionsAssumption DEF SqlInv, Walk
<1>2. Versions[m] \in DOMAIN VersionElements
  BY <1>1, VersionsAssumption
<1>3. walked[m] \in Seq(Parts(VersionElements))
  <2> DEFINE S == Seq(Parts(VersionElements))
  <2>1. walked \in Seq(S) /\ m \in 1 .. Len(walked)
    BY <1>1 DEF SqlInv, Walk
  <2> HIDE DEF S
  <2>2. walked[m] \in S
    BY <2>1
  <2> QED
    BY <2>2 DEF S
<1>4. SoFar(Versions[m], walked[m])
  BY <1>1 DEF SqlInv
<1>5. This = walked[m] /\ ThisVersion = Versions[m]
  BY DEF This, ThisVersion
<1> QED
  BY <1>1, <1>3, <1>4, <1>5

LEMMA SqlElementIs ==
  ASSUME SqlInv, NEW el \in SqlElements
  PROVE  /\ scan.open /\ el \in Parts(VersionElements)
         /\ el.kind = "builds" => DOMAIN el.rows \subseteq Nat
<1>1. scan.open
  BY DEF SqlElements, Coming
<1>2. PICK m : m = Len(walked)
  OBVIOUS
<1>3. m \in 1 .. Len(Versions) /\ ThisVersion = Versions[m]
  BY <1>1, <1>2, ThisSqlPage
<1>4. ThisVersion \in DOMAIN VersionElements
  BY <1>3, VersionsAssumption
<1>5. el \in Coming(VersionElements[ThisVersion])
  BY DEF SqlElements
<1>6. el \in Parts(VersionElements) /\ \E i \in DOMAIN VersionElements[ThisVersion] : el \in VersionElements[ThisVersion][i]
  BY <1>4, <1>5, ComingIs
<1> QED
  BY <1>1, <1>4, <1>6, VersionsAssumption

LEMMA ElementPassed ==
  ASSUME SqlInv, NEW el \in SqlElements, Pass(el), NEW m, m = Len(walked), NEW l, l = This
  PROVE  /\ scan.open
         /\ walked' \in Walk(VersionElements) /\ Len(walked') = m /\ walked'[m] = Append(l, el)
         /\ \A n \in 1 .. m - 1 : walked'[n] = walked[n]
<1>1. scan.open /\ el \in Parts(VersionElements)
  BY SqlElementIs
<1>2. m > 0 /\ walked \in Walk(VersionElements)
  BY <1>1 DEF SqlInv
<1> QED
  BY <1>1, <1>2, PassWalks DEF This

LEMMA HeadingAsTrack ==
  ASSUME NEW l \in Seq(Parts(VersionElements)), NEW el \in Parts(VersionElements),
         NEW k, k = Append(l, el)
  PROVE  TrackAt(k, Len(k)) = IF el.kind = "h2" THEN el.track ELSE TrackAt(l, Len(l))
<1>1. /\ Len(l) \in Nat /\ Len(k) = Len(l) + 1 /\ k[Len(l) + 1] = el
      /\ \A i \in 1 .. Len(l) : k[i] = l[i]
  BY ListOf
<1>2. CASE el.kind = "h2"
  <2>1. Headings(k, Len(l) + 1) # {} /\ Max(Headings(k, Len(l) + 1)) = Len(l) + 1
    BY <1>2, HeadingsGrow
  <2> QED
    BY <1>1, <1>2, <2>1 DEF TrackAt
<1>3. CASE el.kind # "h2"
  <2>1. Headings(k, Len(l) + 1) = Headings(l, Len(l))
    BY <1>3, HeadingsGrow
  <2>2. Headings(l, Len(l)) # {} => Max(Headings(l, Len(l))) \in 1 .. Len(l)
    BY <1>1, HeadingsGrow, Len(l) \in 0 .. Len(l)
  <2> QED
    BY <1>1, <1>3, <2>1, <2>2 DEF TrackAt
<1> QED
  BY <1>2, <1>3

LEMMA NoTablePassed ==
  ASSUME SqlInv, NEW el \in SqlElements, el.kind # "builds", Pass(el), result' = result,
         IsScan', scan'.open, scan'.tables = scan.tables,
         scan'.label = IF el.kind = "h2" THEN el.track ELSE scan.label
  PROVE  SqlInv'
<1>1. PICK m : m = Len(walked)
  OBVIOUS
<1>2. PICK l : l = This
  OBVIOUS
<1>3. PICK k : k = Append(l, el)
  OBVIOUS
<1>4. /\ scan.open
      /\ walked' \in Walk(VersionElements) /\ Len(walked') = m /\ walked'[m] = k
      /\ \A n \in 1 .. m - 1 : walked'[n] = walked[n]
  BY <1>1, <1>2, <1>3, ElementPassed
<1>5. /\ m \in 1 .. Len(Versions) /\ l \in Seq(Parts(VersionElements)) /\ SoFar(Versions[m], l)
      /\ el \in Parts(VersionElements)
  BY <1>1, <1>2, <1>4, ThisSqlPage, SqlElementIs
<1>6. PICK v : v = Versions[m]
  OBVIOUS
<1>7. ShownRows(v, k) = ShownRows(v, l) /\ (Breaks(k) <=> Breaks(l)) /\ (HasTable(k) <=> HasTable(l))
  BY <1>3, <1>5, OthersShowNothing
<1>8. TrackAt(k, Len(k)) = IF el.kind = "h2" THEN el.track ELSE TrackAt(l, Len(l))
  BY <1>3, <1>5, HeadingAsTrack
<1>9. SoFar(v, k)'
  BY <1>5, <1>6, <1>7, <1>8 DEF SoFar, IsListed, RowsOf
<1>10. \A n \in 1 .. Len(Versions) : n # m => Untouched(Versions[n])
  BY <1>5, OthersUntouched
<1>11. SoFar(Versions[m], walked[m])' /\ IsResult(result')
  BY <1>4, <1>6, <1>9 DEF SqlInv
<1> QED
  BY <1>1, <1>4, <1>5, <1>10, <1>11, OnePageMoves

LEMMA TablePassed ==
  ASSUME SqlInv, BuildTable PROVE SqlInv'
<1>0. PICK el \in SqlElements :
        /\ el.kind = "builds" /\ Pass(el)
        /\ LET taken == AddPatches(result, {SqlPatch(ThisVersion, row, scan.label) : row \in TableRows(el.rows)})
           IN IF \E i \in DOMAIN el.rows : BreaksOff(el.rows[i])
              THEN scan' = NoScan /\ result' = Broken(taken, ThisVersion)
              ELSE scan' = [scan EXCEPT !.tables = @ + 1] /\ result' = taken
  BY DEF BuildTable
<1>1. PICK m : m = Len(walked)
  OBVIOUS
<1>2. PICK l : l = This
  OBVIOUS
<1>3. PICK k : k = Append(l, el)
  OBVIOUS
<1>4. /\ scan.open
      /\ walked' \in Walk(VersionElements) /\ Len(walked') = m /\ walked'[m] = k
      /\ \A n \in 1 .. m - 1 : walked'[n] = walked[n]
  BY <1>0, <1>1, <1>2, <1>3, ElementPassed
<1>5. /\ m \in 1 .. Len(Versions) /\ l \in Seq(Parts(VersionElements)) /\ SoFar(Versions[m], l)
      /\ ThisVersion = Versions[m]
  BY <1>1, <1>2, <1>4, ThisSqlPage
<1>6. PICK v : v = Versions[m]
  OBVIOUS
<1>7. PICK ps : ps = {SqlPatch(v, row, scan.label) : row \in TableRows(el.rows)}
  OBVIOUS
<1>8. PICK taken : taken = AddPatches(result, ps)
  OBVIOUS
<1>9. /\ IsResult(taken) /\ taken.patches = result.patches \cup ps
      /\ taken.products = result.products /\ taken.errors = result.errors
  BY <1>8, ResultAdding DEF SqlInv
<1>10. /\ ShownRows(v, k) = ShownRows(v, l) \cup ps
       /\ HasTable(k)
       /\ Breaks(k) <=> \E i \in DOMAIN el.rows : BreaksOff(el.rows[i])
  <2>1. el \in Parts(VersionElements) /\ DOMAIN el.rows \subseteq Nat
    BY <1>0, SqlElementIs
  <2>2. ~Breaks(l) /\ scan.label = TrackAt(l, Len(l))
    BY <1>5 DEF SoFar
  <2>3. ps = {SqlPatch(v, row, TrackAt(l, Len(l))) : row \in TableRows(el.rows)}
    BY <1>7, <2>2
  <2> QED
    BY <1>0, <1>3, <1>5, <2>1, <2>2, <2>3, TablesShowRows
<1>11. \A p \in ps : p.product = SqlProduct(v)
  BY <1>7 DEF SqlPatch
<1>12. IsResult(result) /\ IsScan
  BY DEF SqlInv
<1>13. CASE \E i \in DOMAIN el.rows : BreaksOff(el.rows[i])
  <2>1. scan' = NoScan /\ result' = ReportError(taken, SqlProduct(v))
    BY <1>0, <1>5, <1>6, <1>7, <1>8, <1>13 DEF Broken
  <2>2. /\ IsResult(result') /\ result'.patches = result.patches \cup ps
        /\ result'.products = result.products /\ result'.errors = result.errors \cup {SqlProduct(v)}
    BY <1>9, <2>1, ResultError
  <2>3. IsScan' /\ ~scan'.open
    BY <2>1, NoScanIsOne DEF IsScan
  <2>4. ~IsUsable(k)
    BY <1>10, <1>13 DEF IsUsable
  <2>5. Accounted(v, k)'
    BY <1>5, <1>6, <1>10, <1>11, <2>2, <2>4 DEF SoFar, Accounted, IsListed, RowsOf
  <2>6. \A n \in 1 .. Len(Versions) : n # m => Untouched(Versions[n])
    BY <1>5, <1>6, <1>8, <1>11, <1>12, <2>1, OthersUntouched
  <2>7. Accounted(Versions[m], walked[m])'
    BY <1>4, <1>6, <2>5
  <2> QED
    BY <1>1, <1>4, <1>5, <2>2, <2>3, <2>6, <2>7, OnePageMoves
<1>14. CASE ~\E i \in DOMAIN el.rows : BreaksOff(el.rows[i])
  <2>1. scan' = [scan EXCEPT !.tables = @ + 1] /\ result' = taken
    BY <1>0, <1>5, <1>6, <1>7, <1>8, <1>14
  <2>2. /\ IsScan' /\ scan'.open /\ scan'.label = scan.label /\ scan'.tables = scan.tables + 1
    BY <1>4, <1>12, <2>1 DEF IsScan
  <2>3. scan'.tables \in Nat /\ scan'.tables # 0
    BY <1>5, <2>2 DEF SoFar
  <2>4. TrackAt(k, Len(k)) = TrackAt(l, Len(l))
    BY <1>0, <1>3, <1>5, SqlElementIs, HeadingAsTrack
  <2>5. SoFar(v, k)'
    BY <1>5, <1>6, <1>9, <1>10, <1>11, <1>14, <2>1, <2>2, <2>3, <2>4 DEF SoFar, IsListed, RowsOf
  <2>6. \A n \in 1 .. Len(Versions) : n # m => Untouched(Versions[n])
    BY <1>5, <1>6, <1>8, <1>11, <1>12, <2>1, OthersUntouched
  <2>7. SoFar(Versions[m], walked[m])' /\ IsResult(result')
    BY <1>4, <1>6, <1>9, <2>1, <2>5
  <2> QED
    BY <1>1, <1>4, <1>5, <2>2, <2>6, <2>7, OnePageMoves
<1> QED
  BY <1>13, <1>14

LEMMA PageCloses ==
  ASSUME SqlInv, CloseVersion PROVE SqlInv'
<1>1. PICK m : m = Len(walked)
  OBVIOUS
<1>2. PICK l : l = This
  OBVIOUS
<1>3. /\ scan.open /\ scan' = NoScan /\ walked' = walked
      /\ result' = IF scan.tables = 0 THEN ReportError(result, SqlProduct(ThisVersion))
                   ELSE ListProduct(result, Plain(SqlProduct(ThisVersion)))
  BY DEF CloseVersion
<1>4. /\ m \in 1 .. Len(Versions) /\ SoFar(Versions[m], l) /\ ThisVersion = Versions[m]
  BY <1>1, <1>2, <1>3, ThisSqlPage
<1>5. PICK v : v = Versions[m]
  OBVIOUS
<1>6. IsResult(result) /\ walked \in Walk(VersionElements)
  BY DEF SqlInv
<1>7. IsUsable(l) <=> scan.tables # 0
  BY <1>4 DEF SoFar, IsUsable, HasTable
<1>8. /\ IsResult(result')
      /\ Accounted(v, l)'
  <2>1. CASE scan.tables = 0
    <3>1. result' = ReportError(result, SqlProduct(v))
      BY <1>3, <1>4, <1>5, <2>1
    <3>2. /\ IsResult(result') /\ result'.patches = result.patches
          /\ result'.products = result.products /\ result'.errors = result.errors \cup {SqlProduct(v)}
      BY <1>6, <3>1, ResultError
    <3> QED
      BY <1>4, <1>5, <1>7, <2>1, <3>2 DEF SoFar, Accounted, IsListed, RowsOf
  <2>2. CASE scan.tables # 0
    <3>1. result' = ListProduct(result, Plain(SqlProduct(v)))
      BY <1>3, <1>4, <1>5, <2>2
    <3>2. /\ IsResult(result') /\ result'.patches = result.patches
          /\ result'.products = result.products \cup {Plain(SqlProduct(v))} /\ result'.errors = result.errors
      BY <1>6, <3>1, ResultListing
    <3>3. Plain(SqlProduct(v)).key = SqlProduct(v)
      BY DEF Plain
    <3> QED
      BY <1>4, <1>5, <1>7, <2>2, <3>2, <3>3 DEF SoFar, Accounted, IsListed, RowsOf
  <2> QED
    BY <2>1, <2>2
<1>9. \A n \in 1 .. Len(Versions) : n # m => Untouched(Versions[n])
  BY <1>3, <1>4, <1>6, OthersUntouched
<1>10. IsScan' /\ ~scan'.open
  BY <1>3, NoScanIsOne DEF IsScan
<1>11. Accounted(Versions[m], walked[m])'
  BY <1>1, <1>2, <1>3, <1>5, <1>8 DEF This
<1>12. \A n \in 1 .. m - 1 : walked'[n] = walked[n]
  BY <1>3
<1> QED
  BY <1>1, <1>3, <1>4, <1>6, <1>8, <1>9, <1>10, <1>11, <1>12, OnePageMoves

LEMMA StepSql ==
  ASSUME SqlInv, SqlServerStep PROVE SqlInv'
<1>0. PICK m : m = Len(walked)
  OBVIOUS
<1>1. /\ m \in Nat /\ Len(Versions) \in Nat /\ m <= Len(Versions)
      /\ IsResult(result) /\ IsScan /\ walked \in Walk(VersionElements)
  BY <1>0, VersionsAssumption DEF SqlInv, Walk
<1>2. ASSUME MoreVersions
      PROVE  /\ m + 1 \in 1 .. Len(Versions) /\ Unmentioned(Versions[m + 1])
             /\ m + 1 - 1 = m
  <2>1. m + 1 \in 1 .. Len(Versions) /\ m + 1 > Len(walked) /\ m + 1 - 1 = m
    BY <1>0, <1>1, <1>2 DEF MoreVersions
  <2> QED
    BY <2>1 DEF SqlInv
<1>3. CASE OpenVersion
  <2> DEFINE w == Versions[m + 1]
  <2>1. Open /\ MoreVersions /\ ~scan.open /\ result' = result
    BY <1>3 DEF OpenVersion, Open
  <2>2. /\ walked' \in Walk(VersionElements) /\ Len(walked') = m + 1
        /\ This' = <<>> /\ \A n \in 1 .. m : walked'[n] = walked[n]
        /\ IsScan' /\ scan'.open /\ scan'.label = Absent /\ scan'.tables = 0
    BY <1>0, <1>1, <2>1, OpenWalks
  <2>3. walked'[m + 1] = <<>> /\ Len(<<>>) = 0
    BY <2>2 DEF This
  <2>4. /\ ShownRows(w, <<>>) = {} /\ ~Breaks(<<>>) /\ ~HasTable(<<>>) /\ TrackAt(<<>>, Len(<<>>)) = Absent
    BY <2>3, EmptyPage
  <2>5. Unmentioned(w)'
    BY <1>2, <2>1 DEF Unmentioned, IsListed, RowsOf
  <2>6. SoFar(w, <<>>)'
    <3> HIDE DEF w
    <3> QED
      BY <2>2, <2>4, <2>5 DEF SoFar, Unmentioned
  <2>7. \A n \in 1 .. Len(Versions) : n # m + 1 => Untouched(Versions[n])
    BY <1>2, <2>1, OthersUntouched
  <2>8. IsResult(result') /\ SoFar(Versions[m + 1], walked[m + 1])'
    BY <1>1, <2>1, <2>3, <2>6
  <2> QED
    BY <1>0, <1>2, <2>1, <2>2, <2>7, <2>8, OnePageMoves
<1>4. CASE VersionFails
  <2> DEFINE w == Versions[m + 1]
  <2>1. Unreadable(SqlProduct(w)) /\ MoreVersions
    BY <1>0, <1>4 DEF VersionFails
  <2>2. ~scan.open /\ scan' = scan /\ result' = ReportError(result, SqlProduct(w))
    BY <2>1 DEF Unreadable
  <2>3. /\ walked' \in Walk(VersionElements) /\ Len(walked') = m + 1
        /\ This' = <<>> /\ \A n \in 1 .. m : walked'[n] = walked[n]
    BY <1>0, <1>1, <2>1, UnreadableWalks
  <2>4. walked'[m + 1] = <<>> /\ IsScan' /\ ~scan'.open
    BY <1>1, <2>2, <2>3 DEF This, IsScan
  <2>5. /\ IsResult(result') /\ result'.errors = result.errors \cup {SqlProduct(w)}
        /\ result'.products = result.products /\ result'.patches = result.patches
    BY <1>1, <2>2, ResultError
  <2>6. ShownRows(w, <<>>) = {} /\ ~IsUsable(<<>>)
    BY EmptyPage
  <2>7. Accounted(w, <<>>)'
    <3> HIDE DEF w
    <3> QED
      BY <1>2, <2>1, <2>5, <2>6 DEF Unmentioned, Accounted, IsListed, RowsOf, w
  <2>8. \A n \in 1 .. Len(Versions) : n # m + 1 => Untouched(Versions[n])
    BY <1>1, <1>2, <2>1, <2>2, OthersUntouched
  <2>9. Accounted(Versions[m + 1], walked[m + 1])'
    BY <2>4, <2>7
  <2> QED
    BY <1>0, <1>2, <2>1, <2>2, <2>3, <2>4, <2>5, <2>8, <2>9, OnePageMoves
<1>5. CASE MeetTrack
  <2>1. PICK el \in SqlElements :
          el.kind = "h2" /\ Pass(el) /\ scan' = [scan EXCEPT !.label = el.track] /\ result' = result
    BY <1>5 DEF MeetTrack
  <2>2. scan.open
    BY <2>1, SqlElementIs
  <2>3. IsScan' /\ scan'.open /\ scan'.tables = scan.tables /\ scan'.label = el.track
    BY <1>1, <2>1, <2>2 DEF IsScan
  <2> QED
    BY <2>1, <2>3, NoTablePassed
<1>6. CASE SkipTable
  <2>1. PICK el \in SqlElements : el.kind = "other" /\ Pass(el) /\ scan' = scan /\ result' = result
    BY <1>6 DEF SkipTable
  <2>2. scan.open
    BY <2>1, SqlElementIs
  <2>3. IsScan' /\ scan'.open /\ scan'.tables = scan.tables /\ scan'.label = scan.label
    BY <1>1, <2>1, <2>2 DEF IsScan
  <2> QED
    BY <2>1, <2>3, NoTablePassed
<1> QED
  BY <1>3, <1>4, <1>5, <1>6, TablePassed, PageCloses DEF SqlServerStep

\* Every version whose page is finished is listed or in the errors, never both, with all
\* the rows its page showed before it broke off, each typed by the last heading above its
\* table (_fetch_version of sql_server.py), for any versions and any pages.
THEOREM VersionsAllAccountedFor == LoopSpec => []VersionsAreAccountedFor
<1> DEFINE Inv == At("sql-server") => SqlInv
<1>1. LoopInit => Inv
  BY SqlStarts DEF LoopInit, Empty
<1>2. Empty' => Inv'
  BY SqlStarts, PTL
<1>3. ASSUME Inv, [LoopStep]_loopVars PROVE Inv'
  <2>1. CASE Empty'
    BY <1>2, <2>1
  <2>2. CASE At("sql-server") /\ SqlServerStep
    BY <1>3, <2>2, StepSql
  <2>3. CASE source' = source /\ UNCHANGED pageVars
    BY <1>3, <2>3 DEF At, pageVars, SqlInv, IsScan, Unmentioned, Accounted, SoFar, IsListed, RowsOf
  <2>4. CASE /\ source' = source
             /\ At("windows-release-health") \/ At("dotnet-core")
    <3>1. ~At("sql-server")'
      BY <2>4 DEF At
    <3> QED
      BY <3>1
  <2> QED
    BY <1>3, <2>1, <2>2, <2>3, <2>4, LoopIsAtOne
<1>4. Inv => VersionsAreAccountedFor
  <2> SUFFICES ASSUME SqlInv, NEW n \in DOMAIN walked, n = Len(walked) => ~scan.open
               PROVE  /\ IsListed(SqlProduct(Versions[n])) <=> IsUsable(walked[n])
                      /\ SqlProduct(Versions[n]) \in result.errors <=> ~IsUsable(walked[n])
                      /\ RowsOf(SqlProduct(Versions[n])) = ShownRows(Versions[n], walked[n])
    BY DEF VersionsAreAccountedFor, EveryVersionIsAccountedFor, ShownRows
  <2>1. /\ DOMAIN walked = 1 .. Len(walked) /\ Len(walked) \in Nat /\ Len(Versions) \in Nat
        /\ Len(walked) <= Len(Versions)
    BY VersionsAssumption DEF SqlInv, Walk
  <2>2. n \in 1 .. Len(Versions) /\ (n < Len(walked) \/ (n = Len(walked) /\ ~scan.open))
    BY <2>1
  <2> QED
    BY <2>2 DEF SqlInv, Accounted
<1> QED
  BY <1>1, <1>3, <1>4, PTL DEF LoopSpec

-----------------------------------------------------------------------------
(* Release health: the pages *)

\* The elements that tell of support ends, and the tables that are read.
IsSummary(l, j) == l[j].kind = "table" /\ SectionAt(l, j) = "summary" /\ "version" \in l[j].columns
Reads(l, el) == /\ el.kind = "table" /\ SectionAt(l, Len(l)) = "history"
                /\ IsHistoryTable(el) /\ HasColumns(el)
ToldOn(page, l) == UNION {Told(page, l, i) : i \in ReadAt(l)}

\* k is the page l with el below it: what stands above el stays what it was, and el is
\* in the section of the last heading, its own if it is one.
Below(l, el, k) ==
  /\ Len(l) \in Nat /\ Len(k) = Len(l) + 1 /\ DOMAIN l = 1 .. Len(l) /\ DOMAIN k = 1 .. Len(l) + 1
  /\ k[Len(l) + 1] = el
  /\ \A i \in 1 .. Len(l) : k[i] = l[i] /\ SectionAt(k, i) = SectionAt(l, i)
  /\ SectionAt(k, Len(l) + 1) = IF el.kind = "h2" THEN el.section ELSE SectionAt(l, Len(l))

LEMMA PageGrows ==
  ASSUME NEW U, NEW l \in Seq(U), NEW el \in U, NEW k, k = Append(l, el)
  PROVE  Below(l, el, k)
<1>1. /\ Len(l) \in Nat /\ Len(k) = Len(l) + 1 /\ DOMAIN l = 1 .. Len(l) /\ DOMAIN k = 1 .. Len(l) + 1
      /\ k[Len(l) + 1] = el /\ \A i \in 1 .. Len(l) : k[i] = l[i]
  BY ListOf
<1>2. /\ \A i \in 1 .. Len(l) : Headings(k, i) = Headings(l, i)
      /\ el.kind # "h2" => Headings(k, Len(l) + 1) = Headings(l, Len(l))
      /\ el.kind = "h2" => Headings(k, Len(l) + 1) # {} /\ Max(Headings(k, Len(l) + 1)) = Len(l) + 1
      /\ \A i \in 0 .. Len(l) : Headings(l, i) # {} => Max(Headings(l, i)) \in 1 .. i
  BY HeadingsGrow
<1>3. ASSUME NEW i \in 1 .. Len(l) PROVE SectionAt(k, i) = SectionAt(l, i)
  <2>1. Headings(l, i) # {} => Max(Headings(l, i)) \in 1 .. Len(l)
    BY <1>1, <1>2
  <2> QED
    BY <1>1, <1>2, <2>1 DEF SectionAt
<1>4. CASE el.kind = "h2"
  <2>1. SectionAt(k, Len(l) + 1) = el.section
    BY <1>1, <1>2, <1>4 DEF SectionAt
  <2> QED
    BY <1>1, <1>3, <1>4, <2>1 DEF Below
<1>5. CASE el.kind # "h2"
  <2>1. Headings(l, Len(l)) # {} => Max(Headings(l, Len(l))) \in 1 .. Len(l)
    BY <1>1, <1>2
  <2>2. Headings(k, Len(l) + 1) = Headings(l, Len(l))
    BY <1>2, <1>5
  <2>3. SectionAt(k, Len(l) + 1) = SectionAt(l, Len(l))
    BY <1>1, <2>1, <2>2 DEF SectionAt
  <2> QED
    BY <1>1, <1>3, <1>5, <2>3 DEF Below
<1> QED
  BY <1>4, <1>5

\* What a page tells above an element is what it told without it.
LEMMA AboveIsKept ==
  ASSUME NEW l, NEW el, NEW k, Below(l, el, k), NEW i \in 1 .. Len(l)
  PROVE  /\ \A page : Directly(page, k, i) = Directly(page, l, i) /\ Told(page, k, i) = Told(page, l, i)
         /\ i \in ReadAt(k) <=> i \in ReadAt(l)
         /\ SummariesAt(k, i) = SummariesAt(l, i) /\ SummariesAt(l, i) \subseteq 1 .. Len(l)
<1>1. /\ k[i] = l[i] /\ SectionAt(k, i) = SectionAt(l, i) /\ i \in DOMAIN l /\ i \in DOMAIN k
      /\ i > 1 => i - 1 \in 1 .. Len(l) /\ k[i - 1] = l[i - 1]
  BY DEF Below
<1>2. \A page : Directly(page, k, i) = Directly(page, l, i)
  BY <1>1 DEF Directly
<1>3. \A page : Told(page, k, i) = Told(page, l, i)
  BY <1>1, <1>2 DEF Told
<1>4. i \in ReadAt(k) <=> i \in ReadAt(l)
  BY <1>1 DEF ReadAt, HistoryAt
<1>5. \A j \in 1 .. i : j \in 1 .. Len(l) /\ k[j] = l[j] /\ SectionAt(k, j) = SectionAt(l, j)
  BY DEF Below
<1>6. SummariesAt(k, i) = SummariesAt(l, i) /\ SummariesAt(l, i) \subseteq 1 .. Len(l)
  BY <1>5 DEF SummariesAt
<1> QED
  BY <1>2, <1>3, <1>4, <1>6

LEMMA ReadBelow ==
  ASSUME NEW l, NEW el, NEW k, Below(l, el, k), NEW page
  PROVE  /\ \A i : i \in ReadAt(k) <=> i \in ReadAt(l) \/ (i = Len(l) + 1 /\ Reads(l, el))
         /\ ReadAt(l) \subseteq 1 .. Len(l)
         /\ ToldOn(page, k) = ToldOn(page, l) \cup (IF Reads(l, el) THEN Told(page, k, Len(l) + 1) ELSE {})
<1>1. /\ 1 .. Len(l) + 1 = 1 .. Len(l) \cup {Len(l) + 1} /\ Len(l) + 1 \notin 1 .. Len(l)
      /\ ReadAt(l) \subseteq 1 .. Len(l) /\ ReadAt(k) \subseteq 1 .. Len(l) + 1
  BY DEF Below, ReadAt, HistoryAt
<1>2. Len(l) + 1 \in ReadAt(k) <=> Reads(l, el)
  <2>1. Len(l) + 1 \in DOMAIN k /\ k[Len(l) + 1] = el
    BY DEF Below
  <2>2. el.kind = "table" => SectionAt(k, Len(l) + 1) = SectionAt(l, Len(l))
    BY DEF Below
  <2> QED
    BY <2>1, <2>2 DEF ReadAt, HistoryAt, Reads
<1>3. \A i : i \in ReadAt(k) <=> i \in ReadAt(l) \/ (i = Len(l) + 1 /\ Reads(l, el))
  BY <1>1, <1>2, AboveIsKept
<1>4. \A i \in ReadAt(l) : Told(page, k, i) = Told(page, l, i)
  BY <1>1, AboveIsKept
<1> QED
  BY <1>1, <1>3, <1>4 DEF ToldOn

\* A row of a page that speaks of a version, as the place of its table and its own.
LEMMA SpeaksAre ==
  ASSUME NEW l, NEW i, NEW code, NEW x
  PROVE  x \in Speaks(l, i, code) <=>
           x = <<x[1], x[2]>> /\ x[1] \in SummariesAt(l, i) /\ x[2] \in Speaking(l[x[1]], code)
<1>1. ASSUME x \in Speaks(l, i, code)
      PROVE  x = <<x[1], x[2]>> /\ x[1] \in SummariesAt(l, i) /\ x[2] \in Speaking(l[x[1]], code)
  <2>1. PICK j \in SummariesAt(l, i) : x \in {j} \X Speaking(l[j], code)
    BY <1>1 DEF Speaks
  <2>2. x = <<x[1], x[2]>> /\ x[1] = j /\ x[2] \in Speaking(l[j], code)
    BY <2>1
  <2> QED
    BY <2>2
<1>2. ASSUME x = <<x[1], x[2]>> /\ x[1] \in SummariesAt(l, i) /\ x[2] \in Speaking(l[x[1]], code)
      PROVE  x \in Speaks(l, i, code)
  <2>1. x \in {x[1]} \X Speaking(l[x[1]], code)
    BY <1>2
  <2> QED
    BY <1>2, <2>1 DEF Speaks
<1> QED
  BY <1>1, <1>2

LEMMA SpeaksBelow ==
  ASSUME NEW l, NEW el, NEW k, Below(l, el, k), NEW code
  PROVE  /\ \A i \in 1 .. Len(l) : Speaks(k, i, code) = Speaks(l, i, code)
         /\ \A i \in 0 .. Len(l) : \A x \in Speaks(l, i, code) : x[1] \in 1 .. Len(l) /\ k[x[1]] = l[x[1]]
         /\ ~IsSummary(k, Len(l) + 1) => Speaks(k, Len(l) + 1, code) = Speaks(l, Len(l), code)
         /\ IsSummary(k, Len(l) + 1) =>
              \A x : x \in Speaks(k, Len(l) + 1, code) <=>
                      \/ x \in Speaks(l, Len(l), code)
                      \/ x = <<x[1], x[2]>> /\ x[1] = Len(l) + 1 /\ x[2] \in Speaking(el, code)
<1>1. /\ Len(l) \in Nat /\ k[Len(l) + 1] = el /\ \A i \in 1 .. Len(l) : k[i] = l[i]
      /\ 1 .. Len(l) + 1 = 1 .. Len(l) \cup {Len(l) + 1} /\ Len(l) + 1 \notin 1 .. Len(l)
  BY DEF Below
<1>2. \A i \in 0 .. Len(l) : SummariesAt(k, i) = SummariesAt(l, i) /\ SummariesAt(l, i) \subseteq 1 .. Len(l)
  <2>1. SummariesAt(k, 0) = {} /\ SummariesAt(l, 0) = {}
    BY DEF SummariesAt
  <2>2. \A i \in 0 .. Len(l) : i = 0 \/ i \in 1 .. Len(l)
    BY <1>1
  <2>3. \A i \in 1 .. Len(l) :
          SummariesAt(k, i) = SummariesAt(l, i) /\ SummariesAt(l, i) \subseteq 1 .. Len(l)
    BY AboveIsKept
  <2> QED
    BY <2>1, <2>2, <2>3
<1>3. \A i \in 0 .. Len(l) : \A j \in SummariesAt(l, i) : k[j] = l[j]
  BY <1>1, <1>2
<1>4. \A i \in 0 .. Len(l) : Speaks(k, i, code) = Speaks(l, i, code)
  BY <1>2, <1>3 DEF Speaks
<1>5. \A j : j \in SummariesAt(k, Len(l) + 1) <=>
              j \in SummariesAt(k, Len(l)) \/ (j = Len(l) + 1 /\ IsSummary(k, Len(l) + 1))
  BY <1>1 DEF SummariesAt, IsSummary
<1>6. Len(l) \in 0 .. Len(l) /\ \A i \in 1 .. Len(l) : i \in 0 .. Len(l)
  BY <1>1
<1>7. ASSUME ~IsSummary(k, Len(l) + 1) PROVE Speaks(k, Len(l) + 1, code) = Speaks(l, Len(l), code)
  <2>1. SummariesAt(k, Len(l) + 1) = SummariesAt(k, Len(l))
    BY <1>5, <1>7
  <2> QED
    BY <1>4, <1>6, <2>1 DEF Speaks
<1>8. \A i \in 0 .. Len(l) : \A x \in Speaks(l, i, code) : x[1] \in 1 .. Len(l) /\ k[x[1]] = l[x[1]]
  BY <1>1, <1>2, SpeaksAre
<1>9. ASSUME IsSummary(k, Len(l) + 1), NEW x
      PROVE  x \in Speaks(k, Len(l) + 1, code) <=>
               \/ x \in Speaks(l, Len(l), code)
               \/ x = <<x[1], x[2]>> /\ x[1] = Len(l) + 1 /\ x[2] \in Speaking(el, code)
  <2>1. x \in Speaks(k, Len(l) + 1, code) <=>
          /\ x = <<x[1], x[2]>> /\ x[2] \in Speaking(k[x[1]], code)
          /\ x[1] \in SummariesAt(k, Len(l)) \/ x[1] = Len(l) + 1
    BY <1>5, <1>9, SpeaksAre
  <2>2. x \in Speaks(k, Len(l), code) <=>
          x = <<x[1], x[2]>> /\ x[1] \in SummariesAt(k, Len(l)) /\ x[2] \in Speaking(k[x[1]], code)
    BY SpeaksAre
  <2> QED
    BY <1>1, <1>4, <1>6, <2>1, <2>2
<1> QED
  BY <1>4, <1>6, <1>7, <1>8, <1>9

LEMMA ElementIs ==
  ASSUME NEW el \in Parts(PageElements)
  PROVE  /\ el.kind = "label" => el.heading # Absent
         /\ el.kind = "table" => Len(el.rows) \in Nat /\ DOMAIN el.rows = 1 .. Len(el.rows)
<1>1. PICK g \in DOMAIN PageElements : el \in UNION {PageElements[g][i] : i \in DOMAIN PageElements[g]}
  BY DEF Parts
<1>2. PICK i \in DOMAIN PageElements[g] : el \in PageElements[g][i]
  BY <1>1
<1> QED
  BY <1>2, PagesAssumption

\* The last of the rows that speak of a version, and what it says.
IsLast(x, S) == x \in S /\ \A y \in S \ {x} : Before(y, x)
SaidAt(l, x) == Said(l[x[1]], l[x[1]].rows[x[2]])

\* eol_by_code has what the page has said so far, and nothing else.
EolSays(eol, l, code) ==
  /\ code \in DOMAIN eol <=> Speaks(l, Len(l), code) # {}
  /\ code \in DOMAIN eol => \E x : IsLast(x, Speaks(l, Len(l), code)) /\ eol[code] = SaidAt(l, x)
EolIs(eol, l) == \A code : EolSays(eol, l, code)

LEMMA TableSaysLast ==
  ASSUME NEW t, Len(t.rows) \in Nat, DOMAIN t.rows = 1 .. Len(t.rows), NEW code
  PROVE  /\ code \in DOMAIN TableSays(t) <=> Speaking(t, code) # {}
         /\ Speaking(t, code) # {} =>
              /\ TableSays(t)[code] = Said(t, t.rows[Max(Speaking(t, code))])
              /\ Max(Speaking(t, code)) \in Speaking(t, code)
              /\ \A j \in Speaking(t, code) : j \in Nat /\ j <= Max(Speaking(t, code))
<1> DEFINE codes == {VersionCode(t.rows[i].version) : i \in {j \in DOMAIN t.rows : t.rows[j].version # Absent}}
           spoken == {c \in codes : Speaking(t, c) # {}}
<1>1. Speaking(t, code) # {} => code \in codes
  BY DEF Speaking
<1> HIDE DEF codes
<1>2. TableSays(t) = [c \in spoken |-> Said(t, t.rows[Max(Speaking(t, c))])]
  BY DEF TableSays, codes
<1>3. code \in spoken <=> Speaking(t, code) # {}
  BY <1>1
<1> HIDE DEF spoken
<1>4. Speaking(t, code) \in SUBSET (1 .. Len(t.rows))
  BY DEF Speaking
<1>5. \A j \in Speaking(t, code) : j \in Nat
  BY <1>4
<1> QED
  BY <1>2, <1>3, <1>4, <1>5, LastOf

LEMMA KeepsLast ==
  ASSUME NEW eol, NEW says, NEW code
  PROVE  /\ code \in DOMAIN KeepLast(eol, says) <=> code \in DOMAIN eol \/ code \in DOMAIN says
         /\ code \in DOMAIN says => KeepLast(eol, says)[code] = says[code]
         /\ code \in DOMAIN eol /\ code \notin DOMAIN says => KeepLast(eol, says)[code] = eol[code]
BY DEF KeepLast

\* An element that is no summary table tells nothing of support ends.
LEMMA OthersSayNothing ==
  ASSUME NEW l, NEW el, NEW k, Below(l, el, k), ~IsSummary(k, Len(l) + 1), NEW eol, EolIs(eol, l)
  PROVE  EolIs(eol, k)
<1> SUFFICES ASSUME NEW code PROVE EolSays(eol, k, code)
  BY DEF EolIs
<1>1. Len(k) = Len(l) + 1 /\ Len(l) \in 0 .. Len(l)
  BY DEF Below
<1>2. /\ Speaks(k, Len(l) + 1, code) = Speaks(l, Len(l), code)
      /\ \A x \in Speaks(l, Len(l), code) : k[x[1]] = l[x[1]]
  BY <1>1, SpeaksBelow
<1>3. /\ code \in DOMAIN eol <=> Speaks(l, Len(l), code) # {}
      /\ code \in DOMAIN eol => \E x : IsLast(x, Speaks(l, Len(l), code)) /\ eol[code] = SaidAt(l, x)
  BY DEF EolIs, EolSays
<1> QED
  BY <1>1, <1>2, <1>3 DEF EolSays, IsLast, SaidAt

\* A summary table has the last word on each version it speaks of.
LEMMA SummarySaysLast ==
  ASSUME NEW l, NEW t, NEW k, Below(l, t, k), IsSummary(k, Len(l) + 1),
         Len(t.rows) \in Nat, DOMAIN t.rows = 1 .. Len(t.rows), NEW eol, EolIs(eol, l)
  PROVE  EolIs(KeepLast(eol, TableSays(t)), k)
<1> DEFINE new == KeepLast(eol, TableSays(t))
<1> SUFFICES ASSUME NEW code PROVE EolSays(new, k, code)
  BY DEF EolIs
<1>1. Len(k) = Len(l) + 1 /\ Len(l) \in 0 .. Len(l) /\ Len(l) \in Nat /\ k[Len(l) + 1] = t
  BY DEF Below
<1>2. /\ \A x : x \in Speaks(k, Len(k), code) <=>
                \/ x \in Speaks(l, Len(l), code)
                \/ x = <<x[1], x[2]>> /\ x[1] = Len(l) + 1 /\ x[2] \in Speaking(t, code)
      /\ \A x \in Speaks(l, Len(l), code) : x[1] \in 1 .. Len(l) /\ k[x[1]] = l[x[1]]
  BY <1>1, SpeaksBelow
<1>3. /\ code \in DOMAIN eol <=> Speaks(l, Len(l), code) # {}
      /\ code \in DOMAIN eol => \E x : IsLast(x, Speaks(l, Len(l), code)) /\ eol[code] = SaidAt(l, x)
  BY DEF EolIs, EolSays
<1>4. /\ code \in DOMAIN new <=> code \in DOMAIN eol \/ code \in DOMAIN TableSays(t)
      /\ code \in DOMAIN TableSays(t) => new[code] = TableSays(t)[code]
      /\ code \in DOMAIN eol /\ code \notin DOMAIN TableSays(t) => new[code] = eol[code]
  BY KeepsLast
<1>5. /\ code \in DOMAIN TableSays(t) <=> Speaking(t, code) # {}
      /\ Speaking(t, code) # {} =>
           /\ TableSays(t)[code] = Said(t, t.rows[Max(Speaking(t, code))])
           /\ Max(Speaking(t, code)) \in Speaking(t, code)
           /\ \A j \in Speaking(t, code) : j \in Nat /\ j <= Max(Speaking(t, code))
  BY TableSaysLast
<1> HIDE DEF new
<1>6. CASE Speaking(t, code) = {}
  <2>1. \A x : x \in Speaks(k, Len(k), code) <=> x \in Speaks(l, Len(l), code)
    BY <1>2, <1>6
  <2>2. Speaks(k, Len(k), code) = Speaks(l, Len(l), code)
    BY <2>1
  <2> QED
    BY <1>2, <1>3, <1>4, <1>5, <1>6, <2>2 DEF EolSays, IsLast, SaidAt
<1>7. CASE Speaking(t, code) # {}
  <2>1. PICK j : j = Max(Speaking(t, code))
    OBVIOUS
  <2> DEFINE x == <<Len(l) + 1, j>>
  <2>2. x = <<x[1], x[2]>> /\ x[1] = Len(l) + 1 /\ x[2] = j
    OBVIOUS
  <2>2a. \A y : y = <<y[1], y[2]>> /\ y[1] = x[1] /\ y[2] = x[2] => y = x
    BY <2>2
  <2> HIDE DEF x
  <2>3. x \in Speaks(k, Len(k), code)
    BY <1>2, <1>5, <1>7, <2>1, <2>2
  <2>4. ASSUME NEW y \in Speaks(k, Len(k), code), y # x PROVE Before(y, x)
    <3>1. CASE y \in Speaks(l, Len(l), code)
      <4>1. y[1] \in 1 .. Len(l)
        BY <1>2, <3>1
      <4>2. y[1] < x[1]
        BY <1>1, <2>2, <4>1, Above
      <4> QED
        BY <4>2 DEF Before
    <3>2. CASE y = <<y[1], y[2]>> /\ y[1] = Len(l) + 1 /\ y[2] \in Speaking(t, code)
      <4>1. y[2] \in Nat /\ j \in Nat /\ y[2] <= j
        BY <1>5, <1>7, <2>1, <3>2
      <4>2. y[2] # j
        BY <2>2, <2>4, <2>2a, <3>2
      <4>3. y[2] < j
        BY <4>1, <4>2
      <4> QED
        BY <2>2, <3>2, <4>3 DEF Before
    <3> QED
      BY <1>2, <2>4, <3>1, <3>2
  <2>5. IsLast(x, Speaks(k, Len(k), code))
    BY <2>3, <2>4 DEF IsLast
  <2>6. new[code] = SaidAt(k, x)
    BY <1>1, <1>4, <1>5, <1>7, <2>1, <2>2 DEF SaidAt
  <2> QED
    BY <1>4, <1>5, <1>7, <2>3, <2>5, <2>6 DEF EolSays
<1> QED
  BY <1>6, <1>7

\* A product says of table i's version what the page last said before the table.
SaidOf(page, l, i, p) ==
  LET h     == Directly(page, l, i)
      spoke == Speaks(l, i, VersionCode(h))
  IN /\ p.key = ProductOf(page, h)
     /\ spoke = {} => p.end = Absent /\ ~p.ended
     /\ \A x \in spoke : (\A y \in spoke \ {x} : Before(y, x)) =>
          LET days == EndTexts(l[x[1]], l[x[1]].rows[x[2]]) \cap Days
          IN p.ended = (days = {}) /\ p.end = IF days = {} THEN Absent ELSE Max(days)
Ends(page, l, ps) == \A i \in ReadAt(l) : \E p \in ps : SaidOf(page, l, i, p)

AllTold(w)      == UNION {ToldOn(Pages[n], w[n]) : n \in DOMAIN w}
AllEnds(w, ps)  == \A n \in DOMAIN w : Ends(Pages[n], w[n], ps)

LEMMA SaidBelow ==
  ASSUME NEW l, NEW el, NEW k, Below(l, el, k), NEW page, NEW i \in 1 .. Len(l), NEW p,
         SaidOf(page, l, i, p)
  PROVE  SaidOf(page, k, i, p)
<1> DEFINE h == Directly(page, l, i)
           spoke == Speaks(l, i, VersionCode(h))
<1>1. Directly(page, k, i) = h
  BY AboveIsKept
<1>2. i \in 0 .. Len(l)
  BY DEF Below
<1>3. Speaks(k, i, VersionCode(h)) = spoke /\ \A x \in spoke : k[x[1]] = l[x[1]]
  BY <1>2, SpeaksBelow
<1>4. /\ p.key = ProductOf(page, h)
      /\ spoke = {} => p.end = Absent /\ ~p.ended
      /\ \A x \in spoke : (\A y \in spoke \ {x} : Before(y, x)) =>
           LET days == EndTexts(l[x[1]], l[x[1]].rows[x[2]]) \cap Days
           IN p.ended = (days = {}) /\ p.end = IF days = {} THEN Absent ELSE Max(days)
  BY DEF SaidOf
<1> HIDE DEF spoke, h
<1> QED
  BY <1>1, <1>3, <1>4 DEF SaidOf

\* What a history table's product says is what eol_by_code has of its version.
LEMMA ProductSaysLast ==
  ASSUME NEW l, NEW t, NEW k \in Seq(Parts(PageElements)), Below(l, t, k), Reads(l, t), NEW page, NEW eol, EolIs(eol, l),
         NEW h, h = Directly(page, k, Len(l) + 1)
  PROVE  SaidOf(page, k, Len(l) + 1, HistoryProduct(ProductOf(page, h), t, h, eol))
<1> DEFINE code == VersionCode(h)
           spoke == Speaks(k, Len(l) + 1, code)
           said == IF code \in DOMAIN eol THEN eol[code] ELSE [end |-> Absent, ended |-> FALSE]
           p == HistoryProduct(ProductOf(page, h), t, h, eol)
<1>1. p.key = ProductOf(page, h) /\ p.end = said.end /\ p.ended = said.ended
  BY DEF HistoryProduct
<1>2. Len(l) \in Nat /\ Len(k) = Len(l) + 1 /\ k[Len(l) + 1] = t /\ SectionAt(k, Len(l) + 1) = "history"
  BY DEF Below, Reads
<1>3. ~IsSummary(k, Len(l) + 1)
  BY <1>2 DEF IsSummary
<1>4. EolSays(eol, k, code)
  BY <1>3, OthersSayNothing DEF EolIs
<1>5. /\ code \in DOMAIN eol <=> spoke # {}
      /\ code \in DOMAIN eol => \E x : IsLast(x, spoke) /\ eol[code] = SaidAt(k, x)
  BY <1>2, <1>4 DEF EolSays
<1>6. ASSUME NEW x \in spoke PROVE x[1] \in Nat /\ x[2] \in Nat /\ x = <<x[1], x[2]>>
  <2>1. /\ x = <<x[1], x[2]>> /\ x[1] \in SummariesAt(k, Len(l) + 1)
        /\ x[2] \in Speaking(k[x[1]], code)
    BY SpeaksAre
  <2>2. x[1] \in 1 .. Len(k) /\ k[x[1]].kind = "table"
    BY <1>2, <2>1 DEF SummariesAt
  <2>3. k[x[1]] \in Parts(PageElements)
    BY <2>2
  <2>4. DOMAIN k[x[1]].rows = 1 .. Len(k[x[1]].rows)
    BY <2>2, <2>3, ElementIs
  <2>5. x[2] \in DOMAIN k[x[1]].rows
    BY <2>1 DEF Speaking
  <2> QED
    BY <1>2, <2>1, <2>2, <2>4, <2>5
<1> HIDE DEF p, spoke, code
<1>7. spoke = {} => p.end = Absent /\ ~p.ended
  BY <1>1, <1>5
<1>8. ASSUME NEW x \in spoke, \A y \in spoke \ {x} : Before(y, x)
      PROVE  LET days == EndTexts(k[x[1]], k[x[1]].rows[x[2]]) \cap Days
             IN p.ended = (days = {}) /\ p.end = IF days = {} THEN Absent ELSE Max(days)
  <2>1. PICK z : IsLast(z, spoke) /\ eol[code] = SaidAt(k, z)
    BY <1>5, <1>8
  <2>2. z = x
    <3>1. SUFFICES ASSUME z # x PROVE FALSE
      OBVIOUS
    <3>2. Before(z, x) /\ Before(x, z)
      BY <1>8, <2>1, <3>1 DEF IsLast
    <3>3. /\ z \in spoke /\ z[1] \in Nat /\ z[2] \in Nat
          /\ x[1] \in Nat /\ x[2] \in Nat
      BY <1>6, <2>1 DEF IsLast
    <3> QED
      BY <3>2, <3>3 DEF Before
  <2>3. said = Said(k[x[1]], k[x[1]].rows[x[2]])
    BY <1>5, <1>8, <2>1, <2>2 DEF SaidAt
  <2> DEFINE days == EndTexts(k[x[1]], k[x[1]].rows[x[2]]) \cap Days
  <2>4. said = [end |-> IF days = {} THEN Absent ELSE Max(days), ended |-> days = {}]
    BY <2>3 DEF Said
  <2> HIDE DEF days, said
  <2>5. said.ended = (days = {}) /\ said.end = IF days = {} THEN Absent ELSE Max(days)
    BY <2>4
  <2> QED
    BY <1>1, <2>5 DEF days
<1> QED
  BY <1>1, <1>7, <1>8 DEF SaidOf, spoke, code, p

LEMMA UpTo ==
  ASSUME NEW m \in Nat \ {0}
  PROVE  /\ \A n : n \in 1 .. m <=> n \in 1 .. m - 1 \/ n = m
         /\ \A p \in Nat : m = p + 1 => m - 1 = p /\ m \notin 1 .. p
<1>1. /\ 1 .. m = 1 .. m - 1 \cup {m}
      /\ \A p \in Nat : m = p + 1 => m - 1 = p /\ m \notin 1 .. p
  OBVIOUS
<1> QED
  BY <1>1

LEMMA WalkMoves ==
  ASSUME NEW w \in Walk(PageElements), NEW z \in Walk(PageElements), NEW m \in Nat \ {0},
         Len(z) = m, m = Len(w) \/ m = Len(w) + 1, \A n \in 1 .. m - 1 : z[n] = w[n]
  PROVE  /\ \A new : ToldOn(Pages[m], z[m]) =
                       (IF m = Len(w) THEN ToldOn(Pages[m], w[m]) ELSE {}) \cup new
                   => AllTold(z) = AllTold(w) \cup new
         /\ \A ps, qs : /\ ps \subseteq qs /\ AllEnds(w, ps)
                       /\ Ends(Pages[m], z[m], qs)
                      => AllEnds(z, qs)
<1>1. /\ DOMAIN w = 1 .. Len(w) /\ DOMAIN z = 1 .. m /\ Len(w) \in Nat
  BY DEF Walk
<1>2. \A n : n \in DOMAIN z <=> n \in 1 .. m - 1 \/ n = m
  BY <1>1, UpTo
<1>3. \A n : n \in DOMAIN w <=> n \in 1 .. m - 1 \/ (n = m /\ m = Len(w))
  BY <1>1, UpTo
<1>4. ASSUME NEW new,
             ToldOn(Pages[m], z[m]) = (IF m = Len(w) THEN ToldOn(Pages[m], w[m]) ELSE {}) \cup new
      PROVE  AllTold(z) = AllTold(w) \cup new
  <2>1. ASSUME NEW r PROVE r \in AllTold(z) <=> r \in AllTold(w) \cup new
    <3>1. r \in AllTold(z) <=> \E n \in DOMAIN z : r \in ToldOn(Pages[n], z[n])
      BY DEF AllTold
    <3>2. r \in AllTold(w) <=> \E n \in DOMAIN w : r \in ToldOn(Pages[n], w[n])
      BY DEF AllTold
    <3>3. r \in ToldOn(Pages[m], z[m]) <=> r \in new \/ (m = Len(w) /\ r \in ToldOn(Pages[m], w[m]))
      BY <1>4
    <3> QED
      BY <1>2, <1>3, <3>1, <3>2, <3>3
  <2> QED
    BY <2>1
<1>5. ASSUME NEW ps, NEW qs, ps \subseteq qs, AllEnds(w, ps), Ends(Pages[m], z[m], qs)
      PROVE  AllEnds(z, qs)
  <2>1. ASSUME NEW n \in DOMAIN z PROVE Ends(Pages[n], z[n], qs)
    <3>1. CASE n = m
      BY <1>5, <3>1
    <3>2. CASE n \in 1 .. m - 1
      <4>1. z[n] = w[n] /\ Ends(Pages[n], w[n], ps)
        BY <1>3, <1>5, <3>2 DEF AllEnds
      <4> QED
        BY <1>5, <4>1 DEF Ends
    <3> QED
      BY <1>2, <3>1, <3>2
  <2> QED
    BY <2>1 DEF AllEnds
<1> QED
  BY <1>4, <1>5

\* The locals of _fetch_page are what the page says so far: the section, the label if it
\* stands directly above and not before the first section, and the support ends.
LabelAt(l) ==
  IF Len(l) > 0 /\ l[Len(l)].kind = "label" /\ SectionAt(l, Len(l)) # "none" THEN l[Len(l)].heading
  ELSE Absent
ScanIs(l) == scan.section = SectionAt(l, Len(l)) /\ scan.label = LabelAt(l) /\ EolIs(scan.eol, l)

ReleaseInv ==
  /\ IsResult(result) /\ IsScan /\ walked \in Walk(PageElements)
  /\ Len(walked) <= Len(Pages) /\ (scan.open => Len(walked) > 0 /\ ScanIs(This))
  /\ result.patches = AllTold(walked)
  /\ AllEnds(walked, result.products)

LEMMA ReleaseStarts == Empty => ReleaseInv
<1>1. Empty => walked \in Walk(PageElements) /\ Len(walked) = 0 /\ DOMAIN walked = {}
  BY DEF Empty, Walk
<1>2. 0 <= Len(Pages)
  <2>1. Len(Pages) \in Nat
    BY PagesAssumption
  <2> QED
    BY <2>1
<1>3. Empty => IsResult(result) /\ IsScan /\ ~scan.open /\ result.patches = {}
  BY NoResultIsOne, NoScanIsOne DEF Empty, IsScan
<1>4. Empty => AllTold(walked) = {} /\ AllEnds(walked, result.products)
  BY <1>1 DEF AllTold, AllEnds
<1> QED
  BY <1>1, <1>2, <1>3, <1>4 DEF ReleaseInv

LEMMA ReleaseMoves ==
  ASSUME ReleaseInv, NEW m \in 1 .. Len(Pages), m = Len(walked) \/ m = Len(walked) + 1,
         IsResult(result'), IsScan', walked' \in Walk(PageElements), Len(walked') = m,
         \A n \in 1 .. m - 1 : walked'[n] = walked[n],
         NEW new, result'.patches = result.patches \cup new, result.products \subseteq result'.products,
         ToldOn(Pages[m], walked'[m]) =
           (IF m = Len(walked) THEN ToldOn(Pages[m], walked[m]) ELSE {}) \cup new,
         Ends(Pages[m], walked'[m], result'.products),
         scan'.open => ScanIs(walked[m])'
  PROVE  ReleaseInv'
<1>1. m \in Nat \ {0} /\ m > 0 /\ m <= Len(Pages) /\ walked \in Walk(PageElements)
  BY PagesAssumption DEF ReleaseInv
<1>2. AllTold(walked') = AllTold(walked) \cup new
  BY <1>1, WalkMoves
<1>3. AllEnds(walked, result.products)
  BY DEF ReleaseInv
<1>4. AllEnds(walked', result'.products)
  BY <1>1, <1>3, WalkMoves
<1>5. scan'.open => ScanIs(This)'
  BY DEF This
<1> QED
  BY <1>1, <1>2, <1>4, <1>5 DEF ReleaseInv

LEMMA ReleasePage ==
  ASSUME ReleaseInv, scan.open, NEW m, m = Len(walked)
  PROVE  /\ m \in Nat /\ m > 0 /\ m \in 1 .. Len(Pages) /\ ThisPage = Pages[m]
         /\ This \in Seq(Parts(PageElements)) /\ This = walked[m] /\ ScanIs(This)
         /\ Ends(Pages[m], This, result.products)
<1>1. m \in Nat /\ m > 0 /\ m \in 1 .. Len(Pages) /\ m \in DOMAIN walked
  BY PagesAssumption DEF ReleaseInv, Walk
<1>2. walked[m] \in Seq(Parts(PageElements))
  <2> DEFINE S == Seq(Parts(PageElements))
  <2>1. walked \in Seq(S) /\ m \in 1 .. Len(walked)
    BY <1>1 DEF ReleaseInv, Walk
  <2> HIDE DEF S
  <2>2. walked[m] \in S
    BY <2>1
  <2> QED
    BY <2>2 DEF S
<1>3. Ends(Pages[m], walked[m], result.products)
  BY <1>1 DEF ReleaseInv, AllEnds
<1>4. This = walked[m] /\ ThisPage = Pages[m] /\ ScanIs(This)
  BY DEF This, ThisPage, ReleaseInv
<1> QED
  BY <1>1, <1>2, <1>3, <1>4

LEMMA ReleaseElementIs ==
  ASSUME ReleaseInv, NEW el \in Elements
  PROVE  scan.open /\ el \in Parts(PageElements)
<1>1. scan.open
  BY DEF Elements, Coming
<1>2. PICK m : m = Len(walked)
  OBVIOUS
<1>3. m \in 1 .. Len(Pages) /\ ThisPage = Pages[m]
  BY <1>1, <1>2, ReleasePage
<1>4. ThisPage \in DOMAIN PageElements
  BY <1>3, PagesAssumption
<1>5. el \in Coming(PageElements[ThisPage])
  BY DEF Elements
<1> QED
  BY <1>1, <1>4, <1>5, ComingIs

LEMMA ReleaseElementPassed ==
  ASSUME ReleaseInv, NEW el \in Elements, Pass(el), NEW m, m = Len(walked), NEW l, l = This
  PROVE  /\ walked' \in Walk(PageElements) /\ Len(walked') = m /\ walked'[m] = Append(l, el)
         /\ \A n \in 1 .. m - 1 : walked'[n] = walked[n]
         /\ Append(l, el) \in Seq(Parts(PageElements)) /\ Below(l, el, Append(l, el))
<1>1. scan.open /\ el \in Parts(PageElements)
  BY ReleaseElementIs
<1>2. Len(walked) > 0 /\ walked \in Walk(PageElements)
  BY <1>1 DEF ReleaseInv
<1>3. l \in Seq(Parts(PageElements))
  BY <1>1, ReleasePage
<1>4. Append(l, el) \in Seq(Parts(PageElements)) /\ Below(l, el, Append(l, el))
  BY <1>1, <1>3, ListOf, PageGrows
<1> QED
  BY <1>1, <1>2, <1>4, PassWalks DEF This

\* The products listed before a step still say what they said of the tables above.
LEMMA EndsBelow ==
  ASSUME NEW l, NEW el, NEW k, Below(l, el, k), NEW page, NEW ps, NEW qs, ps \subseteq qs,
         Ends(page, l, ps), Reads(l, el) => \E p \in qs : SaidOf(page, k, Len(l) + 1, p)
  PROVE  Ends(page, k, qs)
<1>1. ASSUME NEW i \in ReadAt(k) PROVE \E p \in qs : SaidOf(page, k, i, p)
  <2>1. CASE i \in ReadAt(l)
    <3>1. i \in 1 .. Len(l)
      BY <2>1, ReadBelow
    <3>2. PICK p \in ps : SaidOf(page, l, i, p)
      BY <2>1 DEF Ends
    <3> QED
      BY <3>1, <3>2, SaidBelow
  <2>2. CASE i = Len(l) + 1 /\ Reads(l, el)
    BY <2>2
  <2> QED
    BY <2>1, <2>2, ReadBelow
<1> QED
  BY <1>1 DEF Ends

LEMMA NothingRead ==
  ASSUME ReleaseInv, NEW el \in Elements, Pass(el), NEW l, l = This, ~Reads(l, el),
         result' = result, IsScan', scan'.open, NEW k, k = Append(l, el), ScanIs(k)'
  PROVE  ReleaseInv'
<1>1. PICK m : m = Len(walked)
  OBVIOUS
<1>2. scan.open
  BY ReleaseElementIs
<1>3. /\ walked' \in Walk(PageElements) /\ Len(walked') = m /\ walked'[m] = k
      /\ \A n \in 1 .. m - 1 : walked'[n] = walked[n]
      /\ Below(l, el, k)
  BY <1>1, ReleaseElementPassed
<1>4. m \in 1 .. Len(Pages) /\ l = walked[m] /\ Ends(Pages[m], l, result.products)
  BY <1>1, <1>2, ReleasePage
<1>5. ToldOn(Pages[m], k) = ToldOn(Pages[m], l) \cup {}
  <2>1. ToldOn(Pages[m], k) =
          ToldOn(Pages[m], l) \cup (IF Reads(l, el) THEN Told(Pages[m], k, Len(l) + 1) ELSE {})
    BY <1>3, ReadBelow
  <2> QED
    BY <2>1
<1>6. Ends(Pages[m], k, result.products)
  BY <1>3, <1>4, EndsBelow
<1>7. IsResult(result') /\ result'.patches = result.patches \cup {} /\ result.products \subseteq result'.products
  BY DEF ReleaseInv
<1>8. ToldOn(Pages[m], walked'[m]) = (IF m = Len(walked) THEN ToldOn(Pages[m], walked[m]) ELSE {}) \cup {}
  BY <1>1, <1>3, <1>4, <1>5
<1>9. Ends(Pages[m], walked'[m], result'.products) /\ ScanIs(walked[m])'
  BY <1>3, <1>6
<1> QED
  BY <1>1, <1>3, <1>4, <1>7, <1>8, <1>9, ReleaseMoves

LEMMA EmptyReleasePage ==
  ASSUME NEW page, NEW ps
  PROVE  /\ ToldOn(page, <<>>) = {} /\ Ends(page, <<>>, ps)
         /\ SectionAt(<<>>, Len(<<>>)) = "none" /\ LabelAt(<<>>) = Absent
         /\ \A eol : DOMAIN eol = {} => EolIs(eol, <<>>)
<1>1. ReadAt(<<>>) = {} /\ Len(<<>>) = 0 /\ \A code : Speaks(<<>>, 0, code) = {}
  BY DEF ReadAt, HistoryAt, Speaks, SummariesAt
<1>2. Headings(<<>>, 0) = {}
  BY DEF Headings
<1>3. \A eol : DOMAIN eol = {} => EolIs(eol, <<>>)
  BY <1>1 DEF EolIs, EolSays
<1> QED
  BY <1>1, <1>2, <1>3 DEF ToldOn, Ends, SectionAt, LabelAt

\* A page is opened, or is not there.
LEMMA PageComes ==
  ASSUME ReleaseInv, OpenPage \/ PageFails PROVE ReleaseInv'
<1>1. PICK m : m = Len(walked) + 1
  OBVIOUS
<1>2. MorePages /\ (Open \/ Unreadable(Pages[m]))
  BY <1>1 DEF OpenPage, PageFails
<1>3. IsResult(result) /\ IsScan /\ walked \in Walk(PageElements) /\ Len(walked) \in Nat /\ Len(Pages) \in Nat
  BY PagesAssumption DEF ReleaseInv, Walk
<1>4. m \in 1 .. Len(Pages) /\ m # Len(walked) /\ m - 1 = Len(walked)
  BY <1>1, <1>2, <1>3 DEF MorePages
<1>5. /\ walked' \in Walk(PageElements) /\ Len(walked') = m
      /\ This' = <<>> /\ \A n \in 1 .. m - 1 : walked'[n] = walked[n]
  BY <1>1, <1>2, <1>3, <1>4, OpenWalks, UnreadableWalks
<1>6. walked'[m] = <<>>
  BY <1>5 DEF This
<1>7. /\ IsResult(result') /\ result'.patches = result.patches \cup {}
      /\ result.products \subseteq result'.products
  BY <1>2, <1>3, ResultError DEF Open, Unreadable
<1>8. /\ IsScan' /\ (scan'.open => scan'.section = "none" /\ scan'.label = Absent /\ DOMAIN scan'.eol = {})
  <2>1. CASE Open
    BY <1>3, <2>1, OpenWalks
  <2>2. CASE Unreadable(Pages[m])
    BY <1>3, <2>2 DEF Unreadable, IsScan
  <2> QED
    BY <1>2, <2>1, <2>2
<1>9. scan'.open => ScanIs(walked[m])'
  BY <1>6, <1>8, EmptyReleasePage DEF ScanIs
<1>10. /\ ToldOn(Pages[m], walked'[m]) = (IF m = Len(walked) THEN ToldOn(Pages[m], walked[m]) ELSE {}) \cup {}
       /\ Ends(Pages[m], walked'[m], result'.products)
  BY <1>4, <1>6, EmptyReleasePage
<1> QED
  BY <1>1, <1>4, <1>5, <1>7, <1>8, <1>9, <1>10, ReleaseMoves

\* The locals after an element that is no summary table.
LEMMA LocalsFollow ==
  ASSUME NEW l, NEW el, NEW k, Below(l, el, k), ScanIs(l), ~IsSummary(k, Len(l) + 1),
         scan'.eol = scan.eol,
         scan'.section = IF el.kind = "h2" THEN el.section ELSE scan.section,
         scan'.label = IF el.kind = "label" /\ scan.section # "none" THEN el.heading ELSE Absent
  PROVE  ScanIs(k)'
<1>1. /\ Len(l) \in Nat /\ Len(k) = Len(l) + 1 /\ Len(k) > 0 /\ k[Len(k)] = el
      /\ SectionAt(k, Len(k)) = IF el.kind = "h2" THEN el.section ELSE SectionAt(l, Len(l))
  BY DEF Below
<1>2. /\ scan.section = SectionAt(l, Len(l)) /\ EolIs(scan.eol, l)
  BY DEF ScanIs
<1>3. EolIs(scan'.eol, k)
  BY <1>2, OthersSayNothing
<1>4. scan'.section = SectionAt(k, Len(k))
  BY <1>1, <1>2
<1>5. scan'.label = LabelAt(k)
  BY <1>1, <1>2 DEF LabelAt
<1> QED
  BY <1>3, <1>4, <1>5 DEF ScanIs

\* Before the first section no label is kept.
LEMMA NoLabelBeforeSections ==
  ASSUME NEW l, ScanIs(l), scan.section = "none" PROVE scan.label = Absent
BY DEF ScanIs, LabelAt

LEMMA HeadingPassed == ASSUME ReleaseInv, OpenSection \/ MeetLabel PROVE ReleaseInv'
<1>1. PICK el \in Elements :
        /\ Pass(el) /\ result' = result
        /\ \/ el.kind = "h2" /\ scan' = [scan EXCEPT !.section = el.section, !.label = Absent]
           \/ /\ el.kind = "label"
              /\ scan' = IF scan.section = "none" THEN scan ELSE [scan EXCEPT !.label = el.heading]
  BY DEF OpenSection, MeetLabel
<1>2. PICK l : l = This
  OBVIOUS
<1>3. PICK k : k = Append(l, el)
  OBVIOUS
<1>4. scan.open /\ IsScan
  BY ReleaseElementIs DEF ReleaseInv
<1>5. ScanIs(l)
  BY <1>2, <1>4, ReleasePage
<1>6. Below(l, el, k)
  BY <1>1, <1>2, <1>3, ReleaseElementPassed
<1>7. el.kind # "table" /\ k[Len(l) + 1] = el
  BY <1>1, <1>6 DEF Below
<1>8. /\ IsScan' /\ scan'.open /\ scan'.eol = scan.eol
      /\ scan'.section = IF el.kind = "h2" THEN el.section ELSE scan.section
      /\ scan'.label = IF el.kind = "label" /\ scan.section # "none" THEN el.heading ELSE Absent
  <2>1. CASE el.kind = "h2"
    <3>1. scan' = [scan EXCEPT !.section = el.section, !.label = Absent]
      BY <1>1, <2>1
    <3> QED
      BY <1>4, <2>1, <3>1 DEF IsScan
  <2>2. CASE el.kind # "h2" /\ scan.section = "none"
    <3>1. scan' = scan /\ scan.label = Absent
      BY <1>1, <1>5, <2>2, NoLabelBeforeSections
    <3> QED
      BY <1>4, <2>2, <3>1 DEF IsScan
  <2>3. CASE el.kind # "h2" /\ scan.section # "none"
    <3>1. scan' = [scan EXCEPT !.label = el.heading] /\ el.kind = "label"
      BY <1>1, <2>3
    <3> QED
      BY <1>4, <2>3, <3>1 DEF IsScan
  <2> QED
    BY <2>1, <2>2, <2>3
<1>9. ScanIs(k)'
  BY <1>5, <1>6, <1>7, <1>8, LocalsFollow DEF IsSummary
<1> QED
  BY <1>1, <1>2, <1>3, <1>7, <1>8, <1>9, NothingRead DEF Reads

LEMMA SummaryPassed == ASSUME ReleaseInv, SummaryTable PROVE ReleaseInv'
<1>1. PICK el \in Elements :
        /\ scan.section = "summary" /\ el.kind = "table" /\ Pass(el) /\ result' = result
        /\ scan' = ForgetLabel([scan EXCEPT !.eol = ParseSummaryTable(el, @)])
  BY DEF SummaryTable
<1>2. PICK l : l = This
  OBVIOUS
<1>3. PICK k : k = Append(l, el)
  OBVIOUS
<1>4. scan.open /\ IsScan /\ el \in Parts(PageElements)
  BY ReleaseElementIs DEF ReleaseInv
<1>5. ScanIs(l)
  BY <1>2, <1>4, ReleasePage
<1>6. Below(l, el, k)
  BY <1>1, <1>2, <1>3, ReleaseElementPassed
<1>7. /\ Len(l) \in Nat /\ Len(k) = Len(l) + 1 /\ k[Len(k)] = el /\ SectionAt(k, Len(k)) = "summary"
      /\ SectionAt(l, Len(l)) = "summary"
  BY <1>1, <1>5, <1>6 DEF Below, ScanIs
<1>8. /\ IsScan' /\ scan'.open /\ scan'.section = "summary" /\ scan'.label = Absent
      /\ scan'.eol = ParseSummaryTable(el, scan.eol)
  BY <1>1, <1>4 DEF IsScan, ForgetLabel
<1>9. ScanIs(k)'
  <2>1. CASE "version" \in el.columns
    <3>1. IsSummary(k, Len(l) + 1)
      BY <1>1, <1>7, <2>1 DEF IsSummary
    <3>2. Len(el.rows) \in Nat /\ DOMAIN el.rows = 1 .. Len(el.rows) /\ EolIs(scan.eol, l)
      BY <1>1, <1>4, <1>5, ElementIs DEF ScanIs
    <3>3. EolIs(KeepLast(scan.eol, TableSays(el)), k)
      BY <1>6, <3>1, <3>2, SummarySaysLast
    <3>4. LabelAt(k) = Absent
      BY <1>1, <1>7 DEF LabelAt
    <3>5. scan'.eol = KeepLast(scan.eol, TableSays(el))
      BY <1>8, <2>1 DEF ParseSummaryTable
    <3> QED
      BY <1>7, <1>8, <3>3, <3>4, <3>5 DEF ScanIs
  <2>2. CASE "version" \notin el.columns
    <3>1. ~IsSummary(k, Len(l) + 1)
      BY <1>7, <2>2 DEF IsSummary
    <3>2. scan'.eol = scan.eol
      BY <1>8, <2>2 DEF ParseSummaryTable
    <3> QED
      BY <1>1, <1>5, <1>6, <1>8, <3>1, <3>2, LocalsFollow
  <2> QED
    BY <2>1, <2>2
<1> QED
  BY <1>1, <1>2, <1>3, <1>7, <1>8, <1>9, NothingRead DEF Reads

LEMMA OtherPassed == ASSUME ReleaseInv, OtherTable PROVE ReleaseInv'
<1>1. PICK el \in Elements :
        /\ el.kind = "table" /\ Pass(el) /\ result' = result
        /\ \/ scan.section = "none" /\ scan' = scan
           \/ scan.section = "history" /\ ~IsHistoryTable(el) /\ scan' = ForgetLabel(scan)
  BY DEF OtherTable
<1>2. PICK l : l = This
  OBVIOUS
<1>3. PICK k : k = Append(l, el)
  OBVIOUS
<1>4. scan.open /\ IsScan
  BY ReleaseElementIs DEF ReleaseInv
<1>5. ScanIs(l)
  BY <1>2, <1>4, ReleasePage
<1>6. Below(l, el, k)
  BY <1>1, <1>2, <1>3, ReleaseElementPassed
<1>7. SectionAt(l, Len(l)) = scan.section /\ SectionAt(k, Len(l) + 1) = scan.section
  BY <1>1, <1>5, <1>6 DEF Below, ScanIs
<1>8. ~IsSummary(k, Len(l) + 1) /\ ~Reads(l, el)
  BY <1>1, <1>7 DEF IsSummary, Reads
<1>9. /\ IsScan' /\ scan'.open /\ scan'.section = scan.section /\ scan'.label = Absent
      /\ scan'.eol = scan.eol
  BY <1>1, <1>4, <1>5, NoLabelBeforeSections DEF IsScan, ForgetLabel
<1>10. ScanIs(k)'
  BY <1>1, <1>5, <1>6, <1>8, <1>9, LocalsFollow
<1> QED
  BY <1>1, <1>2, <1>3, <1>8, <1>9, <1>10, NothingRead

LEMMA HistoryPassed == ASSUME ReleaseInv, HistoryTable PROVE ReleaseInv'
<1> DEFINE Heading == IF scan.label = Absent THEN OsHeading[ThisPage] ELSE scan.label
<1>1. PICK el \in Elements :
        /\ scan.section = "history" /\ el.kind = "table" /\ IsHistoryTable(el) /\ Pass(el)
        /\ result' = ParseHistoryTable(ThisPage, el, Heading, scan.eol, result)
        /\ scan' = ForgetLabel([scan EXCEPT !.tables = @ + 1])
  BY DEF HistoryTable
<1>2. PICK l : l = This
  OBVIOUS
<1>3. PICK k : k = Append(l, el)
  OBVIOUS
<1>4. scan.open /\ IsScan /\ el \in Parts(PageElements) /\ IsResult(result)
  BY ReleaseElementIs DEF ReleaseInv
<1>5. PICK m : m = Len(walked)
  OBVIOUS
<1>6. /\ m \in 1 .. Len(Pages) /\ ThisPage = Pages[m] /\ l = walked[m] /\ ScanIs(l)
      /\ Ends(Pages[m], l, result.products) /\ l \in Seq(Parts(PageElements))
  BY <1>2, <1>4, <1>5, ReleasePage
<1>7. /\ walked' \in Walk(PageElements) /\ Len(walked') = m /\ walked'[m] = k
      /\ \A n \in 1 .. m - 1 : walked'[n] = walked[n]
      /\ k \in Seq(Parts(PageElements)) /\ Below(l, el, k)
  BY <1>1, <1>2, <1>3, <1>5, ReleaseElementPassed
<1>8. /\ scan.section = SectionAt(l, Len(l)) /\ SectionAt(k, Len(l) + 1) = "history" /\ k[Len(l) + 1] = el
      /\ SectionAt(l, Len(l)) = "history" /\ scan.label = LabelAt(l) /\ EolIs(scan.eol, l)
  BY <1>1, <1>6, <1>7 DEF Below, ScanIs
<1>9. /\ IsScan' /\ scan'.open /\ scan'.section = scan.section /\ scan'.label = Absent
      /\ scan'.eol = scan.eol
  BY <1>1, <1>4 DEF IsScan, ForgetLabel
<1>10. ScanIs(k)'
  <2>1. ~IsSummary(k, Len(l) + 1)
    BY <1>8 DEF IsSummary
  <2> QED
    BY <1>1, <1>6, <1>7, <1>9, <2>1, LocalsFollow
<1>11. CASE ~HasColumns(el)
  <2>1. result' = result /\ ~Reads(l, el)
    BY <1>1, <1>11 DEF ParseHistoryTable, Reads
  <2> QED
    BY <1>1, <1>2, <1>3, <1>9, <1>10, <2>1, NothingRead
<1>12. CASE HasColumns(el)
  <2>1. PICK h : h = Heading
    OBVIOUS
  <2>2. h = Directly(Pages[m], k, Len(l) + 1)
    <3>1. Len(l) \in Nat /\ (Len(l) > 0 => k[Len(l)] = l[Len(l)]) /\ Len(l) + 1 - 1 = Len(l)
      BY <1>7 DEF Below
    <3>2. ASSUME Len(l) > 0, l[Len(l)].kind = "label" PROVE l[Len(l)].heading # Absent
      BY <1>6, <3>1, <3>2, ElementIs
    <3>3. Len(l) + 1 > 1 <=> Len(l) > 0
      BY <3>1
    <3> QED
      BY <1>6, <1>8, <2>1, <3>1, <3>2, <3>3 DEF Directly, LabelAt
  <2>3. PICK p : p = HistoryProduct(ProductOf(Pages[m], h), el, h, scan.eol)
    OBVIOUS
  <2>4. PICK ps : ps = {HistoryPatch(ProductOf(Pages[m], h), el, row) :
                          row \in {x \in ToSet(el.rows) : Usable(el, x)}}
    OBVIOUS
  <2>5. result' = AddPatches(ListProduct(result, p), ps)
    BY <1>1, <1>6, <1>12, <2>1, <2>3, <2>4 DEF ParseHistoryTable
  <2>6. /\ IsResult(result') /\ result'.patches = result.patches \cup ps
        /\ result'.products = result.products \cup {p}
    BY <1>4, <2>5, ResultListing, ResultAdding
  <2>7. ps = Told(Pages[m], k, Len(l) + 1) /\ Reads(l, el)
    BY <1>1, <1>8, <1>12, <2>2, <2>4 DEF Told, Reads
  <2>8. ToldOn(Pages[m], k) = ToldOn(Pages[m], l) \cup ps
    <3>1. ToldOn(Pages[m], k) =
            ToldOn(Pages[m], l) \cup (IF Reads(l, el) THEN Told(Pages[m], k, Len(l) + 1) ELSE {})
      BY <1>7, ReadBelow
    <3> QED
      BY <2>7, <3>1
  <2>9. SaidOf(Pages[m], k, Len(l) + 1, p)
    BY <1>7, <1>8, <2>2, <2>3, <2>7, ProductSaysLast
  <2>10. Ends(Pages[m], k, result'.products)
    BY <1>6, <1>7, <2>6, <2>9, EndsBelow
  <2>11. ToldOn(Pages[m], walked'[m]) = (IF m = Len(walked) THEN ToldOn(Pages[m], walked[m]) ELSE {}) \cup ps
    BY <1>5, <1>6, <1>7, <2>8
  <2>12. result.products \subseteq result'.products /\ Ends(Pages[m], walked'[m], result'.products)
         /\ ScanIs(walked[m])'
    BY <1>7, <1>10, <2>6, <2>10
  <2> QED
    BY <1>5, <1>6, <1>7, <1>9, <2>6, <2>11, <2>12, ReleaseMoves
<1> QED
  BY <1>11, <1>12

LEMMA PageEnds == ASSUME ReleaseInv, ClosePage PROVE ReleaseInv'
<1>1. /\ scan' = NoScan /\ walked' = walked /\ IsResult(result)
      /\ result' = result \/ result' = ReportError(result, ThisPage)
  BY DEF ClosePage, ReleaseInv
<1>2. IsResult(result') /\ result'.patches = result.patches /\ result'.products = result.products
  BY <1>1, ResultError
<1>3. IsScan' /\ ~scan'.open
  BY <1>1, NoScanIsOne DEF IsScan
<1> QED
  BY <1>1, <1>2, <1>3 DEF ReleaseInv

LEMMA StepRelease == ReleaseInv /\ ReleaseHealthStep => ReleaseInv'
BY PageComes, HeadingPassed, SummaryPassed, OtherPassed, HistoryPassed, PageEnds DEF ReleaseHealthStep

LEMMA LoopKeepsRelease == LoopSpec => [](At("windows-release-health") => ReleaseInv)
<1> DEFINE Inv == At("windows-release-health") => ReleaseInv
<1>1. LoopInit => Inv
  BY ReleaseStarts DEF LoopInit, Empty
<1>2. Empty' => Inv'
  BY ReleaseStarts, PTL
<1>3. ASSUME Inv, [LoopStep]_loopVars PROVE Inv'
  <2>1. CASE Empty'
    BY <1>2, <2>1
  <2>2. CASE At("windows-release-health") /\ ReleaseHealthStep
    BY <1>3, <2>2, StepRelease
  <2>3. CASE source' = source /\ UNCHANGED pageVars
    BY <1>3, <2>3 DEF At, pageVars, ReleaseInv, IsScan, ScanIs, This
  <2>4. CASE /\ source' = source
             /\ At("sql-server") \/ At("dotnet-core")
    <3>1. ~At("windows-release-health")'
      BY <2>4 DEF At
    <3> QED
      BY <3>1
  <2> QED
    BY <1>3, <2>1, <2>2, <2>3, <2>4, LoopIsAtOne
<1> QED
  BY <1>1, <1>3, PTL DEF LoopSpec

\* Every row of a release health page is reported for the version its own heading names,
\* and every row of a table that is read is reported (the pending_label of _fetch_page),
\* for any pages.
THEOREM HeadingsNameTheirRows == LoopSpec => []RowsFollowTheirHeading
<1>1. (At("windows-release-health") => ReleaseInv) => RowsFollowTheirHeading
  BY DEF RowsFollowTheirHeading, ReleaseRowsFollowTheirHeading, ReleaseInv, AllTold, ToldOn
<1> QED
  BY <1>1, LoopKeepsRelease, PTL

\* A product's end of support is what the last summary row of its version says before its
\* history table, and nothing if none speaks of it (_parse_summary_table and eol_by_code),
\* for any pages.
THEOREM SupportEndsAreTheLastSaid == LoopSpec => []SupportEndsWhenLastSaid
<1>1. (At("windows-release-health") => ReleaseInv) => SupportEndsWhenLastSaid
  BY DEF SupportEndsWhenLastSaid, EndOfLifeIsTheLastSaid, ReleaseInv, AllEnds, Ends, SaidOf
<1> QED
  BY <1>1, LoopKeepsRelease, PTL
=============================================================================
