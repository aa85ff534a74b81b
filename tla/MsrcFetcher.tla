----------------------------- MODULE MsrcFetcher -----------------------------
(***************************************************************************)
(* One fetch() of the MSRC source (app/fetchers/msrc.py): it walks the     *)
(* newest monthly CVRF documents one after another, and then follows every *)
(* .NET Framework KB it found to the KB's own article, concurrently, for   *)
(* the combined ("bundle") KB per operating system that is listed there.   *)
(*                                                                         *)
(* A task of the second part only awaits its article: what it does with it *)
(* is one step, but the tasks share result.patches and seen_bundle_kbs, and *)
(* articles arrive in any order.                                           *)
(*                                                                         *)
(* A document is what the parser finds in it: the products of its tree it  *)
(* understands, and its vendor fixes that name a KB.  A patch carries the  *)
(* operating systems its title names; the rest of the title follows from   *)
(* its date.                                                               *)
(***************************************************************************)
EXTENDS Naturals, Sequences, FiniteSets

CONSTANTS Updates,     \* the IDs of /updates that are walked, newest first
          ReleaseDate, \* ID -> _parse_release_date
          MonthOf,     \* date -> its year-month
          Documents,   \* ID -> the CVRF documents that may be answered
          Articles,    \* KB -> the articles that may be answered
          Frameworks,  \* products "dotnetfx-<version>"
          Cores,       \* products "dotnet-<version>"
          Systems,     \* operating systems, and their products "dotnetfx-os-<os>"
          KBs, Dates,
          NoDate, NoSystem, \* None
          MaxConcurrent     \* MAX_CONCURRENT_BUNDLE_REQUESTS

Fix      == [kb : KBs, products : SUBSET (Frameworks \cup Cores)]
\* "broken": an entry that makes _process_month raise after these fixes.
Document == [products : SUBSET (Frameworks \cup Cores), fixes : Seq(Fix), broken : BOOLEAN]
\* The date is the one in the article's URL; "broken": a link that cannot be
\* joined to the page's URL.
Listing  == [kb : KBs, os : Systems, date : Dates \cup {NoDate}, broken : BOOLEAN]
Article  == [date : Dates \cup {NoDate}, os : Systems \cup {NoSystem}, listings : Seq(Listing)]

ASSUME SourcesAssumption ==
  /\ Updates \in Seq(DOMAIN Documents)
  /\ \A u \in DOMAIN Documents : \A d \in Documents[u] :
       /\ d \in Document
       /\ \A i \in DOMAIN d.fixes : d.fixes[i].products \subseteq d.products
  /\ ReleaseDate \in [DOMAIN Documents -> Dates \cup {NoDate}]
  /\ DOMAIN Articles = KBs /\ \A k \in KBs : Articles[k] \subseteq Article
ASSUME ValuesAssumption ==
  /\ NoDate \notin Dates /\ NoSystem \notin Systems
  /\ Systems \cap (Frameworks \cup Cores) = {} /\ Frameworks \cap Cores = {}
  /\ MaxConcurrent \in Nat \ {0}

VARIABLES
  pc,       \* where fetch() is
  at,       \* the update it is at
  products, patches, hints, \* of the FetchResult
  errors,   \* of the FetchResult: how many
  kbDates,  \* framework_kbs_seen
  met,      \* where each of its keys was met first: a dict keeps that order
  queued,  \* tasks that wait for the semaphore
  inFlight, \* tasks that wait for their article
  seen,     \* seen_bundle_kbs
  docs,     \* history: the documents that were read
  read      \* history: the articles that were read

resultVars == <<products, patches, hints, errors>>
dictVars   == <<kbDates, met>>
taskVars   == <<queued, inFlight, seen>>
vars == <<pc, at, resultVars, dictVars, taskVars, docs, read>>

None == [k \in {} |-> {}]
With(f, g) == [k \in DOMAIN f \cup DOMAIN g |-> IF k \in DOMAIN g THEN g[k] ELSE f[k]]

Init ==
  /\ pc = "list" /\ at = 1
  /\ products = {} /\ patches = {} /\ hints = None /\ errors = 0
  /\ kbDates = None /\ met = None /\ queued = {} /\ inFlight = {} /\ seen = {}
  /\ docs = None /\ read = None

ListUpdates ==
  /\ pc = "list"
  /\ \/ pc' = "months" /\ UNCHANGED errors
     \/ pc' = "done" /\ errors' = errors + 1
  /\ UNCHANGED <<at, products, patches, hints, dictVars, taskVars, docs, read>>

\* A list whose entries cannot be sorted by their dates raises outside the try blocks,
\* and so does, when the walk gets to it, an entry whose date or ID is no text
\* (_parse_release_date): the result is lost, with the locals of fetch().
ListRaises ==
  /\ pc = "list" \/ (pc = "months" /\ at <= Len(Updates))
  /\ pc' = "raised" /\ at' = 1
  /\ products' = {} /\ patches' = {} /\ hints' = None /\ errors' = 0
  /\ kbDates' = None /\ met' = None /\ docs' = None /\ read' = None
  /\ queued' = {} /\ inFlight' = {} /\ seen' = {}

-----------------------------------------------------------------------------
(* _process_month *)

Update == Updates[at]
Date   == ReleaseDate[Update]

\* _handle_remediation: a row per Framework version a fix is for.
Pairs(d) == {x \in Frameworks \X DOMAIN d.fixes : x[1] \in d.fixes[x[2]].products}
Granular(d) ==
  {[product |-> x[1], kb |-> d.fixes[x[2]].kb, date |-> Date, url |-> "catalog", os |-> {}] :
     x \in Pairs(d)}

\* Mutant: every fix counts, also one that was seen this month.
CountsAlways(d, p, i) == p \in d.fixes[i].products

\* Is fix i the first this month with its KB for product p (seen_in_month)?
Counts(d, p, i) ==
  /\ p \in d.fixes[i].products
  /\ \A j \in 1 .. i - 1 : p \in d.fixes[j].products => d.fixes[j].kb # d.fixes[i].kb

\* patch_kb_hints: a later fix replaces an earlier one of the same product and month.
HintKB(d, p) ==
  LET counting == {i \in DOMAIN d.fixes : Counts(d, p, i)}
  IN d.fixes[CHOOSE i \in counting : \A j \in counting : j <= i].kb
DocHints(d) ==
  LET hinted == {p \in Cores : \E i \in DOMAIN d.fixes : p \in d.fixes[i].products}
  IN IF Date = NoDate THEN None
     ELSE [k \in hinted \X {MonthOf[Date]} |-> HintKB(d, k[1])]

\* framework_kbs_seen, whose later (older) months replace the date and not the order.
FrameworkKBs(d) == {p.kb : p \in Granular(d)}
\* Mutant: also the KBs of an update without a date.
FollowsAll(d)   == FrameworkKBs(d)
KBsToFollow(d)  == IF Date = NoDate THEN {} ELSE FrameworkKBs(d)
\* The first fix with this KB for a Framework: the one that inserts the key.
Inserts(d, k, i) == d.fixes[i].kb = k /\ d.fixes[i].products \cap Frameworks # {}
FirstFix(d, k) ==
  CHOOSE i \in DOMAIN d.fixes : Inserts(d, k, i) /\ \A j \in 1 .. i - 1 : ~Inserts(d, k, j)
Met(d) == [k \in KBsToFollow(d) |-> <<at, FirstFix(d, k)>>]

\* Mutant: the products are listed when their month has been walked to its end.
ListedAtEnd(d) == IF d.broken THEN {} ELSE d.products
Listed(d) == d.products

ProcessMonth ==
  /\ pc = "months" /\ at <= Len(Updates)
  /\ \E d \in Documents[Update] :
       /\ docs' = With(docs, [u \in {Update} |-> d])
       /\ products' = products \cup Listed(d)
       /\ patches' = patches \cup Granular(d)
       /\ hints' = With(hints, DocHints(d))
       /\ kbDates' = With(kbDates, [k \in KBsToFollow(d) |-> Date])
       /\ met' = With(Met(d), met)
       /\ errors' = IF d.broken THEN errors + 1 ELSE errors
  /\ at' = at + 1
  /\ UNCHANGED <<pc, taskVars, read>>

\* The document could not be fetched: the walk goes on.
MonthFails ==
  /\ pc = "months" /\ at <= Len(Updates)
  /\ errors' = errors + 1 /\ at' = at + 1
  /\ UNCHANGED <<pc, products, patches, hints, dictVars, taskVars, docs, read>>

MonthsDone ==
  /\ pc = "months" /\ at > Len(Updates)
  /\ pc' = IF DOMAIN kbDates = {} THEN "done" ELSE "articles"
  /\ queued' = DOMAIN kbDates
  /\ UNCHANGED <<at, resultVars, dictVars, inFlight, seen, docs, read>>

-----------------------------------------------------------------------------
(* _discover_os_bundles *)

MetBefore(k, l) == met[k][1] < met[l][1] \/ (met[k][1] = met[l][1] /\ met[k][2] < met[l][2])

\* Semaphore.acquire: first come first served.
Request ==
  /\ pc = "articles"
  /\ Cardinality(inFlight) < MaxConcurrent
  /\ \E k \in queued :
       /\ \A l \in queued \ {k} : MetBefore(k, l)
       /\ inFlight' = inFlight \cup {k}
       /\ queued' = queued \ {k}
  /\ UNCHANGED <<pc, at, resultVars, dictVars, seen, docs, read>>

\* The article could not be fetched: logged and skipped.
ArticleFails ==
  /\ \E k \in inFlight : inFlight' = inFlight \ {k}
  /\ UNCHANGED <<pc, at, resultVars, dictVars, queued, seen, docs, read>>

\* Mutant: rows without a date of their own in the URL are left alone.
OwnIfDated(p, k, a) ==
  IF p.kb # k \/ a.date = NoDate THEN p ELSE [p EXCEPT !.url = "article", !.date = a.date]

\* What an article says of its KB's own rows.
Own(p, k, a) ==
  IF p.kb # k THEN p
  ELSE [p EXCEPT !.url = "article",
                 !.date = IF a.date = NoDate THEN @ ELSE a.date,
                 !.os = IF a.os = NoSystem THEN @ ELSE @ \cup {a.os}]

\* The listings whose KB nobody has reported, and those the loop gets to: a
\* broken link ends it, after its KB was marked as seen.
Fresh(a) == {i \in DOMAIN a.listings :
               /\ a.listings[i].kb \notin seen
               /\ \A j \in 1 .. i - 1 : a.listings[j].kb # a.listings[i].kb}
Reached(a) == {i \in Fresh(a) : \A j \in Fresh(a) : a.listings[j].broken => j >= i}
Bundles(a) == {a.listings[i] : i \in {j \in Reached(a) : ~a.listings[j].broken}}

\* The row of a bundle; its date falls back to the granular KB's.
Bundle(b, k) == [product |-> b.os, kb |-> b.kb, url |-> "article", os |-> {b.os},
                 date |-> IF b.date = NoDate THEN kbDates[k] ELSE b.date]

\* Mutant: the listings of an article are marked before they are reported.
SeenAll(a) == seen \cup {a.listings[i].kb : i \in DOMAIN a.listings}
SeenBy(a) == seen \cup {a.listings[i].kb : i \in Reached(a)}

ArticleRead ==
  /\ \E k \in inFlight : \E a \in Articles[k] :
       /\ patches' = {Own(p, k, a) : p \in patches} \cup {Bundle(b, k) : b \in Bundles(a)}
       /\ products' = products \cup {b.os : b \in Bundles(a)}
       /\ seen' = SeenBy(a)
       /\ read' = With(read, [x \in {k} |-> a])
       /\ inFlight' = inFlight \ {k}
  /\ UNCHANGED <<pc, at, hints, errors, dictVars, queued, docs>>

ArticlesDone ==
  /\ pc = "articles" /\ queued = {} /\ inFlight = {}
  /\ pc' = "done"
  /\ UNCHANGED <<at, resultVars, dictVars, taskVars, docs, read>>

-----------------------------------------------------------------------------
Step == \/ ListUpdates \/ ListRaises \/ ProcessMonth \/ MonthFails \/ MonthsDone
        \/ Request \/ ArticleFails \/ ArticleRead \/ ArticlesDone
MsrcDone == pc \in {"done", "raised"}
Next == Step
Spec == Init /\ [][Next]_vars

-----------------------------------------------------------------------------
(* Properties *)

Products == Frameworks \cup Cores \cup Systems
Patch    == [product : Products, kb : KBs, date : Dates \cup {NoDate},
             url : {"catalog", "article"}, os : SUBSET Systems]

\* The FetchResult and the locals of fetch() have their types; a task is followed
\* only for a KB that has a date.
TypeOK ==
  /\ pc \in {"list", "months", "articles", "done", "raised"} /\ at \in Nat \ {0}
  /\ products \subseteq Products /\ patches \subseteq Patch /\ errors \in Nat
  /\ DOMAIN kbDates \subseteq KBs /\ kbDates \in [DOMAIN kbDates -> Dates]
  /\ met \in [DOMAIN kbDates -> (Nat \ {0}) \X (Nat \ {0})]
  /\ queued \cup inFlight \subseteq DOMAIN kbDates /\ seen \subseteq KBs

\* The caller drops a patch whose product the result does not list
\* (run_all_fetchers: product_ids.get(...) is None): none is, whatever month
\* breaks off and whichever article names an operating system first.
EveryPatchHasItsProduct == \A p \in patches : p.product \in products

Month(u) == IF ReleaseDate[u] = NoDate THEN NoDate ELSE MonthOf[ReleaseDate[u]]
Repeats(d, p, j) == \E h \in 1 .. j - 1 : p \in d.fixes[h].products /\ d.fixes[h].kb = d.fixes[j].kb

KBsFor(d, p) == {d.fixes[i].kb : i \in {j \in DOMAIN d.fixes : p \in d.fixes[j].products}}

\* Each document that was read is reported, though the months around it failed or
\* it breaks off itself: a row per fix and Framework version, and for .NET the KB
\* of the month's last fix that was not a repetition, if the month has one document.
EveryFixIsReported ==
  \A u \in DOMAIN docs : \A i \in DOMAIN docs[u].fixes : \A p \in docs[u].fixes[i].products :
    LET fix == docs[u].fixes[i] IN
    /\ p \in Frameworks => \E r \in patches : r.product = p /\ r.kb = fix.kb
    /\ /\ p \in Cores /\ ReleaseDate[u] # NoDate
       /\ \A v \in DOMAIN docs \ {u} : Month(v) # Month(u)
       => /\ <<p, Month(u)>> \in DOMAIN hints
          /\ hints[<<p, Month(u)>>] \in KBsFor(docs[u], p)
          /\ hints[<<p, Month(u)>>] = fix.kb =>
               \A j \in i + 1 .. Len(docs[u].fixes) :
                 p \in docs[u].fixes[j].products => Repeats(docs[u], p, j)

\* However the articles interleave, the rows of a granular KB end as its own
\* article has them, or untouched if it was not read: no other task writes them.
RowsFollowTheirArticle ==
  pc = "done" =>
    \A p \in patches : p.product \in Frameworks =>
      IF p.kb \in DOMAIN read
      THEN /\ p.url = "article"
           /\ read[p.kb].date # NoDate => p.date = read[p.kb].date
           /\ read[p.kb].os # NoSystem => read[p.kb].os \in p.os
      ELSE p.url = "catalog" /\ p.os = {}

Lists(a, k) == \E i \in DOMAIN a.listings : a.listings[i].kb = k
Whole(a)    == \A i \in DOMAIN a.listings : ~a.listings[i].broken
BreaksOn(a, k) == \E i \in DOMAIN a.listings : a.listings[i].kb = k /\ a.listings[i].broken

\* A bundle KB that some article lists is reported, once, however many articles
\* list it and in whatever order they arrive, unless the page that lists it breaks
\* off or some page's link to it is broken.
EveryBundleIsReportedOnce ==
  pc = "done" =>
    \A k \in KBs :
      LET rows == {p \in patches : p.kb = k /\ p.product \in Systems} IN
      /\ Cardinality(rows) <= 1
      /\ (\E g \in DOMAIN read : Lists(read[g], k) /\ Whole(read[g]))
         /\ (\A g \in DOMAIN read : ~BreaksOn(read[g], k))
         => Cardinality(rows) = 1
=============================================================================
