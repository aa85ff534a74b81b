---------------------------- MODULE FetchResults ----------------------------
(* What the sources that walk pages share: the FetchResult that fetch()     *)
(* builds up (app/fetchers/base.py).                                        *)
EXTENDS Naturals, Sequences, FiniteSets, SequencesExt

CONSTANTS Absent, \* None, and the text of an empty cell
          Days    \* dates

ASSUME DaysAssumption == Days \subseteq Nat /\ Absent \notin Days

VARIABLES result, \* the FetchResult, with the page or channel an error names
          scan,   \* the page that is being scraped, and the locals of the scraper
          walked  \* history: the elements met of the pages so far, none of one unreadable

\* A ProductInfo is [key, ltsc, end, ended]; a PatchInfo [product, kb, build, date, type].
\* What tells them apart is what they say, not where they stand.
NoResult == [products |-> {}, patches |-> {}, errors |-> {}]

ListProduct(r, p)  == [r EXCEPT !.products = @ \cup {p}]
AddPatches(r, ps)  == [r EXCEPT !.patches = @ \cup ps]
ReportError(r, on) == [r EXCEPT !.errors = @ \cup {on}]

\* section, pending_label (or heading), eol_by_code and found_tables.
NoScan == [open |-> FALSE, section |-> "none", label |-> Absent,
           eol |-> [c \in {} |-> Absent], tables |-> 0]

\* The elements that may come next on the page: "places" has those that may stand
\* at each place of it.  The page may also end.
Coming(places) ==
  LET place == Len(walked[Len(walked)]) + 1
  IN IF scan.open /\ place \in DOMAIN places THEN places[place] ELSE {}
Pass(element) == walked' = [walked EXCEPT ![Len(walked)] = Append(@, element)]

\* The answer is there: its elements are met one after another, with no await.
Open ==
  /\ ~scan.open
  /\ scan' = [NoScan EXCEPT !.open = TRUE]
  /\ walked' = Append(walked, <<>>)
  /\ UNCHANGED result

\* The request failed, or the answer is an error.
Unreadable(page) ==
  /\ ~scan.open
  /\ result' = ReportError(result, page)
  /\ walked' = Append(walked, <<>>)
  /\ UNCHANGED scan

\* The h2 headings of a page up to its element i.
Headings(l, i) == {j \in 1 .. i : l[j].kind = "h2"}

\* A product without end-of-life data; what the result has of a product.
Plain(key) == [key |-> key, ltsc |-> FALSE, end |-> Absent, ended |-> FALSE]
RowsOf(key)   == {p \in result.patches : p.product = key}
IsListed(key) == \E p \in result.products : p.key = key
=============================================================================
