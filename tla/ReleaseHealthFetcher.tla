------------------------ MODULE ReleaseHealthFetcher ------------------------
(***************************************************************************)
(* fetch() of the Windows release health source                            *)
(* (app/fetchers/windows_release_health.py): _fetch_page takes a page      *)
(* element by element, and nothing is awaited after its answer.            *)
(*                                                                         *)
(* A page is the elements find_all() returns, in document order: an h2     *)
(* with the section it opens, a label (strong or summary; also bold text   *)
(* inside a table, which comes after the table), or a table with the       *)
(* columns its header has, the words its header mentions (both with _ for  *)
(* the blanks), and its rows.                                              *)
(***************************************************************************)
EXTENDS FetchResults

CONSTANTS Pages,      \* PAGES: their prefixes, in order
          OsHeading,  \* page -> its os_label, read as a heading
          PageElements \* page -> the elements that may stand at each place of it

ASSUME PagesAssumption ==
  /\ Pages \in Seq(DOMAIN PageElements) /\ DOMAIN OsHeading = DOMAIN PageElements
  /\ \A g \in DOMAIN PageElements : \A i \in DOMAIN PageElements[g] : \A e \in PageElements[g][i] :
       /\ e.kind \in {"h2", "label", "table"}
       /\ e.kind = "table" => e.columns \cap {"kb_article", "build"} \subseteq e.mentions
       /\ e.kind = "label" => e.heading # Absent
       /\ e.kind = "table" => Len(e.rows) \in Nat /\ DOMAIN e.rows = 1 .. Len(e.rows)

-----------------------------------------------------------------------------
(* A heading or version cell is what the patterns find in it: edition      *)
(* ("LTSC 2021"), half ("22H2"), old ("Version 1809"), server ("Server     *)
(* 2019"), paren ("(1809)"), number, Absent where one finds nothing; and   *)
(* its text, and whether it says LTSC.                                     *)

FirstOf(s) == s[CHOOSE i \in DOMAIN s : s[i] # Absent /\ \A j \in 1 .. i - 1 : s[j] = Absent]

\* _version_label and _extract_version_code prefer different patterns.
VersionLabel(h) == FirstOf(<<h.edition, h.half, h.old, h.server, h.text>>)
VersionCode(h)  == FirstOf(<<h.half, h.server, h.paren, h.number, h.text>>)
SaysLtsc(h)     == h.edition # Absent \/ h.ltsc

\* _classify_update_type of a cell that holds these marks.
UpdateType(marks) ==
  CASE "OOB" \in marks -> "Out-of-Band"
    [] "OOB" \notin marks /\ "PREVIEW" \in marks -> "Preview"
    [] marks \cap {"OOB", "PREVIEW"} = {} /\ "B" \in marks -> "Security"
    [] marks = {"C-Z"} -> "Preview"
    [] marks = {} -> "Update"

-----------------------------------------------------------------------------
(* The summary tables: support ends by version code *)

\* The texts of a row that speak of its end: the extended date if the table has
\* that column, else every "end of updates" column.
EndTexts(t, row) ==
  (IF "extended_support_end_date" \in t.columns THEN {row.extended} ELSE row.updates) \ {Absent}

\* A row says the latest of its dates, or that support ended if none is a date.
Said(t, row) ==
  LET days == EndTexts(t, row) \cap Days
  IN [end |-> IF days = {} THEN Absent ELSE Max(days), ended |-> days = {}]
Speaking(t, code) ==
  {i \in DOMAIN t.rows : /\ t.rows[i].version # Absent /\ EndTexts(t, t.rows[i]) # {}
                         /\ VersionCode(t.rows[i].version) = code}

\* The last row of a table that speaks of a version is what the table says of it.
TableSays(t) ==
  LET codes == {VersionCode(t.rows[i].version) : i \in {j \in DOMAIN t.rows : t.rows[j].version # Absent}}
  IN [code \in {c \in codes : Speaking(t, c) # {}} |-> Said(t, t.rows[Max(Speaking(t, code))])]

\* Mutant: what a later table says does not replace what an earlier one said.
KeepFirst(eol, says) == [c \in DOMAIN eol \cup DOMAIN says |-> IF c \in DOMAIN eol THEN eol[c] ELSE says[c]]
KeepLast(eol, says)  == [c \in DOMAIN eol \cup DOMAIN says |-> IF c \in DOMAIN says THEN says[c] ELSE eol[c]]

ParseSummaryTable(t, eol) == IF "version" \notin t.columns THEN eol ELSE KeepLast(eol, TableSays(t))

-----------------------------------------------------------------------------
(* The history tables: a product, and a patch per row *)

IsHistoryTable(t) == {"kb_article", "build"} \subseteq t.mentions
HasColumns(t)     == {"availability_date", "kb_article"} \subseteq t.columns

BuildOf(t, row) == IF "build" \in t.columns THEN row.build ELSE Absent
Usable(t, row)  == ~row.short /\ (row.kb # Absent \/ BuildOf(t, row) # Absent)
TypeCell(t, row) ==
  IF t.columns \cap {"update_type", "servicing_option"} = {} THEN {} ELSE row.type

HistoryPatch(key, t, row) ==
  [product |-> key, kb |-> row.kb, build |-> BuildOf(t, row), date |-> row.date,
   type |-> UpdateType(TypeCell(t, row))]

HistoryProduct(key, t, heading, eol) ==
  LET code == VersionCode(heading)
      said == IF code \in DOMAIN eol THEN eol[code] ELSE [end |-> Absent, ended |-> FALSE]
  IN [key |-> key, end |-> said.end, ended |-> said.ended,
      ltsc |-> SaysLtsc(heading)
               \/ ("servicing_option" \in t.columns /\ \E i \in DOMAIN t.rows : t.rows[i].ltsc)]

ProductOf(page, heading) == <<page, VersionLabel(heading)>>

ParseHistoryTable(page, t, heading, eol, r) ==
  LET key  == ProductOf(page, heading)
      rows == {row \in ToSet(t.rows) : Usable(t, row)}
  IN IF ~HasColumns(t) THEN r
     ELSE AddPatches(ListProduct(r, HistoryProduct(key, t, heading, eol)),
                     {HistoryPatch(key, t, row) : row \in rows})

-----------------------------------------------------------------------------
(* _fetch_page: the elements of a page, in document order *)

ThisPage == Pages[Len(walked)]
MorePages == Len(walked) < Len(Pages)

Elements  == Coming(PageElements[ThisPage])

OpenPage  == MorePages /\ Open
PageFails == MorePages /\ Unreadable(Pages[Len(walked) + 1])

OpenSection ==
  /\ \E el \in Elements :
       /\ el.kind = "h2" /\ Pass(el)
       /\ scan' = [scan EXCEPT !.section = el.section, !.label = Absent]
  /\ UNCHANGED result

MeetLabel ==
  /\ \E el \in Elements :
       /\ el.kind = "label" /\ Pass(el)
       /\ scan' = IF scan.section = "none" THEN scan ELSE [scan EXCEPT !.label = el.heading]
  /\ UNCHANGED result

\* Mutant: a table leaves the pending label in place.
KeepLabel(s) == s
ForgetLabel(s) == [s EXCEPT !.label = Absent]

SummaryTable ==
  /\ scan.section = "summary"
  /\ \E t \in Elements :
       /\ t.kind = "table" /\ Pass(t)
       /\ scan' = ForgetLabel([scan EXCEPT !.eol = ParseSummaryTable(t, @)])
  /\ UNCHANGED result

HistoryTable ==
  /\ scan.section = "history"
  /\ \E t \in Elements :
       /\ t.kind = "table" /\ IsHistoryTable(t) /\ Pass(t)
       /\ LET heading == IF scan.label = Absent THEN OsHeading[ThisPage] ELSE scan.label
          IN result' = ParseHistoryTable(ThisPage, t, heading, scan.eol, result)
       /\ scan' = ForgetLabel([scan EXCEPT !.tables = @ + 1])

OtherTable ==
  /\ \E t \in Elements :
       /\ t.kind = "table" /\ Pass(t)
       /\ \/ scan.section = "none" /\ scan' = scan
          \/ scan.section = "history" /\ ~IsHistoryTable(t) /\ scan' = ForgetLabel(scan)
  /\ UNCHANGED result

ClosePage ==
  /\ scan.open
  /\ scan' = NoScan
  /\ result' = IF scan.tables = 0 THEN ReportError(result, ThisPage) ELSE result
  /\ UNCHANGED walked

ReleaseHealthStep == \/ OpenPage \/ PageFails \/ OpenSection \/ MeetLabel \/ SummaryTable
                     \/ HistoryTable \/ OtherTable \/ ClosePage
ReleaseHealthDone == ~scan.open /\ Len(walked) = Len(Pages)

-----------------------------------------------------------------------------
(* What the pages said, told from the place of a table on its page *)

SectionAt(l, i) ==
  IF Headings(l, i) = {} THEN "none" ELSE l[Max(Headings(l, i))].section
Directly(page, l, i) ==
  IF i > 1 /\ l[i - 1].kind = "label" THEN l[i - 1].heading ELSE OsHeading[page]
HistoryAt(l) ==
  {i \in DOMAIN l : l[i].kind = "table" /\ SectionAt(l, i) = "history" /\ IsHistoryTable(l[i])}
ReadAt(l) == {i \in HistoryAt(l) : HasColumns(l[i])}

\* What table i of a page tells of the version its own heading names: the one directly
\* before the table, or else the operating system itself.
Told(page, l, i) ==
  {HistoryPatch(ProductOf(page, Directly(page, l, i)), l[i], row) :
     row \in {x \in ToSet(l[i].rows) : Usable(l[i], x)}}

\* Every row of a history table is reported for the version its own heading names; no
\* heading of another section, of an earlier table or of one that was not a history
\* table names it (the pending_label of _fetch_page).
ReleaseRowsFollowTheirHeading ==
  result.patches =
    UNION {UNION {Told(Pages[n], walked[n], i) : i \in ReadAt(walked[n])} : n \in DOMAIN walked}

\* The summary rows before table i, by table and row, that tell of a version's end.
SummariesAt(l, i) ==
  {j \in 1 .. i : l[j].kind = "table" /\ SectionAt(l, j) = "summary" /\ "version" \in l[j].columns}
Speaks(l, i, code) == UNION {{j} \X Speaking(l[j], code) : j \in SummariesAt(l, i)}
Before(x, y) == x[1] < y[1] \/ (x[1] = y[1] /\ x[2] < y[2])

\* A product's end of support is what the last summary row of its version says
\* before its history table: the latest date of that row, or that it is over; and
\* nothing if no row speaks of it.
EndOfLifeIsTheLastSaid ==
  \A n \in DOMAIN walked : \A i \in ReadAt(walked[n]) :
    LET l     == walked[n]
        h     == Directly(Pages[n], l, i)
        spoke == Speaks(l, i, VersionCode(h))
    IN \E p \in result.products :
         /\ p.key = ProductOf(Pages[n], h)
         /\ spoke = {} => p.end = Absent /\ ~p.ended
         /\ \A x \in spoke : (\A y \in spoke \ {x} : Before(y, x)) =>
              LET days == EndTexts(l[x[1]], l[x[1]].rows[x[2]]) \cap Days
              IN p.ended = (days = {}) /\ p.end = IF days = {} THEN Absent ELSE Max(days)
=============================================================================
