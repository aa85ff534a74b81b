-------------------------- MODULE SqlServerFetcher --------------------------
(***************************************************************************)
(* fetch() of the SQL Server source (app/fetchers/sql_server.py): a page   *)
(* per version, taken element by element.  A page is its h2 headings, with *)
(* the track they name, and its tables.                                    *)
(***************************************************************************)
EXTENDS FetchResults

CONSTANTS Versions,      \* VERSIONS, in order
          VersionElements \* version -> the elements that may stand at each place

ASSUME VersionsAssumption ==
  /\ Versions \in Seq(DOMAIN VersionElements)
  /\ \A m, n \in DOMAIN Versions : Versions[m] = Versions[n] => m = n
  /\ \A v \in DOMAIN VersionElements : \A i \in DOMAIN VersionElements[v] :
       \A e \in VersionElements[v][i] :
         /\ e.kind \in {"h2", "builds", "other"}
         /\ e.kind = "builds" => DOMAIN e.rows \subseteq Nat

SqlProduct(v) == <<"sqlserver", v>>

\* _classify_update_type: a heading names the GDR track, or another, or there is none.
TrackType(heading) == IF heading = "gdr" THEN "Security" ELSE "Update"

\* A row too short, or with neither a KB nor a build, is left out.
SqlUsable(row) == ~row.short /\ (row.kb # Absent \/ row.build # Absent)
SqlPatch(v, row, heading) ==
  [product |-> SqlProduct(v), kb |-> row.kb, build |-> row.build, date |-> row.date,
   type |-> TrackType(heading)]

\* urljoin raises on the link of a row, unless the row is too short to get there:
\* it and all that follows on the page is lost.
BreaksOff(row) == ~row.short /\ row.link = "malformed"

\* The usable rows of a table up to the first that breaks off.
TableRows(rows) ==
  {rows[i] : i \in {j \in DOMAIN rows :
                     SqlUsable(rows[j]) /\ \A h \in DOMAIN rows : BreaksOff(rows[h]) => j < h}}

ThisVersion == Versions[Len(walked)]
MoreVersions == Len(walked) < Len(Versions)

SqlElements  == Coming(VersionElements[ThisVersion])

OpenVersion  == MoreVersions /\ Open
VersionFails == MoreVersions /\ Unreadable(SqlProduct(Versions[Len(walked) + 1]))

\* The heading stays until the next one, over any number of tables.
MeetTrack ==
  /\ \E el \in SqlElements :
       el.kind = "h2" /\ Pass(el) /\ scan' = [scan EXCEPT !.label = el.track]
  /\ UNCHANGED result

SkipTable ==
  /\ \E el \in SqlElements : el.kind = "other" /\ Pass(el)
  /\ UNCHANGED <<result, scan>>

\* Mutant: a page that breaks off reports no error.
BrokenQuietly(r, v) == r
Broken(r, v) == ReportError(r, SqlProduct(v))

\* _parse_table; fetch() catches what it raises, and the rows so far stay.
BuildTable ==
  \E t \in SqlElements :
    /\ t.kind = "builds" /\ Pass(t)
    /\ LET read == AddPatches(result, {SqlPatch(ThisVersion, row, scan.label) : row \in TableRows(t.rows)})
       IN IF \E i \in DOMAIN t.rows : BreaksOff(t.rows[i])
          THEN scan' = NoScan /\ result' = Broken(read, ThisVersion)
          ELSE scan' = [scan EXCEPT !.tables = @ + 1] /\ result' = read

\* The product is listed last, if there was a table.
CloseVersion ==
  /\ scan.open
  /\ scan' = NoScan
  /\ result' = IF scan.tables = 0 THEN ReportError(result, SqlProduct(ThisVersion))
               ELSE ListProduct(result, Plain(SqlProduct(ThisVersion)))
  /\ UNCHANGED walked

SqlServerStep == OpenVersion \/ VersionFails \/ MeetTrack \/ SkipTable \/ BuildTable \/ CloseVersion
SqlServerDone == ~scan.open /\ Len(walked) = Len(Versions)

-----------------------------------------------------------------------------
\* The rows of a page in the order they are met, as (element, row).
SqlRowsAt(l) ==
  UNION {{i} \X DOMAIN l[i].rows : i \in {j \in DOMAIN l : l[j].kind = "builds"}}
Precedes(x, y) == x[1] < y[1] \/ (x[1] = y[1] /\ x[2] < y[2])
BreaksAt(l, x) == BreaksOff(l[x[1]].rows[x[2]])
TrackAt(l, i) ==
  IF Headings(l, i) = {} THEN Absent ELSE l[Max(Headings(l, i))].track

\* What a page shows before it breaks off, if it does; and that it has build tables and
\* does not.
Shown(l) == {x \in SqlRowsAt(l) : /\ SqlUsable(l[x[1]].rows[x[2]])
                                 /\ \A y \in SqlRowsAt(l) : BreaksAt(l, y) => Precedes(x, y)}
Breaks(l)     == \E x \in SqlRowsAt(l) : BreaksAt(l, x)
IsUsable(l)   == ~Breaks(l) /\ \E i \in DOMAIN l : l[i].kind = "builds"

\* A version's rows are all that its page shows before it breaks off, each typed by
\* the last heading above its table; and a version whose page broke off, showed no
\* table or could not be read is in the errors, the others in the products: rows
\* of a page that broke off are left without the product (_fetch_version).
EveryVersionIsAccountedFor ==
  \A n \in {m \in DOMAIN walked : m = Len(walked) => ~scan.open} :
    LET v == Versions[n]
        l == walked[n]
    IN /\ IsListed(SqlProduct(v)) <=> IsUsable(l)
       /\ SqlProduct(v) \in result.errors <=> ~IsUsable(l)
       /\ RowsOf(SqlProduct(v)) =
            {SqlPatch(v, l[x[1]].rows[x[2]], TrackAt(l, x[1])) : x \in Shown(l)}
=============================================================================
