----------------------------- MODULE PatchHistory -----------------------------
(***************************************************************************)
(* What the patches table promises its readers (class Patch, app/models.py):*)
(* "Rows are never deleted or edited by the refresh pipeline itself, so    *)
(* the full set of rows for a product IS its history", but for the columns *)
(* a refresh keeps up to date on the rows no human protects.               *)
(***************************************************************************)
EXTENDS PatchTable

VARIABLES table,      \* the committed patches
          corrections \* how many times a human changed it

\* What a refresh may do to a row: nothing if a human protects it; else refresh
\* its info and URL, and fill in the KB number of a release that has only a build.
Refreshed(old, new) ==
  \/ new = old
  \/ /\ ~old.manual
     /\ new \in Row
     /\ new = [old EXCEPT !.kb = new.kb, !.info = new.info, !.url = new.url]
     /\ new.kb = old.kb \/ (old.kb = Blank /\ old.build # Blank)

\* One commit of a refresh: history grows, and no row disappears.
Extend ==
  /\ IsTable(table') /\ UniqueKeys(table')
  /\ \A id \in DOMAIN table : id \in DOMAIN table' /\ Refreshed(table[id], table'[id])
  /\ \A id \in DOMAIN table' \ DOMAIN table : ~table'[id].manual
  /\ UNCHANGED corrections

\* One request of the operator: one row is added, changed or deleted.
Correct ==
  /\ IsTable(table') /\ UniqueKeys(table')
  /\ \E id \in DOMAIN table \cup DOMAIN table' :
       \A other \in (DOMAIN table \cup DOMAIN table') \ {id} :
         other \in DOMAIN table \cap DOMAIN table' /\ table'[other] = table[other]
  /\ corrections' = corrections + 1

InitHistory == table = Empty /\ corrections = 0
NextHistory == Extend \/ Correct
HistorySpec == InitHistory /\ [][NextHistory]_<<table, corrections>>
=============================================================================
