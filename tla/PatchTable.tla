------------------------------ MODULE PatchTable ------------------------------
(***************************************************************************)
(* The "patches" table (app/models.py, class Patch) and the values that    *)
(* flow into it: what a fetcher reports about one release (PatchInfo) and  *)
(* the KB hints one fetcher has about another one's rows.                  *)
(*                                                                         *)
(* A table is a function from row ids to rows.  The columns a refresh      *)
(* always writes together (title, severity, release_date) are one value,   *)
(* "info"; the month of its release date is MonthOf[info], NoMonth when    *)
(* the date is NULL.  update_type, source and the timestamps are left out. *)
(***************************************************************************)
EXTENDS Naturals, Sequences

CONSTANTS Products,  \* product keys
          KBs,       \* KB numbers
          Builds,    \* build numbers
          Infos,     \* title + severity + release_date
          Urls,      \* values of kb_url
          Months,    \* year-months
          MonthOf,   \* the month of an info's release_date
          Blank,     \* "" : a source that has no KB number or no build
          NoMonth    \* strftime of a release_date that is NULL

ASSUME BlankAssumption == Blank \notin KBs \cup Builds
ASSUME MonthAssumption == /\ NoMonth \notin Months
                          /\ MonthOf \in [Infos -> Months \cup {NoMonth}]

Item  == [product : Products, kb : KBs \cup {Blank}, build : Builds \cup {Blank},
          info : Infos, url : Urls]
Row   == [product : Products, kb : KBs \cup {Blank}, build : Builds \cup {Blank},
          info : Infos, url : Urls, manual : BOOLEAN]
Key   == [product : Products, kb : KBs \cup {Blank}, build : Builds \cup {Blank}]

Hint  == [kb : KBs, url : Urls]
Hints == UNION {[D -> Hint] : D \in SUBSET (Products \X Months)}

\* Tables: functions from some row ids to rows.
IsTable(t) == DOMAIN t \subseteq Nat /\ t \in [DOMAIN t -> Row]
Empty == [id \in {} |-> {}]

\* The table an open transaction sees: the committed rows under its own writes.
Overlay(t, w) == [id \in DOMAIN t \cup DOMAIN w |-> IF id \in DOMAIN w THEN w[id] ELSE t[id]]
Put(t, id, r) == [i \in DOMAIN t \cup {id} |-> IF i = id THEN r ELSE t[i]]
Drop(t, id)   == [i \in DOMAIN t \ {id} |-> t[i]]

\* The natural key: UniqueConstraint("product_id", "kb_number", "build").
KeyOf(r) == [product |-> r.product, kb |-> r.kb, build |-> r.build]

\* Mutant: "" stored as NULL, which a unique constraint never finds equal.
WithKeyNull(t, k) == {id \in DOMAIN t : KeyOf(t[id]) = k /\ k.kb # Blank /\ k.build # Blank}
\* Mutant: the build-only branch looks for the full (kb_number, build) key.
WithBuildAndBlank(t, p, b) ==
  {id \in DOMAIN t : t[id].product = p /\ t[id].build = b /\ t[id].kb = Blank}

WithKey(t, k)      == {id \in DOMAIN t : KeyOf(t[id]) = k}
WithBuild(t, p, b) == {id \in DOMAIN t : t[id].product = p /\ t[id].build = b}
UniqueKeys(t)      == \A i, j \in DOMAIN t : KeyOf(t[i]) = KeyOf(t[j]) => i = j

\* A row as a refresh inserts it.
Scraped(it) == [product |-> it.product, kb |-> it.kb, build |-> it.build,
                info |-> it.info, url |-> it.url, manual |-> FALSE]

\* Releases identified by their build alone: the build-only branch of _upsert_patch.
BuildOnly(it) == it.build # Blank /\ it.kb = Blank

\* Mutants: no self-healing; no test of manually_edited; the KB number written too.
RefreshedNever(r, it)  == r
RefreshedAlways(r, it) == [r EXCEPT !.info = it.info]
RefreshedKBToo(r, it)  == IF r.manual THEN r ELSE [r EXCEPT !.info = it.info, !.kb = it.kb]
RefreshedKeyAlways(r, it) == [r EXCEPT !.info = it.info, !.url = it.url]

\* "UPDATE ... WHERE id = x AND manually_edited IS FALSE": what the build-only
\* branch, and the (kb, build) branch, write to a row that exists already.
RefreshedByBuild(r, it) == IF r.manual THEN r ELSE [r EXCEPT !.info = it.info]
RefreshedByKey(r, it)   == IF r.manual THEN r ELSE [r EXCEPT !.info = it.info, !.url = it.url]

\* What _apply_patch_kb_hints selects, and the hint found for each row.
HintRow == [id : Nat, kb : KBs, url : Urls]
HintsFor(t, hints) ==
  LET Month(id) == <<t[id].product, MonthOf[t[id].info]>>
      targets == {id \in DOMAIN t : /\ t[id].kb = Blank
                                    /\ t[id].build # Blank
                                    /\ ~t[id].manual
                                    /\ Month(id) \in DOMAIN hints}
  IN {[id |-> id, kb |-> hints[Month(id)].kb, url |-> hints[Month(id)].url] : id \in targets}
=============================================================================
