----------------------------- MODULE ProductTable -----------------------------
(***************************************************************************)
(* The "products" table (app/models.py, class Product): a function from    *)
(* the keys to what the sources say of a product's support.  A source's    *)
(* listing is one, too: a key it lists twice counts once, with the last    *)
(* ended and the last end it gave.  The names are left out.                *)
(***************************************************************************)
EXTENDS PatchTable

CONSTANTS Ends, \* dates at which support ends
          NoEnd \* None

ASSUME EndsAssumption == NoEnd \notin Ends

About    == [end : Ends \cup {NoEnd}, ended : BOOLEAN]
Listings == UNION {[D -> About] : D \in SUBSET Products}

\* Mutant: a listing without a date takes the date away.
UpsertedWhole(t, l) == l

\* _upsert_product, for every product listed: a date stays until there is another
\* one, support_ended is what the last source that lists the product says.
Upserted(t, l) ==
  [p \in DOMAIN l |->
     [l[p] EXCEPT !.end = IF @ = NoEnd /\ p \in DOMAIN t THEN t[p].end ELSE @]]
=============================================================================
