------------------------------- MODULE Tables -------------------------------
(***************************************************************************)
(* A bucket of the embedded database (api/database/boltdb) is a table: a   *)
(* function from the identifiers that are present to their records.        *)
(* Portainer writes a record with Put whether or not the key exists:       *)
(* UpdateObject is bucket.Put, so an update of a deleted record brings it  *)
(* back.  DeleteObject of a missing key is not an error.  The maps that    *)
(* services keep in memory behave alike.                                   *)
(***************************************************************************)

\* Tables with keys in K and values in V: as a set (for a small K and V) and as
\* a predicate.
Table(K, V) == UNION {[D -> V] : D \in SUBSET K}

IsTable(t, K, V) == DOMAIN t \subseteq K /\ t \in [DOMAIN t -> V]

EmptyTable == [k \in {} |-> k]

\* UpdateObject and CreateObjectWithId: write the record, present or not.
Put(t, k, v) == [x \in DOMAIN t \cup {k} |-> IF x = k THEN v ELSE t[x]]

\* DeleteObject for every key of ks.
Drop(t, ks) == [x \in DOMAIN t \ ks |-> t[x]]

=============================================================================
