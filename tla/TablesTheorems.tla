--------------------------- MODULE TablesTheorems ---------------------------
(* Facts about the bucket operations of Tables, for any keys and records.   *)
EXTENDS Tables, TLAPS

\* The two ways of saying that t is a table agree.
LEMMA TableIsTable ==
  ASSUME NEW K, NEW V, NEW t
  PROVE  t \in Table(K, V) <=> IsTable(t, K, V)
<1>1. ASSUME t \in Table(K, V) PROVE IsTable(t, K, V)
  <2>1. PICK D \in SUBSET K : t \in [D -> V]
    BY <1>1 DEF Table
  <2> QED BY <2>1 DEF IsTable
<1>2. ASSUME IsTable(t, K, V) PROVE t \in Table(K, V)
  BY <1>2 DEF Table, IsTable
<1> QED BY <1>1, <1>2

\* A bucket without records is a table.
LEMMA EmptyIsTable ==
  ASSUME NEW K, NEW V
  PROVE  IsTable(EmptyTable, K, V) /\ DOMAIN EmptyTable = {}
BY DEF IsTable, EmptyTable

\* Put writes one record, whether or not the key is present, and leaves the
\* others alone.
LEMMA PutTable ==
  ASSUME NEW K, NEW V, NEW t, IsTable(t, K, V), NEW k \in K, NEW v \in V
  PROVE  /\ IsTable(Put(t, k, v), K, V)
         /\ DOMAIN Put(t, k, v) = DOMAIN t \cup {k}
         /\ Put(t, k, v)[k] = v
         /\ \A x \in DOMAIN t : x # k => Put(t, k, v)[x] = t[x]
BY DEF IsTable, Put

\* Drop removes the records of the keys it is given and no other.
LEMMA DropTable ==
  ASSUME NEW K, NEW V, NEW t, IsTable(t, K, V), NEW ks
  PROVE  /\ IsTable(Drop(t, ks), K, V)
         /\ DOMAIN Drop(t, ks) = DOMAIN t \ ks
         /\ \A x \in DOMAIN t \ ks : Drop(t, ks)[x] = t[x]
BY DEF IsTable, Drop

\* Replacing the record of a key that is present.
LEMMA ExceptTable ==
  ASSUME NEW K, NEW V, NEW t, IsTable(t, K, V), NEW k \in DOMAIN t, NEW v \in V
  PROVE  /\ IsTable([t EXCEPT ![k] = v], K, V)
         /\ DOMAIN [t EXCEPT ![k] = v] = DOMAIN t
         /\ [t EXCEPT ![k] = v][k] = v
         /\ \A x \in DOMAIN t : x # k => [t EXCEPT ![k] = v][x] = t[x]
BY DEF IsTable

\* A record found under a key that is present is a record of the table.
LEMMA TableValue ==
  ASSUME NEW K, NEW V, NEW t, IsTable(t, K, V), NEW k \in DOMAIN t
  PROVE  k \in K /\ t[k] \in V
BY DEF IsTable
=============================================================================
