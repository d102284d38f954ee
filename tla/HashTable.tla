----------------------------- MODULE HashTable -----------------------------
(***************************************************************************)
(* libs/DSA/hash_table: chained buckets.  A node is named by the datum it   *)
(* carries.  hash is a function from keys to buckets; keys are compared by  *)
(* their first MAX_LENGTH characters, so that what the table tells apart is *)
(* the pair of the two, the name of a key.                                  *)
(*                                                                         *)
(* add, remove, find, list and clear do all their work under the lock and   *)
(* are one action each.  hash_table_lookup takes no lock: each node it      *)
(* visits is a step of its own.  What it may meet half way through a locked *)
(* section it may also meet after it: a node is complete before the one     *)
(* store that links it, and a node that is being freed is as undefined to   *)
(* read as one that was.                                                    *)
(*                                                                         *)
(* Reading a freed node, writing more results than find and list have room  *)
(* for, or any where they have none, is undefined and ends the behaviour;   *)
(* so is any use of a table whose buckets could not be allocated.           *)
(***************************************************************************)
EXTENDS Naturals, Sequences, FiniteSets

CONSTANTS Threads,   \* the threads that look up
          Data, Keys,
          Size,      \* the number of buckets
          Bucket,    \* what hash gives for each key
          Prefix,    \* what strncmp compares of each key
          NULL

Buckets == 1..Size

ASSUME TableConstants ==
  /\ Size \in Nat \ {0}
  /\ Bucket \in [Keys -> Buckets]
  /\ NULL \notin Data /\ NULL \notin Keys /\ IsFiniteSet(Data)

VARIABLES
  table, next, key,     \* the buckets; next and key of each node
  freed,                \* the data whose nodes were freed, with what they carry
  given,                \* history: what hash_table_add returned E_SUCCESS for
  status,               \* "ok", or what went wrong
  pc, cursor, sought,   \* where each lookup is, its p_current_node and its key
  seen, always          \* history: data under the key sought at some time, and
                        \* at all times, since the lookup began

tableVars  == <<table, next, key, freed>>
lookupVars == <<pc, cursor, sought>>
vars       == <<tableVars, given, lookupVars, status, seen, always>>

Statuses ==
  {"ok", "freed_node", "overrun", "no_results", "destroyed", "no_buckets", "undefined"}

TypeOK ==
  /\ table \in [Buckets -> Data \union {NULL}]
  /\ next \in [Data -> Data \union {NULL}]
  /\ key \in [Data -> Keys \union {NULL}]
  /\ freed \in SUBSET Data /\ given \in SUBSET Data
  /\ status \in Statuses
  /\ pc \in [Threads -> {"idle", "walk", "found", "missing"}]
  /\ cursor \in [Threads -> Data \union {NULL}]
  /\ sought \in [Threads -> Keys \union {NULL}]
  /\ seen \in [Threads -> SUBSET Data] /\ always \in [Threads -> SUBSET Data]

(* hash_table_init: the buckets may not be allocated, and what is returned  *)
(* then has size 0, no customfree and a lock that was not initialised.      *)
Init ==
  /\ table = [b \in Buckets |-> NULL]
  /\ next = [d \in Data |-> NULL] /\ key = [d \in Data |-> NULL]
  /\ freed = {} /\ given = {} /\ status \in {"ok", "no_buckets"}
  /\ pc = [t \in Threads |-> "idle"]
  /\ cursor = [t \in Threads |-> NULL] /\ sought = [t \in Threads |-> NULL]
  /\ seen = [t \in Threads |-> {}] /\ always = [t \in Threads |-> {}]

----------------------------------------------------------------------------
(* The node i steps from the head of a bucket, and the chain of a bucket.   *)
Follow(n) == IF n = NULL THEN NULL ELSE next[n]
Nth(b) == LET node[i \in Nat] == IF i = 0 THEN table[b] ELSE Follow(node[i - 1]) IN node

Nodes(b)       == {Nth(b)[i] : i \in 0..Cardinality(Data)} \ {NULL}
ChainLength(b) == Cardinality(Nodes(b))
Chain(b)       == [i \in 1..ChainLength(b) |-> Nth(b)[i - 1]]
InTable(d)     == \E b \in Buckets : d \in Nodes(b)

(* 0 == strncmp(node->key, key, MAX_LENGTH)                                 *)
SameKey(d, k) == Prefix[key[d]] = Prefix[k]

(* What the table has under a key.                                          *)
Under(k) == {d \in Data : InTable(d) /\ Bucket[key[d]] = Bucket[k] /\ SameKey(d, k)}

(* The lookups in progress witness a change of the table.                   *)
Witness ==
  /\ seen' = [t \in Threads |->
                IF pc[t] = "walk" THEN seen[t] \union Under(sought[t])' ELSE seen[t]]
  /\ always' = [t \in Threads |->
                  IF pc[t] = "walk" THEN always[t] \intersect Under(sought[t])' ELSE always[t]]

----------------------------------------------------------------------------
(* Into an empty bucket, or behind the last node of its chain.              *)
Link(b, d) ==
  IF table[b] = NULL
    THEN table' = [table EXCEPT ![b] = d] /\ next' = [next EXCEPT ![d] = NULL]
    ELSE /\ next' = [next EXCEPT ![d] = NULL, ![Chain(b)[ChainLength(b)]] = d]
         /\ UNCHANGED table

(* Any call divides by the size or takes the lock.                          *)
UseNoBuckets ==
  /\ status = "no_buckets" /\ status' = "undefined"
  /\ UNCHANGED <<tableVars, given, lookupVars, seen, always>>

(* A program adds a datum it has and that is not in the table.              *)
hash_table_add(d, k) ==
  /\ status = "ok" /\ ~InTable(d) /\ d \notin freed
  /\ key' = [key EXCEPT ![d] = k]
  /\ Link(Bucket[k], d)
  /\ given' = given \union {d}
  /\ UNCHANGED <<freed, status, lookupVars>>
  /\ Witness

(* No memory for the node: exit_code is what hash returned, E_SUCCESS.      *)
hash_table_add_fails(d) ==
  /\ status = "ok" /\ ~InTable(d) /\ d \notin freed
  /\ given' = given \union {d}
  /\ UNCHANGED <<tableVars, status, lookupVars, seen, always>>

(* Mutant: the predecessor is not updated.                                  *)
Unlink_keeps_prev(b, i) ==
  /\ table' = IF i = 1 THEN [table EXCEPT ![b] = next[@]] ELSE table
  /\ UNCHANGED next

(* The i-th node of a bucket is taken out of its chain.                     *)
Unlink(b, i) ==
  LET current == Chain(b)[i] IN
  IF i = 1
    THEN table' = [table EXCEPT ![b] = next[current]] /\ UNCHANGED next
    ELSE next' = [next EXCEPT ![Chain(b)[i - 1]] = next[current]] /\ UNCHANGED table

(* Where in the chain of its bucket nodes with the key are.                 *)
Places(k) == LET chain == Chain(Bucket[k]) IN {i \in DOMAIN chain : SameKey(chain[i], k)}

(* Mutant: the last node with the key is removed instead of the first.      *)
Matching_last(k) == LET places == Places(k) IN {i \in places : \A j \in places : j <= i}

(* The place of the first node with the key, if there is one: after the     *)
(* removal p_current_node is NULL, which ends the loop.                     *)
Matching(k) == LET places == Places(k) IN {i \in places : \A j \in places : i <= j}

hash_table_remove(k) ==
  /\ status = "ok"
  /\ \E i \in Matching(k) :
       Unlink(Bucket[k], i) /\ freed' = freed \union {Chain(Bucket[k])[i]}
  /\ UNCHANGED <<key, given, status, lookupVars>>
  /\ Witness

(* customfree for every datum of every chain; all buckets empty.            *)
ClearBuckets ==
  /\ freed' = freed \union {d \in Data : InTable(d)}
  /\ table' = [b \in Buckets |-> NULL]
  /\ UNCHANGED <<next, key, given>>

hash_table_clear ==
  /\ status = "ok"
  /\ ClearBuckets
  /\ UNCHANGED <<status, lookupVars>>
  /\ Witness

(* The caller of hash_table_destroy is the last user of the table.          *)
hash_table_destroy ==
  /\ status = "ok" /\ \A t \in Threads : pc[t] = "idle"
  /\ ClearBuckets
  /\ status' = "destroyed"
  /\ UNCHANGED <<lookupVars, seen, always>>

(* find and list: room for one result per bucket is allocated, unless that  *)
(* fails; one per entry (that matches) is written.  For list all match.     *)
hash_table_find(matches) ==
  /\ status = "ok"
  /\ LET results == Cardinality({d \in Data : InTable(d) /\ key[d] \in matches}) IN
       \/ results > Size /\ status' = "overrun"
       \/ results > 0 /\ status' = "no_results"
  /\ UNCHANGED <<tableVars, given, lookupVars, seen, always>>

hash_table_list == hash_table_find(Keys)

----------------------------------------------------------------------------
(* hash_table_lookup: reads the bucket ...                                  *)
LookupBegin(t, k) ==
  /\ status = "ok" /\ pc[t] = "idle"
  /\ pc' = [pc EXCEPT ![t] = "walk"]
  /\ cursor' = [cursor EXCEPT ![t] = table[Bucket[k]]]
  /\ sought' = [sought EXCEPT ![t] = k]
  /\ seen' = [seen EXCEPT ![t] = Under(k)] /\ always' = [always EXCEPT ![t] = Under(k)]
  /\ UNCHANGED <<tableVars, given, status>>

(* Mutant: the last node of a chain is not looked at.                       *)
LookupEnd_early(t) ==
  /\ status = "ok" /\ pc[t] = "walk"
  /\ IF cursor[t] = NULL THEN TRUE ELSE next[cursor[t]] = NULL /\ cursor[t] \notin freed
  /\ pc' = [pc EXCEPT ![t] = "missing"]
  /\ UNCHANGED <<tableVars, given, status, cursor, sought, seen, always>>

(* ... and walks along next until it runs off the chain ...                 *)
LookupEnd(t) ==
  /\ status = "ok" /\ pc[t] = "walk" /\ cursor[t] = NULL
  /\ pc' = [pc EXCEPT ![t] = "missing"]
  /\ UNCHANGED <<tableVars, given, status, cursor, sought, seen, always>>

(* ... or finds the key ...                                                 *)
LookupStep(t) ==
  /\ status = "ok" /\ pc[t] = "walk" /\ cursor[t] \in Data \ freed
  /\ IF SameKey(cursor[t], sought[t])
       THEN pc' = [pc EXCEPT ![t] = "found"] /\ UNCHANGED cursor
       ELSE cursor' = [cursor EXCEPT ![t] = next[cursor[t]]] /\ UNCHANGED pc
  /\ UNCHANGED <<tableVars, given, status, sought, seen, always>>

(* ... or meets a node that was freed under its eyes.                       *)
LookupFreed(t) ==
  /\ status = "ok" /\ pc[t] = "walk" /\ cursor[t] \in freed
  /\ status' = "freed_node"
  /\ UNCHANGED <<tableVars, given, lookupVars, seen, always>>

(* It returns the datum of the node, or NULL.                               *)
LookupReturn(t) ==
  /\ status = "ok" /\ pc[t] \in {"found", "missing"}
  /\ pc' = [pc EXCEPT ![t] = "idle"]
  /\ cursor' = [cursor EXCEPT ![t] = NULL] /\ sought' = [sought EXCEPT ![t] = NULL]
  /\ seen' = [seen EXCEPT ![t] = {}] /\ always' = [always EXCEPT ![t] = {}]
  /\ UNCHANGED <<tableVars, given, status>>

----------------------------------------------------------------------------
Lookup(t) ==
  \/ LookupEnd(t) \/ LookupStep(t) \/ LookupFreed(t) \/ LookupReturn(t)
  \/ \E k \in Keys : LookupBegin(t, k)

Next ==
  \/ UseNoBuckets
  \/ \E d \in Data : hash_table_add_fails(d) \/ \E k \in Keys : hash_table_add(d, k)
  \/ \E k \in Keys : hash_table_remove(k)
  \/ \E matches \in SUBSET Keys : hash_table_find(matches)
  \/ hash_table_list \/ hash_table_clear \/ hash_table_destroy
  \/ \E t \in Threads : Lookup(t)

Spec == Init /\ [][Next]_vars

----------------------------------------------------------------------------
(* Links lead to nodes, every chain ends, holds nodes of its own bucket     *)
(* only, and none that was freed; no node is in two places.                 *)
ChainsWhole ==
  /\ TypeOK
  /\ \A b \in Buckets :
       /\ Nth(b)[ChainLength(b)] = NULL
       /\ \A d \in Nodes(b) : d \notin freed /\ Bucket[key[d]] = b
       /\ \A c \in Buckets \ {b} : Nodes(b) \intersect Nodes(c) = {}

(* The lookup takes no lock and yet, as long as no node it stands on is     *)
(* freed, its answer is right for some moment of the call: it returns what  *)
(* was in the table under that key, and NULL only if no entry with the key  *)
(* was there all the time.                                                  *)
LookupRight ==
  \A t \in Threads :
    /\ pc[t] = "found" => cursor[t] \in seen[t]
    /\ pc[t] = "missing" => always[t] = {}

(* hash_table_add adds an item to the table: what it returned E_SUCCESS for *)
(* is there until it is freed.                                              *)
AddedIsThere == \A d \in given : InTable(d) \/ d \in freed

Names == {<<Bucket[k], Prefix[k]>> : k \in Keys}

(* The data of a name's bucket that have the name, in the order of the      *)
(* chain; from[m] gives the part from a node on, as far as m nodes go.      *)
HeldUnder(n) ==
  LET from[m \in 0..Cardinality(Data)] ==
        [d \in Data \union {NULL} |->
           IF m = 0 \/ d = NULL THEN <<>>
           ELSE IF Prefix[key[d]] = n[2] THEN <<d>> \o from[m - 1][next[d]]
           ELSE from[m - 1][next[d]]]
  IN  from[Cardinality(Data)][table[n[1]]]

Store == INSTANCE NamedStore WITH held <- [n \in Names |-> HeldUnder(n)]

(* Collisions do not show: keys that share a bucket behave as if each had a *)
(* store of its own, in which a repeated key queues behind the first.       *)
ImplementsStore == Store!Spec
=============================================================================
