------------------------------ MODULE HashTable ------------------------------
(***************************************************************************)
(* hash_table (hashtab.cxx).  The table is a function from the buckets to  *)
(* the chains of hash_items, an item being [name, obj].  Hash stands for   *)
(* string_hash_function(), of which only the bucket matters.               *)
(***************************************************************************)
EXTENDS Naturals, SequencesExt

CONSTANTS NULL, Hash,   \* the hash code of every name
          size          \* number of buckets

Bucket(name) == Hash[name] % size

HashEmpty == [h \in 0..size - 1 |-> <<>>]

\* Variant: a new item goes to the end of the chain.
hash_append(table, name, obj) ==
  [table EXCEPT ![Bucket(name)] = Append(@, [name |-> name, obj |-> obj])]

hash_put(table, name, obj) ==
  [table EXCEPT ![Bucket(name)] = <<[name |-> name, obj |-> obj]>> \o @]

\* The first of the items at these places of a chain, 0 when there is none.
Found(at) == IF at = {} THEN 0 ELSE CHOOSE i \in at : \A j \in at : i <= j

hash_get(table, name) ==
  LET chain == table[Bucket(name)]
      i     == Found({j \in DOMAIN chain : chain[j].name = name})
  IN  IF i = 0 THEN NULL ELSE chain[i].obj

\* del(name)
hash_del_name(table, name) ==
  LET h == Bucket(name)
      i == Found({j \in DOMAIN table[h] : table[h][j].name = name})
  IN  IF i = 0 THEN [t |-> table, res |-> FALSE]
               ELSE [t |-> [table EXCEPT ![h] = RemoveAt(@, i)], res |-> TRUE]

\* del(name, obj)
hash_del(table, name, obj) ==
  LET h == Bucket(name)
      i == Found({j \in DOMAIN table[h] : table[h][j].obj = obj /\ table[h][j].name = name})
  IN  IF i = 0 THEN [t |-> table, res |-> FALSE]
               ELSE [t |-> [table EXCEPT ![h] = RemoveAt(@, i)], res |-> TRUE]

\* purge()
hash_purge(table) == HashEmpty
=============================================================================
