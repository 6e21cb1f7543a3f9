---------------------------- MODULE SharedCache ----------------------------
(***************************************************************************)
(* What a search may assume of the transposition table it shares: a store  *)
(* may be forgotten at any time, but a look-up never answers with anything *)
(* that was not stored for that very key ("this guarantees correctness",   *)
(* src/include/transposition_table.h).                                     *)
(***************************************************************************)
CONSTANTS
  Workers,     \* the threads that use the table
  Keys,        \* zobrist keys
  Entries,     \* what can be stored
  NoEntry,     \* the entry 0, the answer of a look-up that finds nothing
  NoReply      \* a worker that has not looked anything up yet

VARIABLES
  known,       \* the pairs of a key and an entry that have been stored
  reply        \* each worker's last look-up: its key and the answer

cacheVars == <<known, reply>>

CacheInit ==
  /\ known = {}
  /\ reply = [w \in Workers |-> NoReply]

Put(k, e) ==
  /\ known' = known \union {<<k, e>>}
  /\ UNCHANGED reply

Find(w, k) ==
  /\ \E e \in Entries \union {NoEntry} :
       /\ e = NoEntry \/ <<k, e>> \in known
       /\ reply' = [reply EXCEPT ![w] = <<k, e>>]
  /\ UNCHANGED known

CacheNext ==
  \/ \E k \in Keys, e \in Entries : Put(k, e)
  \/ \E w \in Workers, k \in Keys : Find(w, k)

CacheSpec == CacheInit /\ [][CacheNext]_cacheVars
=============================================================================
