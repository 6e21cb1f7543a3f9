----------------------------- MODULE SlotTable -----------------------------
(***************************************************************************)
(* What a search may assume of the transposition table when no other       *)
(* worker uses it: a slot holds the last pair of a key and an entry that   *)
(* the store in use let in, and a look-up answers with the entry of its    *)
(* slot exactly when the pair is that of its key.  Search has a table of   *)
(* this kind.                                                              *)
(***************************************************************************)
EXTENDS Integers

CONSTANTS
  Workers,     \* the threads that use the table
  Keys,        \* zobrist keys
  Slots,       \* the indices of the table
  Index,       \* the slot of a key
  Entries,     \* what can be stored: records with a type and a depth
  Exact,       \* the type of an exact score
  Policies,    \* the stores in use: "always", "pv", "depth"
  NoEntry,     \* the answer of a look-up that finds nothing
  NoReply      \* a worker that has not looked anything up yet

VARIABLES
  slot,        \* the pair in each slot, as a set of at most one
  reply        \* each worker's last look-up: its key and the answer

slotVars == <<slot, reply>>

SlotInit ==
  /\ slot = [s \in Slots |-> {}]
  /\ reply = [w \in Workers |-> NoReply]

LetIn(k, e) ==
  \/ "always" \in Policies
  \/ "pv" \in Policies /\ e.type = Exact
  \/ "depth" \in Policies /\ \A p \in slot[Index[k]] : p.entry.depth < e.depth

Put(k, e) ==
  /\ LetIn(k, e)
  /\ slot' = [slot EXCEPT ![Index[k]] = {[key |-> k, entry |-> e]}]
  /\ UNCHANGED reply

Find(w, k) ==
  /\ \E e \in Entries \union {NoEntry} :
       /\ IF e = NoEntry THEN \A p \in slot[Index[k]] : p.key # k
                         ELSE [key |-> k, entry |-> e] \in slot[Index[k]]
       /\ reply' = [reply EXCEPT ![w] = <<k, e>>]
  /\ UNCHANGED slot

SlotNext ==
  \/ \E k \in Keys, e \in Entries : Put(k, e)
  \/ \E w \in Workers, k \in Keys : Find(w, k)

SlotSpec == SlotInit /\ [][SlotNext]_slotVars
=============================================================================
