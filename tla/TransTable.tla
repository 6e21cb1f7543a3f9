----------------------------- MODULE TransTable -----------------------------
(***************************************************************************)
(* The lockless transposition table (src/src/transposition_table.c),       *)
(* word by word.  A slot is a key word and an entry word, read and written *)
(* one at a time and without a lock; the key word holds key ^ entry.  The  *)
(* items are volatile but not atomic, so another worker may see the two    *)
(* accesses of an operation in either order.                               *)
(*                                                                         *)
(* A word is the set of the independent values XORed into it, and ^ is the *)
(* symmetric difference: {} is 0, {k} a key, {e} an entry, {k, e} their    *)
(* XOR.  Coincidences of 64-bit values are left out.                       *)
(*                                                                         *)
(* The move and the score of an entry are one value, "best"; age is always *)
(* 0 in the program.  bot_init makes one worker today; the table is        *)
(* written, and its comments argue, for several.                           *)
(***************************************************************************)
EXTENDS Integers

CONSTANTS
  Workers,     \* the threads that search
  Keys,        \* zobrist keys
  Slots,       \* the indices of table_t.items
  Index,       \* key % capacity
  Types,       \* the entry types other than TT_EMPTY
  Exact,       \* TT_EXACT
  Bests,       \* best moves with their scores
  Depths,      \* the depths a search stores: any int, also a negative one
  Policies,    \* the stores in use: "always", "pv", "depth"
  Byte,        \* 2^8: an entry has 8 bits for the depth
  NoEntry,     \* the entry 0
  NoReply,     \* a worker that has not looked anything up yet
  NoArg        \* a worker outside the table's functions

Entries == [type : Types, best : Bests, depth : 0 .. Byte - 1]
Requests == [key : Keys, type : Types, best : Bests, depth : Depths]
LookUps == [key : Keys]

ASSUME IndexAssumption == Index \in [Keys -> Slots]
ASSUME DepthAssumption == Depths \subseteq Int /\ Byte \in Nat \ {0}
ASSUME TypeAssumption == Exact \in Types
ASSUME WordAssumption ==
  /\ \A k \in Keys : k \notin Entries
  /\ NoEntry \notin Entries

VARIABLES
  keyWord,     \* items[index].key
  entryWord,   \* items[index].entry
  op,          \* where each worker is: idle, get, look or put
  todo,        \* the words the operation has still to access
  arg,         \* the arguments of the operation
  seenKey,     \* stored_key of tt_get
  seenEntry,   \* stored_entry of tt_get
  origin,      \* history: the stores begun
  reply        \* history: the key and the answer of each worker's last tt_get

tableVars == <<keyWord, entryWord>>
seenVars == <<seenKey, seenEntry>>
histVars == <<origin, reply>>
vars == <<tableVars, op, todo, arg, seenVars, histVars>>

Xor(a, b) == (a \ b) \union (b \ a)

EntryWords == {{}} \union {{e} : e \in Entries}
KeyWords == {{}} \union {{k, e} : k \in Keys, e \in Entries}

TypeOK ==
  /\ keyWord \in [Slots -> KeyWords]
  /\ entryWord \in [Slots -> EntryWords]
  /\ op \in [Workers -> {"idle", "get", "look", "put"}]
  /\ todo \in [Workers -> SUBSET {"key", "entry"}]
  /\ arg \in [Workers -> LookUps \union Requests \union {NoArg}]
  /\ \A w \in Workers :
       /\ op[w] = "idle" => arg[w] = NoArg
       /\ op[w] = "get" => arg[w] \in LookUps
       /\ op[w] \in {"look", "put"} => arg[w] \in Requests
  /\ seenKey \in [Workers -> KeyWords]
  /\ seenEntry \in [Workers -> EntryWords]
  /\ origin \subseteq Requests
  /\ reply \in [Workers -> (Keys \X (Entries \union {NoEntry})) \union {NoReply}]

\* tt_init: calloc.
Init ==
  /\ keyWord = [s \in Slots |-> {}]
  /\ entryWord = [s \in Slots |-> {}]
  /\ op = [w \in Workers |-> "idle"]
  /\ todo = [w \in Workers |-> {}]
  /\ arg = [w \in Workers |-> NoArg]
  /\ seenKey = [w \in Workers |-> {}]
  /\ seenEntry = [w \in Workers |-> {}]
  /\ origin = {}
  /\ reply = [w \in Workers |-> NoReply]

-----------------------------------------------------------------------------
\* make_entry keeps the low 8 bits of the depth.
MakeEntry(r) == [type |-> r.type, best |-> r.best, depth |-> r.depth % Byte]

SlotOf(w) == Index[arg[w].key]

Begin(w, name, a, words) ==
  /\ op[w] = "idle"
  /\ op' = [op EXCEPT ![w] = name]
  /\ arg' = [arg EXCEPT ![w] = a]
  /\ todo' = [todo EXCEPT ![w] = words]

Access(w, name, word) ==
  /\ op[w] = name /\ word \in todo[w]
  /\ todo' = [todo EXCEPT ![w] = @ \ {word}]
  /\ UNCHANGED <<op, arg>>

Finish(w, name) ==
  /\ op[w] = name /\ todo[w] = {}
  /\ op' = [op EXCEPT ![w] = "idle"]
  /\ arg' = [arg EXCEPT ![w] = NoArg]
  /\ UNCHANGED todo

-----------------------------------------------------------------------------
(* tt_get                                                                   *)

BeginGet(w, k) ==
  /\ Begin(w, "get", [key |-> k], {"key", "entry"})
  /\ UNCHANGED <<tableVars, seenVars, histVars>>

LoadKey(w) ==
  /\ Access(w, "get", "key")
  /\ seenKey' = [seenKey EXCEPT ![w] = keyWord[SlotOf(w)]]
  /\ UNCHANGED <<tableVars, seenEntry, histVars>>

LoadEntry(w) ==
  /\ Access(w, "get", "entry")
  /\ seenEntry' = [seenEntry EXCEPT ![w] = entryWord[SlotOf(w)]]
  /\ UNCHANGED <<tableVars, seenKey, histVars>>

\* Mutant: only the key word is compared.
MatchesKeyOnly(k, kw, ew) == k \in kw /\ ew # {}

\* The test of tt_get; an entry word that passes it is the answer.
Matches(k, kw, ew) == Xor(kw, ew) = {k}

Return(w) ==
  /\ Finish(w, "get")
  /\ \E e \in Entries \union {NoEntry} :
       /\ IF Matches(arg[w].key, seenKey[w], seenEntry[w])
            THEN seenEntry[w] = {e} ELSE e = NoEntry
       /\ reply' = [reply EXCEPT ![w] = <<arg[w].key, e>>]
  /\ seenKey' = [seenKey EXCEPT ![w] = {}]
  /\ seenEntry' = [seenEntry EXCEPT ![w] = {}]
  /\ UNCHANGED <<tableVars, origin>>

-----------------------------------------------------------------------------
(* tt_store, tt_store_pv and tt_store_depth_prefered                        *)

Record(r) == origin' = origin \union {r} /\ UNCHANGED reply

Store(w, r) ==
  /\ "always" \in Policies
  /\ Begin(w, "put", r, {"key", "entry"})
  /\ Record(r)
  /\ UNCHANGED <<tableVars, seenVars>>

StorePv(w, r) ==
  /\ "pv" \in Policies /\ r.type = Exact
  /\ Begin(w, "put", r, {"key", "entry"})
  /\ Record(r)
  /\ UNCHANGED <<tableVars, seenVars>>

\* The depth-preferred store looks at the entry that is there first.
BeginDepthPrefered(w, r) ==
  /\ "depth" \in Policies
  /\ Begin(w, "look", r, {})
  /\ UNCHANGED <<tableVars, seenVars, histVars>>

\* Mutant: the older entry is replaced, whatever its depth.
ReplacesAlways(depth, ew) == TRUE

\* Mutant: the comparison is the wrong way round.
ReplacesDeeper(depth, ew) == \A e \in ew : e.depth > depth

Replaces(depth, ew) == \A e \in ew : e.depth < depth

LookAndStore(w) ==
  /\ op[w] = "look" /\ Replaces(arg[w].depth, entryWord[SlotOf(w)])
  /\ op' = [op EXCEPT ![w] = "put"]
  /\ todo' = [todo EXCEPT ![w] = {"key", "entry"}]
  /\ Record(arg[w])
  /\ UNCHANGED <<tableVars, arg, seenVars>>

LookAndLeave(w) ==
  /\ Finish(w, "look")
  /\ ~Replaces(arg[w].depth, entryWord[SlotOf(w)])
  /\ UNCHANGED <<tableVars, seenVars, histVars>>

\* Mutant: the key word is written only if the slot was empty.
WriteKeyOnce(w) ==
  /\ Access(w, "put", "key")
  /\ keyWord' = [keyWord EXCEPT
       ![SlotOf(w)] = IF @ = {} THEN Xor({arg[w].key}, {MakeEntry(arg[w])}) ELSE @]
  /\ UNCHANGED <<entryWord, seenVars, histVars>>

\* Mutant: the key is stored as it is.
WriteKeyPlain(w) ==
  /\ Access(w, "put", "key")
  /\ keyWord' = [keyWord EXCEPT ![SlotOf(w)] = {arg[w].key}]
  /\ UNCHANGED <<entryWord, seenVars, histVars>>

WriteKey(w) ==
  /\ Access(w, "put", "key")
  /\ keyWord' = [keyWord EXCEPT
       ![SlotOf(w)] = Xor({arg[w].key}, {MakeEntry(arg[w])})]
  /\ UNCHANGED <<entryWord, seenVars, histVars>>

WriteEntry(w) ==
  /\ Access(w, "put", "entry")
  /\ entryWord' = [entryWord EXCEPT ![SlotOf(w)] = {MakeEntry(arg[w])}]
  /\ UNCHANGED <<keyWord, seenVars, histVars>>

Stored(w) ==
  /\ Finish(w, "put")
  /\ UNCHANGED <<tableVars, seenVars, histVars>>

-----------------------------------------------------------------------------
Next ==
  \E w \in Workers :
    \/ \E k \in Keys : BeginGet(w, k)
    \/ LoadKey(w) \/ LoadEntry(w) \/ Return(w)
    \/ \E r \in Requests : Store(w, r) \/ StorePv(w, r) \/ BeginDepthPrefered(w, r)
    \/ LookAndStore(w) \/ LookAndLeave(w)
    \/ WriteKey(w) \/ WriteEntry(w) \/ Stored(w)

Spec == Init /\ [][Next]_vars

-----------------------------------------------------------------------------
(* Properties.                                                              *)

\* However the accesses of several workers mix, tt_get only ever answers with
\* an entry that was stored for the key it was asked about.
Known == {<<r.key, MakeEntry(r)>> : r \in origin}

Cache == INSTANCE SharedCache WITH known <- Known

CacheSpec == Cache!CacheSpec

\* With one worker no result is lost between its two writes: every slot that is
\* not being written holds a pair that tt_get accepts.
SettledSlots ==
  (\A w \in Workers : op[w] # "put") =>
    \A s \in Slots :
      \/ keyWord[s] = {} /\ entryWord[s] = {}
      \/ \E r \in origin : /\ Index[r.key] = s
                           /\ Matches(r.key, keyWord[s], entryWord[s])
                           /\ entryWord[s] = {MakeEntry(r)}

\* With one worker the table is as good as one that is accessed in one step: a
\* store takes effect when it begins, and a look-up finds its key's entry exactly
\* when the last store let into the slot was for that key.
Held(s) ==
  LET writers == {w \in Workers : op[w] = "put" /\ SlotOf(w) = s} IN
  IF writers # {}
    THEN {[key |-> arg[w].key, entry |-> MakeEntry(arg[w])] : w \in writers}
    ELSE {p \in [key : Keys, entry : entryWord[s]] :
            Matches(p.key, keyWord[s], entryWord[s])}

Table == INSTANCE SlotTable WITH slot <- [s \in Slots |-> Held(s)]

TableSpec == Table!SlotSpec

\* With one worker an entry only gives way to a deeper one.
DeeperStays ==
  [][\A s \in Slots : \A old \in entryWord[s] : \A new \in entryWord'[s] :
       new = old \/ old.depth < new.depth]_entryWord

\* "stores using depth prefered policy": a store is dropped only in favour of
\* the result of a search that was at least as deep.
DepthPrefered ==
  [][\A w \in Workers :
       LookAndLeave(w) =>
         \E r \in origin : /\ entryWord[SlotOf(w)] = {MakeEntry(r)}
                           /\ r.depth >= arg[w].depth]_vars
=============================================================================
