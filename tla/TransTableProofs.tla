-------------------------- MODULE TransTableProofs --------------------------
(***************************************************************************)
(* Theorems about TransTable, for any number of workers, keys, slots and   *)
(* entries, any index function and any mix of the three stores.            *)
(***************************************************************************)
EXTENDS TransTable, TLAPS

LEMMA MakeEntryType ==
  ASSUME NEW r \in Requests
  PROVE  MakeEntry(r) \in Entries
  <1>1. r.type \in Types /\ r.best \in Bests /\ r.depth \in Int
    BY DepthAssumption DEF Requests
  <1>2. r.depth % Byte \in 0 .. Byte - 1
    BY <1>1, DepthAssumption
  <1> QED
    BY <1>1, <1>2 DEF MakeEntry, Entries

\* A key and an entry are never the same word, so XOR keeps both.
LEMMA XorOfKeyAndEntry ==
  ASSUME NEW r \in Requests
  PROVE  /\ Xor({r.key}, {MakeEntry(r)}) = {r.key, MakeEntry(r)}
         /\ Xor({r.key}, {MakeEntry(r)}) \in KeyWords
  <1>1. r.key \in Keys /\ MakeEntry(r) \in Entries
    BY MakeEntryType DEF Requests
  <1>2. r.key # MakeEntry(r)
    BY <1>1, WordAssumption
  <1>3. Xor({r.key}, {MakeEntry(r)}) = {r.key, MakeEntry(r)}
    BY <1>2 DEF Xor
  <1> QED
    BY <1>1, <1>3 DEF KeyWords

-----------------------------------------------------------------------------
(* The key word of a slot, and the one tt_get has read, is that of a store    *)
(* that was begun; so is the entry word.  That the two words of a slot come   *)
(* from the same store is not an invariant: that is what tt_get tests.        *)

GenuineKey(kw) == kw = {} \/ \E r \in origin : kw = {r.key, MakeEntry(r)}
GenuineEntry(ew) == ew = {} \/ \E r \in origin : ew = {MakeEntry(r)}

GenuineSlots ==
  \A s \in Slots : GenuineKey(keyWord[s]) /\ GenuineEntry(entryWord[s])
GenuineSeen == \A w \in Workers : GenuineKey(seenKey[w])
PutIsRecorded == \A w \in Workers : op[w] = "put" => arg[w] \in origin

TableInv == TypeOK /\ GenuineSlots /\ GenuineSeen /\ PutIsRecorded

LEMMA InitTableInv == Init => TableInv
  BY DEF Init, TableInv, TypeOK, GenuineSlots, GenuineSeen, PutIsRecorded,
         GenuineKey, GenuineEntry, KeyWords, EntryWords

\* A match is an answer that was stored for the key.
LEMMA MatchIsGenuine ==
  ASSUME TypeOK, NEW k \in Keys, NEW kw, NEW ew \in EntryWords,
         GenuineKey(kw), Matches(k, kw, ew)
  PROVE  \E r \in origin : r.key = k /\ ew = {MakeEntry(r)}
  <1>1. \A r \in origin : r.key \in Keys /\ MakeEntry(r) \in Entries
    BY MakeEntryType DEF TypeOK, Requests
  <1>2. \A e \in Entries : e \notin Keys
    BY WordAssumption
  <1>3. CASE kw = {}
    BY <1>2, <1>3 DEF Matches, Xor, EntryWords
  <1>4. ASSUME NEW r \in origin, kw = {r.key, MakeEntry(r)}
        PROVE  r.key = k /\ ew = {MakeEntry(r)}
    <2>1. r.key \in Keys /\ MakeEntry(r) \in Entries /\ r.key # MakeEntry(r)
      BY <1>1, <1>2
    <2>2. MakeEntry(r) # k
      BY <1>2, <2>1
    <2>3. MakeEntry(r) \in ew
      BY <1>4, <2>2 DEF Matches, Xor
    <2>4. ew = {MakeEntry(r)}
      BY <2>3 DEF EntryWords
    <2>5. r.key \in Xor(kw, ew)
      BY <1>4, <2>1, <2>4 DEF Xor
    <2> QED
      BY <2>4, <2>5 DEF Matches
  <1> QED
    BY <1>3, <1>4 DEF GenuineKey

LEMMA SlotType ==
  ASSUME TypeOK, NEW w \in Workers, op[w] # "idle"
  PROVE  arg[w].key \in Keys /\ SlotOf(w) \in Slots
  <1>1. op[w] \in {"get", "look", "put"}
    BY DEF TypeOK
  <1>2. arg[w].key \in Keys
    BY <1>1 DEF TypeOK, LookUps, Requests
  <1> QED
    BY <1>2, IndexAssumption DEF SlotOf

\* What a store may still do to what was genuine before.
LEMMA OriginGrows ==
  ASSUME origin \subseteq origin'
  PROVE  /\ \A kw : GenuineKey(kw) => GenuineKey(kw)'
         /\ \A ew : GenuineEntry(ew) => GenuineEntry(ew)'
  BY DEF GenuineKey, GenuineEntry

\* Entering, working through and leaving an operation keep its types.
LEMMA BeginType ==
  ASSUME TypeOK, NEW w \in Workers, NEW a,
         NEW words \in SUBSET {"key", "entry"},
         NEW name \in {"get", "look", "put"}, Begin(w, name, a, words),
         IF name = "get" THEN a \in LookUps ELSE a \in Requests
  PROVE  /\ op' \in [Workers -> {"idle", "get", "look", "put"}]
         /\ todo' \in [Workers -> SUBSET {"key", "entry"}]
         /\ arg' \in [Workers -> LookUps \union Requests \union {NoArg}]
         /\ \A v \in Workers :
              /\ op'[v] = "idle" => arg'[v] = NoArg
              /\ op'[v] = "get" => arg'[v] \in LookUps
              /\ op'[v] \in {"look", "put"} => arg'[v] \in Requests
  BY DEF Begin, TypeOK

LEMMA FinishType ==
  ASSUME TypeOK, NEW w \in Workers, NEW name, Finish(w, name)
  PROVE  /\ op' \in [Workers -> {"idle", "get", "look", "put"}]
         /\ todo' \in [Workers -> SUBSET {"key", "entry"}]
         /\ arg' \in [Workers -> LookUps \union Requests \union {NoArg}]
         /\ \A v \in Workers :
              /\ op'[v] = "idle" => arg'[v] = NoArg
              /\ op'[v] = "get" => arg'[v] \in LookUps
              /\ op'[v] \in {"look", "put"} => arg'[v] \in Requests
  BY DEF Finish, TypeOK

\* A store of r begins: it is recorded before any of its words is written.
LEMMA RecordKeepsInv ==
  ASSUME TableInv, NEW w \in Workers, NEW r \in Requests,
         origin' = origin \union {r}, reply' = reply,
         op' = [op EXCEPT ![w] = "put"], arg' = [arg EXCEPT ![w] = r],
         todo' = [todo EXCEPT ![w] = {"key", "entry"}],
         UNCHANGED <<tableVars, seenVars>>
  PROVE  TableInv'
  <1> USE DEF tableVars, seenVars
  <1>1. TypeOK'
    BY DEF TableInv, TypeOK
  <1>2. GenuineSlots' /\ GenuineSeen'
    BY OriginGrows DEF TableInv, GenuineSlots, GenuineSeen
  <1>3. PutIsRecorded'
    BY DEF TableInv, TypeOK, PutIsRecorded
  <1> QED
    BY <1>1, <1>2, <1>3 DEF TableInv

LEMMA StepTableInv == TableInv /\ [Next]_vars => TableInv'
  <1> SUFFICES ASSUME TableInv, [Next]_vars PROVE TableInv'
    OBVIOUS
  <1> USE DEF tableVars, seenVars, histVars
  <1>t. TypeOK
    BY DEF TableInv
  <1>1. ASSUME NEW w \in Workers, NEW k \in Keys, BeginGet(w, k) PROVE TableInv'
    <2>1. [key |-> k] \in LookUps
      BY DEF LookUps
    <2>2. TypeOK'
      BY <1>1, <1>t, <2>1, BeginType DEF BeginGet, TypeOK
    <2>3. GenuineSlots' /\ GenuineSeen' /\ PutIsRecorded'
      BY <1>1, <1>t
      DEF BeginGet, Begin, TypeOK, TableInv, GenuineSlots, GenuineSeen,
          PutIsRecorded, GenuineKey, GenuineEntry
    <2> QED BY <2>2, <2>3 DEF TableInv
  <1>2. ASSUME NEW w \in Workers, LoadKey(w) PROVE TableInv'
    <2>1. SlotOf(w) \in Slots
      BY <1>2, <1>t, SlotType DEF LoadKey, Access
    <2>2. TypeOK'
      BY <1>2, <1>t, <2>1 DEF LoadKey, Access, TypeOK
    <2>3. GenuineSlots' /\ GenuineSeen' /\ PutIsRecorded'
      BY <1>2, <1>t, <2>1
      DEF LoadKey, Access, TypeOK, TableInv, GenuineSlots, GenuineSeen,
          PutIsRecorded, GenuineKey, GenuineEntry
    <2> QED BY <2>2, <2>3 DEF TableInv
  <1>3. ASSUME NEW w \in Workers, LoadEntry(w) PROVE TableInv'
    <2>1. SlotOf(w) \in Slots
      BY <1>3, <1>t, SlotType DEF LoadEntry, Access
    <2>2. TypeOK'
      BY <1>3, <1>t, <2>1 DEF LoadEntry, Access, TypeOK
    <2>3. GenuineSlots' /\ GenuineSeen' /\ PutIsRecorded'
      BY <1>3, <1>t, <2>1
      DEF LoadEntry, Access, TypeOK, TableInv, GenuineSlots, GenuineSeen,
          PutIsRecorded, GenuineKey, GenuineEntry
    <2> QED BY <2>2, <2>3 DEF TableInv
  <1>4. ASSUME NEW w \in Workers, Return(w) PROVE TableInv'
    <2>1. arg[w].key \in Keys
      BY <1>4, <1>t, SlotType DEF Return, Finish
    <2>2. reply' \in [Workers -> (Keys \X (Entries \union {NoEntry}))
                                   \union {NoReply}]
      BY <1>4, <1>t, <2>1 DEF Return, TypeOK
    <2>3. /\ seenKey' \in [Workers -> KeyWords]
          /\ seenEntry' \in [Workers -> EntryWords]
      BY <1>4, <1>t DEF Return, TypeOK, KeyWords, EntryWords
    <2>4. TypeOK'
      BY <1>4, <1>t, <2>2, <2>3, FinishType DEF Return, TypeOK
    <2>5. GenuineSlots' /\ GenuineSeen' /\ PutIsRecorded'
      BY <1>4, <1>t
      DEF Return, Finish, TypeOK, TableInv, GenuineSlots, GenuineSeen,
          PutIsRecorded, GenuineKey, GenuineEntry
    <2> QED BY <2>4, <2>5 DEF TableInv
  <1>5. ASSUME NEW w \in Workers, NEW r \in Requests,
               Store(w, r) \/ StorePv(w, r)
        PROVE  TableInv'
    BY <1>5, RecordKeepsInv DEF Store, StorePv, Begin, Record
  <1>6. ASSUME NEW w \in Workers, NEW r \in Requests, BeginDepthPrefered(w, r)
        PROVE  TableInv'
    <2>1. TypeOK'
      BY <1>6, <1>t, BeginType DEF BeginDepthPrefered, TypeOK
    <2>2. GenuineSlots' /\ GenuineSeen' /\ PutIsRecorded'
      BY <1>6, <1>t
      DEF BeginDepthPrefered, Begin, TypeOK, TableInv, GenuineSlots,
          GenuineSeen, PutIsRecorded, GenuineKey, GenuineEntry
    <2> QED BY <2>1, <2>2 DEF TableInv
  <1>7. ASSUME NEW w \in Workers, LookAndStore(w) PROVE TableInv'
    <2>1. arg[w] \in Requests /\ arg' = [arg EXCEPT ![w] = arg[w]]
      BY <1>7, <1>t DEF LookAndStore, TypeOK
    <2> QED
      BY <1>7, <2>1, RecordKeepsInv DEF LookAndStore, Record
  <1>8. ASSUME NEW w \in Workers, LookAndLeave(w) PROVE TableInv'
    <2>1. TypeOK'
      BY <1>8, <1>t, FinishType DEF LookAndLeave, TypeOK
    <2>2. GenuineSlots' /\ GenuineSeen' /\ PutIsRecorded'
      BY <1>8, <1>t
      DEF LookAndLeave, Finish, TypeOK, TableInv, GenuineSlots, GenuineSeen,
          PutIsRecorded, GenuineKey, GenuineEntry
    <2> QED BY <2>1, <2>2 DEF TableInv
  <1>9. ASSUME NEW w \in Workers, WriteKey(w) PROVE TableInv'
    <2>1. SlotOf(w) \in Slots /\ arg[w] \in Requests /\ arg[w] \in origin
      BY <1>9, <1>t, SlotType
      DEF WriteKey, Access, TypeOK, TableInv, PutIsRecorded
    <2>2. /\ Xor({arg[w].key}, {MakeEntry(arg[w])}) \in KeyWords
          /\ GenuineKey(Xor({arg[w].key}, {MakeEntry(arg[w])}))
      BY <2>1, XorOfKeyAndEntry DEF GenuineKey
    <2>3. TypeOK'
      BY <1>9, <1>t, <2>1, <2>2 DEF WriteKey, Access, TypeOK
    <2>4. GenuineSlots' /\ GenuineSeen' /\ PutIsRecorded'
      BY <1>9, <1>t, <2>1, <2>2
      DEF WriteKey, Access, TypeOK, TableInv, GenuineSlots, GenuineSeen,
          PutIsRecorded, GenuineKey, GenuineEntry
    <2> QED BY <2>3, <2>4 DEF TableInv
  <1>10. ASSUME NEW w \in Workers, WriteEntry(w) PROVE TableInv'
    <2>1. SlotOf(w) \in Slots /\ arg[w] \in Requests /\ arg[w] \in origin
      BY <1>10, <1>t, SlotType
      DEF WriteEntry, Access, TypeOK, TableInv, PutIsRecorded
    <2>2. /\ {MakeEntry(arg[w])} \in EntryWords
          /\ GenuineEntry({MakeEntry(arg[w])})
      BY <2>1, MakeEntryType DEF EntryWords, GenuineEntry
    <2>3. TypeOK'
      BY <1>10, <1>t, <2>1, <2>2 DEF WriteEntry, Access, TypeOK
    <2>4. GenuineSlots' /\ GenuineSeen' /\ PutIsRecorded'
      BY <1>10, <1>t, <2>1, <2>2
      DEF WriteEntry, Access, TypeOK, TableInv, GenuineSlots, GenuineSeen,
          PutIsRecorded, GenuineKey, GenuineEntry
    <2> QED BY <2>3, <2>4 DEF TableInv
  <1>11. ASSUME NEW w \in Workers, Stored(w) PROVE TableInv'
    <2>1. TypeOK'
      BY <1>11, <1>t, FinishType DEF Stored, TypeOK
    <2>2. GenuineSlots' /\ GenuineSeen' /\ PutIsRecorded'
      BY <1>11, <1>t
      DEF Stored, Finish, TypeOK, TableInv, GenuineSlots, GenuineSeen,
          PutIsRecorded, GenuineKey, GenuineEntry
    <2> QED BY <2>1, <2>2 DEF TableInv
  <1>12. CASE UNCHANGED vars
    BY <1>12
    DEF vars, TypeOK, TableInv, GenuineSlots, GenuineSeen, PutIsRecorded,
        GenuineKey, GenuineEntry
  <1> QED
    BY <1>1, <1>2, <1>3, <1>4, <1>5, <1>6, <1>7, <1>8, <1>9, <1>10, <1>11,
       <1>12 DEF Next

LEMMA AlwaysTableInv == Spec => []TableInv
  BY InitTableInv, StepTableInv, PTL DEF Spec

\* Every word of the table is 0, an entry, or the XOR of a key and an entry.
THEOREM TypeCorrect == Spec => []TypeOK
  <1>1. TableInv => TypeOK
    BY DEF TableInv
  <1> QED
    BY <1>1, AlwaysTableInv, PTL

-----------------------------------------------------------------------------
(* Refinement: a store takes effect when it begins, a look-up when it        *)
(* returns.                                                                   *)

LEMMA PutRefines ==
  ASSUME TableInv, NEW r \in Requests,
         origin' = origin \union {r}, reply' = reply
  PROVE  Cache!CacheNext
  <1>1. r.key \in Keys /\ MakeEntry(r) \in Entries
    BY MakeEntryType DEF Requests
  <1>2. Known' = Known \union {<<r.key, MakeEntry(r)>>}
    BY DEF Known
  <1> QED
    BY <1>1, <1>2 DEF Cache!CacheNext, Cache!Put

LEMMA StepCache ==
  ASSUME TableInv, [Next]_vars
  PROVE  [Cache!CacheNext]_(Cache!cacheVars)
  <1> USE DEF tableVars, seenVars, histVars
  <1>t. TypeOK
    BY DEF TableInv
  <1>1. ASSUME NEW w \in Workers, Return(w) PROVE Cache!CacheNext
    <2>1. arg[w].key \in Keys
      BY <1>1, <1>t, SlotType DEF Return, Finish
    <2>2. PICK e \in Entries \union {NoEntry} :
            /\ IF Matches(arg[w].key, seenKey[w], seenEntry[w])
                 THEN seenEntry[w] = {e} ELSE e = NoEntry
            /\ reply' = [reply EXCEPT ![w] = <<arg[w].key, e>>]
      BY <1>1 DEF Return
    <2>3. ASSUME Matches(arg[w].key, seenKey[w], seenEntry[w])
          PROVE  <<arg[w].key, e>> \in Known
      <3>1. seenEntry[w] \in EntryWords /\ GenuineKey(seenKey[w])
        BY <1>t DEF TypeOK, TableInv, GenuineSeen
      <3>2. PICK r \in origin :
              r.key = arg[w].key /\ seenEntry[w] = {MakeEntry(r)}
        BY <1>t, <2>1, <2>3, <3>1, MatchIsGenuine
      <3>3. e = MakeEntry(r)
        BY <2>2, <2>3, <3>2
      <3> QED
        BY <3>2, <3>3 DEF Known
    <2>4. Known' = Known
      BY <1>1 DEF Return, Known
    <2> QED
      BY <2>1, <2>2, <2>3, <2>4 DEF Cache!CacheNext, Cache!Find
  <1>2. ASSUME NEW w \in Workers, NEW r \in Requests,
               Store(w, r) \/ StorePv(w, r)
        PROVE  Cache!CacheNext
    BY <1>2, PutRefines DEF Store, StorePv, Record
  <1>3. ASSUME NEW w \in Workers, LookAndStore(w) PROVE Cache!CacheNext
    <2>1. arg[w] \in Requests
      BY <1>3, <1>t DEF LookAndStore, TypeOK
    <2> QED
      BY <1>3, <2>1, PutRefines DEF LookAndStore, Record
  <1>4. ASSUME UNCHANGED histVars PROVE UNCHANGED Cache!cacheVars
    BY <1>4 DEF Cache!cacheVars, Known
  <1>5. ASSUME NEW w \in Workers,
               \/ \E k \in Keys : BeginGet(w, k)
               \/ LoadKey(w) \/ LoadEntry(w)
               \/ \E r \in Requests : BeginDepthPrefered(w, r)
               \/ LookAndLeave(w) \/ WriteKey(w) \/ WriteEntry(w) \/ Stored(w)
        PROVE  UNCHANGED histVars
    BY <1>5 DEF BeginGet, LoadKey, LoadEntry, BeginDepthPrefered, LookAndLeave,
                WriteKey, WriteEntry, Stored
  <1>6. CASE UNCHANGED vars
    BY <1>4, <1>6 DEF vars
  <1> QED
    BY <1>1, <1>2, <1>3, <1>4, <1>5, <1>6 DEF Next

\* The XOR of the two words makes the table a cache: a look-up that races with
\* any number of stores answers with nothing, or with what was stored for its
\* key.
THEOREM TableIsCache == Spec => CacheSpec
  <1>1. Init => Cache!CacheInit
    BY DEF Init, Cache!CacheInit, Known
  <1>2. TableInv /\ [Next]_vars => [Cache!CacheNext]_(Cache!cacheVars)
    BY StepCache
  <1> QED
    BY <1>1, <1>2, AlwaysTableInv, PTL DEF Spec, CacheSpec, Cache!CacheSpec

-----------------------------------------------------------------------------
\* The depth-preferred store keeps its promise, however many workers store, for
\* depths that fit the 8 bits of an entry.
THEOREM DepthIsPrefered ==
  ASSUME Depths \subseteq 0 .. Byte - 1
  PROVE  Spec => DepthPrefered
  <1>1. ASSUME TableInv, NEW w \in Workers, LookAndLeave(w)
        PROVE  \E r \in origin : /\ entryWord[SlotOf(w)] = {MakeEntry(r)}
                                 /\ r.depth >= arg[w].depth
    <2>1. SlotOf(w) \in Slots /\ arg[w] \in Requests
      BY <1>1, SlotType DEF LookAndLeave, Finish, TableInv, TypeOK
    <2>2. PICK r \in origin : entryWord[SlotOf(w)] = {MakeEntry(r)}
      BY <1>1, <2>1
      DEF TableInv, GenuineSlots, GenuineEntry, LookAndLeave, Replaces
    <2>3. r.depth \in 0 .. Byte - 1 /\ arg[w].depth \in 0 .. Byte - 1
      BY <1>1, <2>1 DEF TableInv, TypeOK, Requests
    <2>4. MakeEntry(r).depth = r.depth
      BY <2>3, DepthAssumption DEF MakeEntry
    <2>5. ~(MakeEntry(r).depth < arg[w].depth)
      BY <1>1, <2>2 DEF LookAndLeave, Replaces
    <2>6. r.depth >= arg[w].depth
      BY <2>3, <2>4, <2>5, DepthAssumption
    <2> QED
      BY <2>2, <2>6
  <1>2. TableInv => \A w \in Workers :
          LookAndLeave(w) =>
            \E r \in origin : /\ entryWord[SlotOf(w)] = {MakeEntry(r)}
                              /\ r.depth >= arg[w].depth
    BY <1>1
  <1> QED
    BY <1>2, AlwaysTableInv, PTL DEF Spec, DepthPrefered

-----------------------------------------------------------------------------
(* One worker, as bot_init starts today.  A slot that is not being written    *)
(* holds both words of one store; the words a store has already written are   *)
(* its own, and those a look-up has already read are still in the slot.       *)

OneWorker == \A v, w \in Workers : v = w

Writing(w, s) == op[w] = "put" /\ SlotOf(w) = s

Settled(s) ==
  \/ keyWord[s] = {} /\ entryWord[s] = {}
  \/ \E r \in origin : /\ Index[r.key] = s
                       /\ keyWord[s] = {r.key, MakeEntry(r)}
                       /\ entryWord[s] = {MakeEntry(r)}

SlotsSettled ==
  \A s \in Slots : (\A w \in Workers : ~Writing(w, s)) => Settled(s)

PutHalfDone ==
  \A w \in Workers : op[w] = "put" =>
    /\ "key" \notin todo[w] => keyWord[SlotOf(w)] = {arg[w].key, MakeEntry(arg[w])}
    /\ "entry" \notin todo[w] => entryWord[SlotOf(w)] = {MakeEntry(arg[w])}

GetIsFresh ==
  \A w \in Workers : op[w] = "get" =>
    /\ "key" \notin todo[w] => seenKey[w] = keyWord[SlotOf(w)]
    /\ "entry" \notin todo[w] => seenEntry[w] = entryWord[SlotOf(w)]

SingleInv == SlotsSettled /\ PutHalfDone /\ GetIsFresh

LEMMA InitSingleInv == Init => SingleInv
  BY DEF Init, SingleInv, SlotsSettled, PutHalfDone, GetIsFresh, Settled

\* Only the one worker is ever in an operation.
LEMMA SlotSettles ==
  ASSUME OneWorker, SlotsSettled, NEW w \in Workers, NEW s \in Slots,
         ~Writing(w, s)
  PROVE  Settled(s)
  BY DEF OneWorker, SlotsSettled

\* A step that begins, or does not touch, a store leaves the slots as they are.
LEMMA PutBeginsSingle ==
  ASSUME OneWorker, TableInv, SingleInv, NEW w \in Workers, NEW r \in Requests,
         op[w] # "put", origin' = origin \union {r},
         op' = [op EXCEPT ![w] = "put"], arg' = [arg EXCEPT ![w] = r],
         todo' = [todo EXCEPT ![w] = {"key", "entry"}],
         UNCHANGED <<tableVars, seenVars>>
  PROVE  SingleInv'
  <1> USE DEF tableVars, seenVars
  <1>1. \A s \in Slots : Settled(s)
    BY SlotSettles DEF SingleInv, Writing
  <1>2. SlotsSettled'
    BY <1>1 DEF SlotsSettled, Settled
  <1>3. /\ op'[w] = "put" /\ todo'[w] = {"key", "entry"}
        /\ \A v \in Workers : v = w
    BY DEF TableInv, TypeOK, OneWorker
  <1>4. PutHalfDone' /\ GetIsFresh'
    BY <1>3 DEF PutHalfDone, GetIsFresh
  <1> QED
    BY <1>2, <1>4 DEF SingleInv

LEMMA StepSingleInv ==
  ASSUME OneWorker, TableInv, SingleInv, [Next]_vars
  PROVE  SingleInv'
  <1> USE DEF tableVars, seenVars, histVars
  <1>t. TypeOK
    BY DEF TableInv
  <1>w. \A v, w \in Workers : v = w
    BY DEF OneWorker
  <1>1. ASSUME NEW w \in Workers, NEW name \in {"get", "look"}, NEW a,
               NEW words \in SUBSET {"key", "entry"}, Begin(w, name, a, words),
               name = "get" => words = {"key", "entry"},
               UNCHANGED <<tableVars, seenVars, origin>>
        PROVE  SingleInv'
    <2>1. \A s \in Slots : Settled(s)
      BY <1>1, SlotSettles DEF SingleInv, Writing, Begin
    <2>2. SlotsSettled'
      BY <1>1, <2>1 DEF SlotsSettled, Settled
    <2>3. op'[w] = name /\ todo'[w] = words
      BY <1>1, <1>t DEF Begin, TypeOK
    <2>4. PutHalfDone' /\ GetIsFresh'
      BY <1>1, <1>w, <2>3 DEF PutHalfDone, GetIsFresh
    <2> QED
      BY <2>2, <2>4 DEF SingleInv
  <1>2. ASSUME NEW w \in Workers, LoadKey(w) \/ LoadEntry(w) PROVE SingleInv'
    <2>1. op[w] = "get" /\ op' = op /\ arg' = arg
      BY <1>2 DEF LoadKey, LoadEntry, Access
    <2>2. SlotsSettled' /\ PutHalfDone'
      BY <1>2, <1>w, <2>1
      DEF LoadKey, LoadEntry, SingleInv, SlotsSettled, PutHalfDone, Settled,
          Writing, SlotOf
    <2>3. CASE LoadKey(w)
      <3>1. /\ todo'[w] = todo[w] \ {"key"} /\ seenEntry' = seenEntry
            /\ seenKey'[w] = keyWord[SlotOf(w)]
            /\ UNCHANGED <<keyWord, entryWord, op, arg>>
        BY <1>t, <2>3 DEF LoadKey, Access, TypeOK
      <3> QED
        BY <1>w, <2>1, <2>2, <3>1 DEF SingleInv, GetIsFresh, SlotOf
    <2>4. CASE LoadEntry(w)
      <3>1. /\ todo'[w] = todo[w] \ {"entry"} /\ seenKey' = seenKey
            /\ seenEntry'[w] = entryWord[SlotOf(w)]
            /\ UNCHANGED <<keyWord, entryWord, op, arg>>
        BY <1>t, <2>4 DEF LoadEntry, Access, TypeOK
      <3> QED
        BY <1>w, <2>1, <2>2, <3>1 DEF SingleInv, GetIsFresh, SlotOf
    <2> QED
      BY <1>2, <2>3, <2>4
  <1>3. ASSUME NEW w \in Workers, NEW name \in {"get", "look"}, Finish(w, name),
               UNCHANGED <<tableVars, origin>>
        PROVE  SingleInv'
    <2>1. \A s \in Slots : Settled(s)
      BY <1>3, SlotSettles DEF SingleInv, Writing, Finish
    <2>2. SlotsSettled'
      BY <1>3, <2>1 DEF SlotsSettled, Settled
    <2>3. op'[w] = "idle"
      BY <1>3, <1>t DEF Finish, TypeOK
    <2>4. PutHalfDone' /\ GetIsFresh'
      BY <1>w, <2>3 DEF PutHalfDone, GetIsFresh
    <2> QED
      BY <2>2, <2>4 DEF SingleInv
  <1>4. ASSUME NEW w \in Workers, NEW r \in Requests,
               Store(w, r) \/ StorePv(w, r)
        PROVE  SingleInv'
    BY <1>4, PutBeginsSingle DEF Store, StorePv, Begin, Record
  <1>5. ASSUME NEW w \in Workers, LookAndStore(w) PROVE SingleInv'
    <2>1. arg[w] \in Requests /\ arg' = [arg EXCEPT ![w] = arg[w]]
      BY <1>5, <1>t DEF LookAndStore, TypeOK
    <2> QED
      BY <1>5, <2>1, PutBeginsSingle DEF LookAndStore, Record
  <1>6. ASSUME NEW w \in Workers, WriteKey(w) \/ WriteEntry(w) PROVE SingleInv'
    <2>1. /\ op[w] = "put" /\ op' = op /\ arg' = arg /\ origin' = origin
          /\ SlotOf(w) \in Slots /\ arg[w] \in Requests
      BY <1>6, <1>t, SlotType DEF WriteKey, WriteEntry, Access, TypeOK
    <2>2. \A s \in Slots : s # SlotOf(w) =>
            keyWord'[s] = keyWord[s] /\ entryWord'[s] = entryWord[s]
      BY <1>6, <1>t DEF WriteKey, WriteEntry, TypeOK
    <2>3. SlotsSettled'
      <3> SUFFICES ASSUME NEW s \in Slots, (\A v \in Workers : ~Writing(v, s))'
                   PROVE  Settled(s)'
        BY DEF SlotsSettled
      <3>1. ~Writing(w, s) /\ s # SlotOf(w)
        BY <2>1 DEF Writing, SlotOf
      <3>2. Settled(s)
        BY <3>1, SlotSettles DEF SingleInv
      <3> QED
        BY <2>1, <2>2, <3>1, <3>2 DEF Settled
    <2>4. CASE WriteKey(w)
      <3>1. /\ todo'[w] = todo[w] \ {"key"} /\ entryWord' = entryWord
            /\ keyWord'[SlotOf(w)] = {arg[w].key, MakeEntry(arg[w])}
        BY <1>t, <2>1, <2>4, XorOfKeyAndEntry DEF WriteKey, Access, TypeOK
      <3>2. PutHalfDone' /\ GetIsFresh'
        BY <1>w, <2>1, <3>1 DEF SingleInv, PutHalfDone, GetIsFresh, SlotOf
      <3> QED
        BY <2>3, <3>2 DEF SingleInv
    <2>5. CASE WriteEntry(w)
      <3>1. /\ todo'[w] = todo[w] \ {"entry"} /\ keyWord' = keyWord
            /\ entryWord'[SlotOf(w)] = {MakeEntry(arg[w])}
        BY <1>t, <2>1, <2>5 DEF WriteEntry, Access, TypeOK
      <3>2. PutHalfDone' /\ GetIsFresh'
        BY <1>w, <2>1, <3>1 DEF SingleInv, PutHalfDone, GetIsFresh, SlotOf
      <3> QED
        BY <2>3, <3>2 DEF SingleInv
    <2> QED
      BY <1>6, <2>4, <2>5
  <1>7. ASSUME NEW w \in Workers, Stored(w) PROVE SingleInv'
    <2>1. /\ op[w] = "put" /\ todo[w] = {} /\ op'[w] = "idle"
          /\ UNCHANGED <<keyWord, entryWord, origin>>
      BY <1>7, <1>t DEF Stored, Finish, TypeOK
    <2>2. Settled(SlotOf(w))
      BY <2>1 DEF SingleInv, PutHalfDone, TableInv, PutIsRecorded, Settled, SlotOf
    <2>3. \A s \in Slots : Settled(s)
      BY <2>2, SlotSettles DEF SingleInv, Writing
    <2>4. SlotsSettled'
      BY <2>1, <2>3 DEF SlotsSettled, Settled
    <2>5. PutHalfDone' /\ GetIsFresh'
      BY <1>w, <2>1 DEF PutHalfDone, GetIsFresh
    <2> QED
      BY <2>4, <2>5 DEF SingleInv
  <1>8. CASE UNCHANGED vars
    BY <1>8 DEF vars, SingleInv, SlotsSettled, PutHalfDone, GetIsFresh, Settled,
                Writing, SlotOf
  <1>9. ASSUME NEW w \in Workers, NEW k \in Keys, BeginGet(w, k) PROVE SingleInv'
    BY <1>1, <1>9 DEF BeginGet
  <1>10. ASSUME NEW w \in Workers, NEW r \in Requests, BeginDepthPrefered(w, r)
         PROVE  SingleInv'
    BY <1>1, <1>10 DEF BeginDepthPrefered
  <1>11. ASSUME NEW w \in Workers, Return(w) \/ LookAndLeave(w) PROVE SingleInv'
    BY <1>3, <1>11 DEF Return, LookAndLeave
  <1> QED
    BY <1>2, <1>4, <1>5, <1>6, <1>7, <1>8, <1>9, <1>10, <1>11 DEF Next

LEMMA AlwaysSingleInv ==
  ASSUME OneWorker
  PROVE  Spec => [](TableInv /\ SingleInv)
  <1>1. TableInv /\ SingleInv /\ [Next]_vars => SingleInv'
    BY StepSingleInv
  <1> QED
    BY <1>1, InitSingleInv, AlwaysTableInv, PTL DEF Spec

\* A look-up by the key of the store accepts the two words of a settled slot.
LEMMA StoreMatches ==
  ASSUME NEW r \in Requests, NEW k \in Keys
  PROVE  Matches(k, {r.key, MakeEntry(r)}, {MakeEntry(r)}) <=> k = r.key
  <1>1. r.key \in Keys /\ MakeEntry(r) \in Entries /\ r.key # MakeEntry(r)
    BY MakeEntryType, WordAssumption DEF Requests
  <1>2. Xor({r.key, MakeEntry(r)}, {MakeEntry(r)}) = {r.key}
    BY <1>1 DEF Xor
  <1> QED
    BY <1>2 DEF Matches

\* With one worker, no result is lost between the two writes of a store.
THEOREM SlotsSettle ==
  ASSUME OneWorker
  PROVE  Spec => []SettledSlots
  <1>1. ASSUME TableInv, SingleInv PROVE SettledSlots
    <2>1. SUFFICES ASSUME \A w \in Workers : op[w] # "put", NEW s \in Slots
                   PROVE  \/ keyWord[s] = {} /\ entryWord[s] = {}
                          \/ \E r \in origin :
                               /\ Index[r.key] = s
                               /\ Matches(r.key, keyWord[s], entryWord[s])
                               /\ entryWord[s] = {MakeEntry(r)}
      BY DEF SettledSlots
    <2>2. Settled(s)
      BY <1>1, <2>1 DEF SingleInv, SlotsSettled, Writing
    <2>3. ASSUME NEW r \in origin, keyWord[s] = {r.key, MakeEntry(r)},
                 entryWord[s] = {MakeEntry(r)}
          PROVE  Matches(r.key, keyWord[s], entryWord[s])
      <3>1. r \in Requests /\ r.key \in Keys
        BY <1>1 DEF TableInv, TypeOK, Requests
      <3> QED
        BY <2>3, <3>1, StoreMatches
    <2> QED
      BY <2>2, <2>3 DEF Settled
  <1>2. TableInv /\ SingleInv => SettledSlots
    BY <1>1
  <1> QED
    BY <1>2, AlwaysSingleInv, PTL

-----------------------------------------------------------------------------
(* The depth-preferred store alone: the entry it has been let in over is      *)
(* still the one it overwrites.                                               *)

DeeperInv ==
  \A w \in Workers : op[w] = "put" /\ "entry" \in todo[w] =>
    Replaces(arg[w].depth, entryWord[SlotOf(w)])

LEMMA StepDeeperInv ==
  ASSUME OneWorker, Policies \subseteq {"depth"}, TableInv, DeeperInv, [Next]_vars
  PROVE  DeeperInv'
  <1> USE DEF tableVars, seenVars, histVars
  <1>t. TypeOK
    BY DEF TableInv
  <1>w. \A v, w \in Workers : v = w
    BY DEF OneWorker
  <1>1. ASSUME NEW w \in Workers, op'[w] # "put" \/ "entry" \notin todo'[w]
        PROVE  DeeperInv'
    BY <1>w, <1>1 DEF DeeperInv
  <1>2. ASSUME NEW w \in Workers, LookAndStore(w) PROVE DeeperInv'
    <2>1. Replaces(arg[w].depth, entryWord[SlotOf(w)])
          /\ UNCHANGED <<arg, entryWord>>
      BY <1>2 DEF LookAndStore
    <2> QED
      BY <1>w, <2>1 DEF DeeperInv, SlotOf
  <1>3. ASSUME NEW w \in Workers, WriteKey(w) PROVE DeeperInv'
    BY <1>3, <1>t, <1>w
    DEF WriteKey, Access, TypeOK, DeeperInv, SlotOf
  <1>4. ASSUME NEW w \in Workers, WriteEntry(w) PROVE DeeperInv'
    BY <1>1, <1>4, <1>t DEF WriteEntry, Access, TypeOK
  <1>5. ASSUME NEW w \in Workers,
               \/ \E k \in Keys : BeginGet(w, k)
               \/ LoadKey(w) \/ LoadEntry(w) \/ Return(w)
               \/ \E r \in Requests : BeginDepthPrefered(w, r)
               \/ LookAndLeave(w) \/ Stored(w)
        PROVE  DeeperInv'
    <2>1. op'[w] # "put"
      BY <1>5, <1>t
      DEF BeginGet, Begin, LoadKey, LoadEntry, Access, Return, Finish,
          BeginDepthPrefered, LookAndLeave, Stored, TypeOK
    <2> QED
      BY <1>1, <2>1
  <1>6. ASSUME NEW w \in Workers, NEW r \in Requests PROVE ~Store(w, r) /\ ~StorePv(w, r)
    BY DEF Store, StorePv
  <1>7. CASE UNCHANGED vars
    BY <1>7 DEF vars, DeeperInv, SlotOf
  <1> QED
    BY <1>2, <1>3, <1>4, <1>5, <1>6, <1>7 DEF Next

\* With one worker and the depth-preferred store alone, an entry only ever gives
\* way to a deeper one, for depths below the byte of an entry: a negative one gets
\* into an empty slot only.
THEOREM DeeperEntriesStay ==
  ASSUME OneWorker, Policies \subseteq {"depth"}, \A d \in Depths : d < Byte
  PROVE  Spec => DeeperStays
  <1>1. Init => DeeperInv
    BY DEF Init, DeeperInv
  <1>2. TableInv /\ DeeperInv /\ [Next]_vars => DeeperInv'
    BY StepDeeperInv
  <1>3. ASSUME TableInv, DeeperInv, [Next]_vars, NEW s \in Slots,
               NEW old \in entryWord[s], NEW new \in entryWord'[s], new # old
        PROVE  old.depth < new.depth
    <2>1. entryWord[s] = {old} /\ old \in Entries
      BY <1>3 DEF TableInv, TypeOK, EntryWords
    <2>2. PICK w \in Workers : WriteEntry(w)
      BY <1>3, <2>1
      DEF Next, vars, tableVars, BeginGet, LoadKey, LoadEntry, Return, Store,
          StorePv, BeginDepthPrefered, LookAndStore, LookAndLeave, WriteKey, Stored
    <2>3. op[w] = "put" /\ "entry" \in todo[w] /\ arg[w] \in Requests
      BY <1>3, <2>2 DEF WriteEntry, Access, TableInv, TypeOK
    <2>4. s = SlotOf(w) /\ new = MakeEntry(arg[w])
      BY <1>3, <2>1, <2>2 DEF WriteEntry, TableInv, TypeOK
    <2>5. old.depth < arg[w].depth
      BY <1>3, <2>3, <2>4 DEF DeeperInv, Replaces
    <2>6. old.depth \in 0 .. Byte - 1 /\ arg[w].depth \in Int /\ arg[w].depth < Byte
      BY <2>1, <2>3, DepthAssumption DEF Entries, Requests
    <2>7. arg[w].depth \in 0 .. Byte - 1
      BY <2>5, <2>6, DepthAssumption
    <2>8. MakeEntry(arg[w]).depth = arg[w].depth
      BY <2>7, DepthAssumption DEF MakeEntry
    <2> QED
      BY <2>4, <2>5, <2>8
  <1>4. TableInv /\ DeeperInv /\ [Next]_vars =>
          [\A s \in Slots : \A old \in entryWord[s] : \A new \in entryWord'[s] :
             new = old \/ old.depth < new.depth]_entryWord
    BY <1>3
  <1> QED
    BY <1>1, <1>2, <1>4, AlwaysTableInv, PTL DEF Spec, DeeperStays

-----------------------------------------------------------------------------
(* Refinement for one worker: the slots as if each store were one step, taken *)
(* when it begins.                                                            *)

Pairs(s) == {p \in [key : Keys, entry : entryWord[s]] :
               Matches(p.key, keyWord[s], entryWord[s])}
PairOf(r) == [key |-> r.key, entry |-> MakeEntry(r)]

LEMMA HeldWhileWriting ==
  ASSUME OneWorker, NEW w \in Workers, NEW s \in Slots
  PROVE  Held(s) = IF Writing(w, s) THEN {PairOf(arg[w])} ELSE Pairs(s)
  BY DEF OneWorker, Held, Writing, Pairs, PairOf

\* A slot that holds the words of a store holds its pair and nothing else.
LEMMA PairOfWords ==
  ASSUME NEW r \in Requests, NEW s \in Slots,
         keyWord[s] = {r.key, MakeEntry(r)}, entryWord[s] = {MakeEntry(r)}
  PROVE  Pairs(s) = {PairOf(r)}
  <1>1. r.key \in Keys
    BY DEF Requests
  <1>2. \A k \in Keys : Matches(k, keyWord[s], entryWord[s]) <=> k = r.key
    BY StoreMatches
  <1> QED
    BY <1>1, <1>2 DEF Pairs, PairOf

LEMMA SettledPairs ==
  ASSUME TypeOK, NEW s \in Slots, Settled(s)
  PROVE  \/ entryWord[s] = {} /\ keyWord[s] = {} /\ Pairs(s) = {}
         \/ \E r \in origin : /\ keyWord[s] = {r.key, MakeEntry(r)}
                              /\ entryWord[s] = {MakeEntry(r)}
                              /\ Pairs(s) = {PairOf(r)}
  <1>1. ASSUME NEW r \in origin, keyWord[s] = {r.key, MakeEntry(r)},
               entryWord[s] = {MakeEntry(r)}
        PROVE  Pairs(s) = {PairOf(r)}
    BY <1>1, PairOfWords DEF TypeOK
  <1>2. entryWord[s] = {} => Pairs(s) = {}
    BY DEF Pairs
  <1> QED
    BY <1>1, <1>2 DEF Settled

\* A store that begins is a Put.
LEMMA PutIsPut ==
  ASSUME OneWorker, TableInv, SingleInv, NEW w \in Workers, NEW r \in Requests,
         op[w] # "put", op' = [op EXCEPT ![w] = "put"],
         arg' = [arg EXCEPT ![w] = r], UNCHANGED tableVars, UNCHANGED reply,
         Table!LetIn(r.key, MakeEntry(r))
  PROVE  Table!SlotNext
  <1>1. r.key \in Keys /\ MakeEntry(r) \in Entries /\ Index[r.key] \in Slots
    BY MakeEntryType, IndexAssumption DEF Requests
  <1>2. op'[w] = "put" /\ arg'[w] = r
    BY DEF TableInv, TypeOK
  <1>3. \A s \in Slots : Held(s) = Pairs(s)
    BY HeldWhileWriting DEF Writing
  <1>4. \A s \in Slots : Held(s)' = IF s = Index[r.key] THEN {PairOf(r)} ELSE Pairs(s)
    <2> SUFFICES ASSUME NEW s \in Slots
                 PROVE  Held(s)' = IF s = Index[r.key] THEN {PairOf(r)} ELSE Pairs(s)
      OBVIOUS
    <2>1. {v \in Workers : op[v] = "put" /\ SlotOf(v) = s}'
            = IF s = Index[r.key] THEN {w} ELSE {}
      BY <1>2 DEF OneWorker, SlotOf
    <2>2. CASE s = Index[r.key]
      BY <1>2, <2>1, <2>2 DEF Held, PairOf
    <2>3. CASE s # Index[r.key]
      BY <2>1, <2>3 DEF Held, Pairs, tableVars
    <2> QED
      BY <2>2, <2>3
  <1>5. [s \in Slots |-> Held(s)']
          = [[s \in Slots |-> Held(s)] EXCEPT ![Index[r.key]] = {PairOf(r)}]
    BY <1>1, <1>3, <1>4
  <1>6. Table!Put(r.key, MakeEntry(r))
    BY <1>5 DEF Table!Put, PairOf
  <1> QED
    BY <1>1, <1>6 DEF Table!SlotNext

LEMMA ReturnIsFind ==
  ASSUME OneWorker, TableInv, SingleInv, NEW w \in Workers, Return(w)
  PROVE  Table!SlotNext
  <1>1. /\ op[w] = "get" /\ todo[w] = {} /\ arg[w].key \in Keys
        /\ SlotOf(w) \in Slots /\ SlotOf(w) = Index[arg[w].key]
    BY SlotType DEF Return, Finish, TableInv, SlotOf
  <1>2. seenKey[w] = keyWord[SlotOf(w)] /\ seenEntry[w] = entryWord[SlotOf(w)]
    BY <1>1 DEF SingleInv, GetIsFresh
  <1>3. \A s \in Slots : Held(s) = Pairs(s) /\ Settled(s)
    BY <1>1, HeldWhileWriting, SlotSettles DEF Writing, SingleInv
  <1>4. PICK e \in Entries \union {NoEntry} :
          /\ IF Matches(arg[w].key, seenKey[w], seenEntry[w])
               THEN seenEntry[w] = {e} ELSE e = NoEntry
          /\ reply' = [reply EXCEPT ![w] = <<arg[w].key, e>>]
    BY DEF Return
  <1>5. \A s \in Slots : Held(s)' = Held(s)
    <2>1. op'[w] = "idle" /\ UNCHANGED tableVars
      BY DEF Return, Finish, TableInv, TypeOK
    <2>2. \A s \in Slots : Held(s)' = Pairs(s)
      BY <2>1 DEF OneWorker, Held, Pairs, tableVars
    <2> QED
      BY <1>3, <2>2
  <1> DEFINE Answers == IF e = NoEntry
                          THEN \A p \in Held(SlotOf(w)) : p.key # arg[w].key
                          ELSE [key |-> arg[w].key, entry |-> e] \in Held(SlotOf(w))
  <1>6. Answers
    <2> DEFINE s == SlotOf(w)
    <2>1. CASE entryWord[s] = {} /\ keyWord[s] = {} /\ Pairs(s) = {}
      <3>1. ~Matches(arg[w].key, {}, {})
        BY DEF Matches, Xor
      <3> QED
        BY <1>1, <1>2, <1>3, <1>4, <2>1, <3>1
    <2>2. ASSUME NEW r \in origin, keyWord[s] = {r.key, MakeEntry(r)},
                 entryWord[s] = {MakeEntry(r)}, Pairs(s) = {PairOf(r)}
          PROVE  Answers
      <3>1. r \in Requests /\ MakeEntry(r) # NoEntry
        BY MakeEntryType, WordAssumption DEF TableInv, TypeOK
      <3>2. Matches(arg[w].key, seenKey[w], seenEntry[w]) <=> arg[w].key = r.key
        BY <1>1, <1>2, <2>2, <3>1, StoreMatches
      <3>3. CASE arg[w].key = r.key
        <4>1. e = MakeEntry(r)
          BY <1>2, <1>4, <2>2, <3>2, <3>3
        <4> QED
          BY <1>1, <1>3, <2>2, <3>1, <3>3, <4>1 DEF PairOf
      <3>4. CASE arg[w].key # r.key
        <4>1. e = NoEntry
          BY <1>4, <3>2, <3>4
        <4> QED
          BY <1>1, <1>3, <2>2, <3>4, <4>1 DEF PairOf
      <3> QED
        BY <3>3, <3>4
    <2> QED
      BY <1>1, <1>3, <2>1, <2>2, SettledPairs DEF TableInv
  <1>7. Table!Find(w, arg[w].key)
    BY <1>1, <1>4, <1>5, <1>6 DEF Table!Find
  <1> QED
    BY <1>1, <1>7 DEF Table!SlotNext

\* Only the depth-preferred store looks.
LookIsAllowed == \A w \in Workers : op[w] = "look" => "depth" \in Policies

LEMMA StepLookIsAllowed == TypeOK /\ LookIsAllowed /\ [Next]_vars => LookIsAllowed'
  BY DEF TypeOK, LookIsAllowed, Next, vars, BeginGet, Begin, LoadKey, LoadEntry,
         Access, Return, Finish, Store, StorePv, BeginDepthPrefered,
         LookAndStore, LookAndLeave, WriteKey, WriteEntry, Stored

LEMMA StepSlots ==
  ASSUME OneWorker, "depth" \in Policies => \A d \in Depths : d < Byte,
         TableInv, SingleInv, LookIsAllowed, [Next]_vars
  PROVE  [Table!SlotNext]_(Table!slotVars)
  <1> USE DEF tableVars, seenVars, histVars
  <1>t. TypeOK
    BY DEF TableInv
  <1>s. ASSUME \A s \in Slots : Held(s)' = Held(s), UNCHANGED reply
        PROVE  UNCHANGED Table!slotVars
    BY <1>s DEF Table!slotVars
  <1>1. ASSUME NEW w \in Workers, op[w] # "put", op'[w] # "put",
               UNCHANGED tableVars, UNCHANGED reply
        PROVE  UNCHANGED Table!slotVars
    <2>1. \A s \in Slots : Held(s) = Pairs(s)
      BY <1>1, HeldWhileWriting DEF Writing
    <2>2. \A s \in Slots : Held(s)' = Pairs(s)
      BY <1>1 DEF OneWorker, Held, Pairs
    <2> QED
      BY <1>1, <1>s, <2>1, <2>2
  <1>2. ASSUME NEW w \in Workers,
               \/ \E k \in Keys : BeginGet(w, k)
               \/ LoadKey(w) \/ LoadEntry(w)
               \/ \E r \in Requests : BeginDepthPrefered(w, r)
               \/ LookAndLeave(w)
        PROVE  UNCHANGED Table!slotVars
    <2>1. /\ op[w] # "put" /\ op'[w] # "put"
          /\ UNCHANGED tableVars /\ UNCHANGED reply
      BY <1>2, <1>t
      DEF BeginGet, Begin, LoadKey, LoadEntry, Access, BeginDepthPrefered,
          LookAndLeave, Finish, TypeOK
    <2> QED
      BY <1>1, <2>1
  <1>3. ASSUME NEW w \in Workers, Return(w) PROVE Table!SlotNext
    BY <1>3, ReturnIsFind
  <1>4. ASSUME NEW w \in Workers, NEW r \in Requests, Store(w, r) \/ StorePv(w, r)
        PROVE  Table!SlotNext
    <2>1. Table!LetIn(r.key, MakeEntry(r))
      BY <1>4 DEF Store, StorePv, Table!LetIn, MakeEntry
    <2> QED
      BY <1>4, <2>1, PutIsPut DEF Store, StorePv, Begin, Record
  <1>5. ASSUME NEW w \in Workers, LookAndStore(w) PROVE Table!SlotNext
    <2>1. /\ arg[w] \in Requests /\ arg' = [arg EXCEPT ![w] = arg[w]]
          /\ op[w] = "look" /\ SlotOf(w) \in Slots
          /\ Replaces(arg[w].depth, entryWord[SlotOf(w)])
      BY <1>5, <1>t, SlotType DEF LookAndStore, TypeOK
    <2>2. "depth" \in Policies
      BY <2>1 DEF LookIsAllowed
    <2>3. Held(SlotOf(w)) = Pairs(SlotOf(w))
      BY <2>1, HeldWhileWriting DEF Writing
    <2>4. ASSUME NEW p \in Held(SlotOf(w))
          PROVE  p.entry.depth < MakeEntry(arg[w]).depth
      <3>1. p.entry \in entryWord[SlotOf(w)] /\ p.entry \in Entries
        BY <1>t, <2>1, <2>3 DEF Pairs, TypeOK, EntryWords
      <3>2. /\ p.entry.depth < arg[w].depth /\ arg[w].depth < Byte
            /\ p.entry.depth \in 0 .. Byte - 1 /\ arg[w].depth \in Int
        BY <2>1, <2>2, <3>1, DepthAssumption DEF Replaces, Entries, Requests
      <3>3. arg[w].depth \in 0 .. Byte - 1
        BY <3>2, DepthAssumption
      <3> QED
        BY <3>2, <3>3, DepthAssumption DEF MakeEntry
    <2>5. Table!LetIn(arg[w].key, MakeEntry(arg[w]))
      BY <2>1, <2>2, <2>4 DEF Table!LetIn, SlotOf
    <2> QED
      BY <1>5, <2>1, <2>5, PutIsPut DEF LookAndStore, Record
  <1>6. ASSUME NEW w \in Workers, WriteKey(w) \/ WriteEntry(w)
        PROVE  UNCHANGED Table!slotVars
    <2>1. /\ op[w] = "put" /\ op' = op /\ arg' = arg /\ reply' = reply
          /\ SlotOf(w) \in Slots
      BY <1>6, <1>t, SlotType DEF WriteKey, WriteEntry, Access
    <2>2. \A s \in Slots : s # SlotOf(w) =>
            keyWord'[s] = keyWord[s] /\ entryWord'[s] = entryWord[s]
      BY <1>6, <1>t DEF WriteKey, WriteEntry, TypeOK
    <2>3. ASSUME NEW s \in Slots PROVE Held(s)' = Held(s)
      <3>1. CASE s = SlotOf(w)
        BY <2>1, <3>1 DEF OneWorker, Held, SlotOf
      <3>2. CASE s # SlotOf(w)
        <4>1. {v \in Workers : op[v] = "put" /\ SlotOf(v) = s} = {}
          BY <2>1, <3>2 DEF OneWorker
        <4>2. {v \in Workers : op[v] = "put" /\ SlotOf(v) = s}' = {}
          BY <2>1, <4>1 DEF SlotOf
        <4> QED
          BY <2>2, <3>2, <4>1, <4>2 DEF Held
      <3> QED
        BY <3>1, <3>2
    <2> QED
      BY <1>s, <2>1, <2>3
  <1>7. ASSUME NEW w \in Workers, Stored(w) PROVE UNCHANGED Table!slotVars
    <2>1. /\ op[w] = "put" /\ todo[w] = {} /\ op'[w] = "idle"
          /\ UNCHANGED <<keyWord, entryWord, reply>>
          /\ SlotOf(w) \in Slots /\ arg[w] \in Requests
      BY <1>7, <1>t, SlotType DEF Stored, Finish, TypeOK
    <2>2. \A s \in Slots : Held(s)' = Pairs(s)
      BY <2>1 DEF OneWorker, Held, Pairs
    <2>3. Pairs(SlotOf(w)) = {PairOf(arg[w])}
      BY <2>1, PairOfWords DEF SingleInv, PutHalfDone
    <2>4. \A s \in Slots : Held(s) = Pairs(s)
      BY <2>1, <2>3, HeldWhileWriting DEF Writing
    <2> QED
      BY <1>s, <2>1, <2>2, <2>4
  <1>8. CASE UNCHANGED vars
    BY <1>8, <1>s DEF vars, Held, SlotOf
  <1> QED
    BY <1>2, <1>3, <1>4, <1>5, <1>6, <1>7, <1>8 DEF Next

\* One worker sees a table of whole pairs: a look-up finds its key's entry exactly
\* when the last store let into the slot was for that key. This is the table of
\* Search.
THEOREM TableIsExact ==
  ASSUME OneWorker, "depth" \in Policies => \A d \in Depths : d < Byte
  PROVE  Spec => TableSpec
  <1>1. Init => Table!SlotInit
    <2> SUFFICES ASSUME Init PROVE Table!SlotInit
      OBVIOUS
    <2>1. \A s \in Slots : Held(s) = {}
      BY DEF Init, Held
    <2> QED
      BY <2>1 DEF Init, Table!SlotInit
  <1>2. TableInv /\ SingleInv /\ LookIsAllowed /\ [Next]_vars
          => [Table!SlotNext]_(Table!slotVars)
    BY StepSlots
  <1>3. Init => LookIsAllowed
    BY DEF Init, LookIsAllowed
  <1>4. TableInv /\ LookIsAllowed /\ [Next]_vars => LookIsAllowed'
    BY StepLookIsAllowed DEF TableInv
  <1> QED
    BY <1>1, <1>2, <1>3, <1>4, AlwaysSingleInv, PTL DEF Spec, TableSpec, Table!SlotSpec
=============================================================================
