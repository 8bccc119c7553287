--------------------------- MODULE MoeToken_proofs ---------------------------
(***************************************************************************)
(* Proofs about the cache and the token step that drives it.  ExpertCache: *)
(* the inductive invariant CacheInv, the safety invariants it contains,    *)
(* that eviction follows recency, and that the cache implements            *)
(* ExactCache.  MoeToken: a generation is a client of the cache, so that   *)
(* the theorems of ExpertCache hold in it; pins appear exactly when        *)
(* decoding begins; no get for a stored expert is ever refused; with pins  *)
(* a batch without a short read serves every get after it; and a layer's   *)
(* pins are replaced by as many of the heaviest routes as can be.          *)
(***************************************************************************)
EXTENDS MoeToken, Functions, FunctionTheorems, FiniteSetTheorems, WellFoundedInduction, TLAPS

----------------------------------------------------------------------------
(* The cache. *)

LEMMA InitCacheInv == Init => CacheInv
<1> SUFFICES ASSUME Init PROVE CacheInv
    OBVIOUS
<1>1. TypeOK
    <2>1. todo \in Seq(Layers \X (Experts \cup {BadExpert}))
        BY DEF Init
    <2> QED
        BY <2>1 DEF Init, TypeOK
<1>2. MapsInverse /\ ResidentExact /\ Reserved
    BY CacheAssumption DEF Init, MapsInverse, ResidentExact, Reserved
<1>3. WorkDistinct /\ WorkAbsent /\ WorkRead /\ Phases
    BY DEF Init, WorkDistinct, WorkAbsent, WorkRead, Phases
<1>4. Stamps
    BY CacheAssumption DEF Init, Stamps
<1> QED
    BY <1>1, <1>2, <1>3, <1>4 DEF CacheInv

(***************************************************************************)
(* Reservation, shared by get and getmany.                                 *)
(***************************************************************************)

\* A victim is never a slot some read is writing into.
LEMMA VictimFree ==
    ASSUME NEW spared, NEW s \in Victims(spared)
    PROVE  /\ s \in Slots
           /\ key_of[s] = EMPTY \/ Evictable(s, spared)
           /\ key_of[s] # INFLIGHT
BY CacheAssumption DEF Victims, Evictable

LEMMA ReserveType ==
    ASSUME CacheInv, NEW s \in Slots, NEW k \in Records, Reserve(s, k)
    PROVE  /\ slot_of' \in [Keys -> Slots \cup {NoSlot}]
           /\ key_of' \in [Slots -> Keys \cup {EMPTY, INFLIGHT}]
           /\ used_at' \in [Slots -> Nat] /\ clock' \in Nat
           /\ record_of_slot' \in [Slots -> Keys \cup {NoRecord}]
           /\ work' \subseteq Work
           /\ last_use' \in [Keys -> Nat]
BY CacheAssumption DEF CacheInv, TypeOK, Reserve, DropEntry, Work

LEMMA ReserveTables ==
    ASSUME CacheInv, NEW s \in Slots, NEW k \in Records, Reserve(s, k),
           key_of[s] # INFLIGHT, \A w \in work : ~Settled(w),
           slot_of[k] = NoSlot, \A w \in work : w.key # k,
           arena' = arena
    PROVE  /\ MapsInverse' /\ ResidentExact' /\ Reserved'
           /\ WorkDistinct' /\ WorkAbsent' /\ WorkRead'
<1> USE CacheAssumption DEF CacheInv, TypeOK, Reserve, DropEntry
<1> DEFINE new == [slot |-> s, key |-> k, got |-> "wait"]
<1>0. /\ work' = work \cup {new}
      /\ new.slot = s /\ new.key = k /\ new.got = "wait" /\ ~Settled(new)
    BY DEF Settled
<1>1. MapsInverse'
    BY DEF MapsInverse, NoSlot, Slots
<1>2. ResidentExact'
    BY DEF ResidentExact
<1>3. Reserved'
    <2> SUFFICES ASSUME NEW t \in Slots
                 PROVE  key_of'[t] = INFLIGHT
                        <=> \E w \in work' : ~Settled(w) /\ w.slot = t
        BY DEF Reserved, Settled
    <2>1. CASE t = s
        BY <1>0, <2>1
    <2>2. CASE t # s
        BY <1>0, <2>2 DEF Reserved
    <2> QED
        BY <2>1, <2>2
<1>4. WorkDistinct'
    <2>1. \A w \in work : w.slot # s
        BY DEF Reserved
    <2> QED
        BY <1>0, <2>1 DEF WorkDistinct
<1>5. WorkAbsent'
    <2> SUFFICES ASSUME NEW w \in work', ~Settled(w)
                 PROVE  slot_of'[w.key] = NoSlot
        BY DEF WorkAbsent, Settled
    <2>1. w.key \in Keys
        BY <1>0 DEF Work
    <2>2. slot_of[w.key] = NoSlot
        BY <1>0 DEF WorkAbsent
    <2> QED
        BY <2>1, <2>2
<1>6. WorkRead'
    BY <1>0 DEF WorkRead
<1> QED
    BY <1>1, <1>2, <1>3, <1>4, <1>5, <1>6

LEMMA ReserveStamps ==
    ASSUME CacheInv, NEW s \in Slots, NEW k \in Records, Reserve(s, k),
           pc' = "load" => work = {}
    PROVE  Stamps'
<1> USE CacheAssumption DEF CacheInv, TypeOK, Reserve, DropEntry
<1>1. \A t \in Slots : used_at'[t] = IF t = s THEN clock + 1 ELSE used_at[t]
    OBVIOUS
<1>2. \A t \in Slots : used_at'[t] <= clock' /\ (t # s => used_at'[t] < clock')
    BY <1>1 DEF Stamps
<1>3. \A t, u \in Slots : key_of'[t] \in Keys /\ key_of'[u] \in Keys
                          /\ used_at'[t] = used_at'[u] => t = u
    BY <1>1 DEF Stamps
<1>4. \A j \in Keys : slot_of'[j] # NoSlot => last_use'[j] = used_at'[slot_of'[j]]
    BY <1>1 DEF Stamps, MapsInverse, NoSlot, Slots
<1>5. pc' = "load" => \A w \in work' : /\ used_at'[w.slot] = clock'
                                       /\ \A t \in Slots \ {w.slot} : used_at'[t] < clock'
    BY <1>2
<1> QED
    BY <1>2, <1>3, <1>4, <1>5 DEF Stamps

(***************************************************************************)
(* Calls.                                                                  *)
(***************************************************************************)

LEMMA PinLayerInv ==
    ASSUME CacheInv, NEW l \in Layers, NEW es \in SUBSET Experts, PinLayer(l, es)
    PROVE  CacheInv'
<1>1. TypeOK'
    BY DEF CacheInv, TypeOK, PinLayer, tables, locals, Keys
<1> QED
    BY <1>1 DEF CacheInv, PinLayer, tables, locals, MapsInverse, ResidentExact,
        Reserved, WorkDistinct, WorkAbsent, WorkRead, Phases, Stamps, Settled

LEMMA GetHitInv ==
    ASSUME CacheInv, NEW k \in Members, GetHit(k)
    PROVE  CacheInv'
<1> USE DEF CacheInv, GetHit, Idle, Resident, pins, locals
<1>1. TypeOK'
    BY DEF TypeOK
<1>2. MapsInverse' /\ ResidentExact' /\ Reserved'
    BY DEF MapsInverse, ResidentExact, Reserved, Settled
<1>3. WorkDistinct' /\ WorkAbsent' /\ WorkRead' /\ Phases'
    BY DEF WorkDistinct, WorkAbsent, WorkRead, Phases, Settled
<1>4. Stamps'
    <2> DEFINE s0 == slot_of[k]
    <2>1. /\ \A t \in Slots : used_at'[t] = IF t = s0 THEN clock + 1 ELSE used_at[t]
          /\ \A j \in Keys : last_use'[j] = IF j = k THEN clock + 1 ELSE last_use[j]
        BY DEF TypeOK
    <2>2. \A t \in Slots : used_at[t] \in Nat /\ used_at[t] <= clock /\ clock \in Nat
        BY DEF TypeOK, Stamps
    <2>3. \A j \in Keys : slot_of[j] # NoSlot => slot_of[j] \in Slots /\ (slot_of[j] = s0 => j = k)
        BY DEF TypeOK, MapsInverse
    <2> QED
        BY <2>1, <2>2, <2>3 DEF Stamps
<1> QED
    BY <1>1, <1>2, <1>3, <1>4

LEMMA GetMissInv ==
    ASSUME CacheInv, NEW k \in Members, GetMiss(k)
    PROVE  CacheInv'
<1>1. PICK s \in Victims({}) : Reserve(s, k)
    BY DEF GetMiss
<1>2. s \in Slots /\ key_of[s] # INFLIGHT
    BY VictimFree
<1>3. /\ k \in Records /\ pc = "idle" /\ pc' = "load"
      /\ work = {} /\ avoid = {} /\ avoid' = avoid
      /\ arena' = arena /\ todo' = todo /\ pins' = pins
      /\ out' = NoOut
    BY DEF GetMiss, Idle, CacheInv, Phases
<1>4. slot_of[k] = NoSlot
    BY <1>3, CacheAssumption DEF GetMiss, Resident, CacheInv, MapsInverse, TypeOK
<1>5. MapsInverse' /\ ResidentExact' /\ Reserved' /\ WorkDistinct' /\ WorkAbsent' /\ WorkRead'
    BY <1>1, <1>2, <1>3, <1>4, ReserveTables
<1>6. Stamps'
    BY <1>1, <1>2, <1>3, ReserveStamps
<1>7. TypeOK'
    BY <1>1, <1>2, <1>3, ReserveType DEF CacheInv, TypeOK, pins
<1>8. Phases'
    BY <1>1, <1>3 DEF Phases, Reserve, Settled
<1> QED
    BY <1>5, <1>6, <1>7, <1>8 DEF CacheInv

LEMMA GetManyInv ==
    ASSUME CacheInv, NEW b \in Batches, GetMany(b)
    PROVE  CacheInv'
<1> USE DEF CacheInv, GetMany, Idle, tables, pins
<1>1. b \in Seq(Members)
    BY CacheAssumption DEF Batches
<1>2. TypeOK'
    BY <1>1 DEF TypeOK, Members, AvoidList
<1>3. MapsInverse' /\ ResidentExact' /\ Reserved' /\ Stamps'
    BY DEF MapsInverse, ResidentExact, Reserved, Stamps, Settled
<1>4. WorkDistinct' /\ WorkAbsent' /\ WorkRead' /\ Phases'
    BY DEF WorkDistinct, WorkAbsent, WorkRead, Phases, Settled
<1> QED
    BY <1>2, <1>3, <1>4

LEMMA CloseInv ==
    ASSUME CacheInv, Close
    PROVE  CacheInv'
<1> USE DEF CacheInv, Close
<1>1. TypeOK'
    BY DEF TypeOK
<1>2. MapsInverse' /\ ResidentExact' /\ Stamps'
    BY CacheAssumption DEF MapsInverse, ResidentExact, Stamps
<1>3. work' = {} /\ avoid' = {}
    BY DEF Phases
<1>4. Reserved' /\ WorkDistinct' /\ WorkAbsent' /\ WorkRead' /\ Phases'
    BY <1>3, CacheAssumption
    DEF Reserved, WorkDistinct, WorkAbsent, WorkRead, Phases, Settled
<1> QED
    BY <1>1, <1>2, <1>4

\* GetFinish ends a call with the only entry of the work array.
LEMMA GetFinishInv ==
    ASSUME CacheInv, NEW w \in work, GetFinish(w)
    PROVE  CacheInv'
<1> USE CacheAssumption DEF CacheInv, GetFinish
<1>1. /\ w.slot \in Slots /\ w.key \in Keys /\ w.key \in Records
      /\ key_of[w.slot] = INFLIGHT /\ slot_of[w.key] = NoSlot
      /\ \A v \in work : v = w
    BY DEF TypeOK, Work, Reserved, WorkAbsent, Phases
<1>2. /\ work' = {} /\ avoid' = {} /\ pc' = "idle"
      /\ used_at' = used_at /\ clock' = clock /\ arena' = arena
    BY DEF Phases
<1>3. \A s \in Slots : key_of[s] = INFLIGHT <=> s = w.slot
    BY <1>1 DEF Reserved, Phases
<1>4. CASE Complete(w) /\ Fill(w)
           /\ last_use' = [last_use EXCEPT ![w.key] = clock]
           /\ out' = [key |-> w.key, slot |-> w.slot]
    <2>1. TypeOK'
        BY <1>1, <1>2, <1>4 DEF TypeOK, Fill, pins
    <2>2. /\ \A s \in Slots : key_of'[s] = IF s = w.slot THEN w.key ELSE key_of[s]
          /\ \A k \in Keys : slot_of'[k] = IF k = w.key THEN w.slot ELSE slot_of[k]
          /\ \A k \in Keys : last_use'[k] = IF k = w.key THEN clock ELSE last_use[k]
          /\ \A s \in Slots : record_of_slot'[s] = IF s = w.slot THEN w.key
                                                   ELSE record_of_slot[s]
        BY <1>1, <1>4 DEF TypeOK, Fill
    <2>3. MapsInverse'
        <3>1. NoSlot \notin Slots /\ INFLIGHT \notin Keys
            BY DEF NoSlot, Slots
        <3>2. \A k \in Keys : slot_of[k] # NoSlot => key_of[slot_of[k]] = k
            BY DEF MapsInverse
        <3>3. \A k \in Keys : slot_of'[k] # NoSlot => key_of'[slot_of'[k]] = k
            BY <1>1, <2>2, <3>1, <3>2 DEF TypeOK
        <3>4. \A s \in Slots : key_of'[s] \in Keys => slot_of'[key_of'[s]] = s
            BY <1>1, <2>2, <3>1 DEF MapsInverse
        <3> QED
            BY <3>3, <3>4 DEF MapsInverse
    <2>4. ResidentExact'
        BY <1>1, <1>2, <1>4, <2>2 DEF ResidentExact, WorkRead, Complete
    <2>5. Reserved'
        BY <1>1, <1>2, <1>3, <2>2 DEF Reserved
    <2>6. Stamps'
        <3>1. \A s \in Slots : used_at[s] <= clock /\ (s # w.slot => used_at[s] < clock)
            BY <1>1 DEF Stamps, Phases, GetFinish
        <3>2. used_at[w.slot] = clock /\ clock \in Nat /\ used_at \in [Slots -> Nat]
            BY DEF Stamps, TypeOK
        <3>3. \A s, t \in Slots : key_of'[s] \in Keys /\ key_of'[t] \in Keys
                                  /\ used_at[s] = used_at[t] => s = t
            BY <1>1, <2>2, <3>1, <3>2 DEF Stamps
        <3>4. \A k \in Keys : slot_of'[k] # NoSlot => last_use'[k] = used_at[slot_of'[k]]
            BY <1>1, <2>2, <3>2 DEF Stamps
        <3> QED
            BY <1>2, <3>1, <3>3, <3>4 DEF Stamps
    <2> QED
        BY <1>2, <2>1, <2>3, <2>4, <2>5, <2>6
        DEF WorkDistinct, WorkAbsent, WorkRead, Phases
<1>5. CASE Release(w) /\ out' = NoOut /\ UNCHANGED <<slot_of, record_of_slot, last_use>>
    <2>1. TypeOK'
        BY <1>1, <1>2, <1>5 DEF TypeOK, Release, pins
    <2>2. MapsInverse' /\ ResidentExact' /\ Reserved'
        BY <1>1, <1>2, <1>3, <1>5
        DEF TypeOK, Release, MapsInverse, ResidentExact, Reserved
    <2>3. Stamps'
        BY <1>1, <1>2, <1>5 DEF TypeOK, Release, Stamps
    <2> QED
        BY <1>2, <2>1, <2>2, <2>3 DEF WorkDistinct, WorkAbsent, WorkRead, Phases
<1> QED
    BY <1>4, <1>5

(***************************************************************************)
(* The steps of getmany.                                                   *)
(***************************************************************************)

LEMMA SkipMemberInv ==
    ASSUME CacheInv, SkipMember
    PROVE  CacheInv'
<1>1. TypeOK'
    BY DEF CacheInv, TypeOK, SkipMember, tables, pins
<1> QED
    BY <1>1 DEF CacheInv, SkipMember, tables, MapsInverse, ResidentExact,
        Reserved, WorkDistinct, WorkAbsent, WorkRead, Phases, Stamps, Settled

LEMMA ReserveMemberInv ==
    ASSUME CacheInv, ReserveMember
    PROVE  CacheInv'
<1> DEFINE k == Head(todo)
<1>1. PICK s \in Victims(avoid) : Reserve(s, k)
    BY DEF ReserveMember
<1>2. s \in Slots /\ key_of[s] # INFLIGHT
    BY VictimFree
<1>3. /\ k \in Records /\ pc = "reserve" /\ pc' = "reserve"
      /\ slot_of[k] = NoSlot /\ \A w \in work : w.key # k
      /\ todo # <<>> /\ todo' = Tail(todo)
      /\ arena' = arena /\ avoid' = avoid /\ pins' = pins /\ out' = out
    BY DEF ReserveMember, NeedsRead
<1>4. \A w \in work : ~Settled(w)
    BY <1>3 DEF CacheInv, Phases
<1>5. MapsInverse' /\ ResidentExact' /\ Reserved' /\ WorkDistinct' /\ WorkAbsent' /\ WorkRead'
    BY <1>1, <1>2, <1>3, <1>4, ReserveTables
<1>6. Stamps'
    BY <1>1, <1>2, <1>3, ReserveStamps
<1>7. TypeOK'
    <2>1. todo' \in Seq(Layers \X (Experts \cup {BadExpert}))
        BY <1>3 DEF CacheInv, TypeOK
    <2> QED
        BY <1>1, <1>2, <1>3, <2>1, ReserveType DEF CacheInv, TypeOK, pins
<1>8. Phases'
    BY <1>1, <1>3, <1>4 DEF Phases, Reserve, Settled
<1> QED
    BY <1>5, <1>6, <1>7, <1>8 DEF CacheInv

LEMMA AbandonRestInv ==
    ASSUME CacheInv, AbandonRest
    PROVE  CacheInv'
<1>1. todo' \in Seq(Layers \X (Experts \cup {BadExpert}))
    BY DEF AbandonRest
<1>2. TypeOK'
    BY <1>1 DEF CacheInv, TypeOK, AbandonRest, tables, pins
<1> QED
    BY <1>2 DEF CacheInv, AbandonRest, tables, MapsInverse, ResidentExact,
        Reserved, WorkDistinct, WorkAbsent, WorkRead, Phases, Stamps, Settled

LEMMA EndReserveInv ==
    ASSUME CacheInv, EndReserve
    PROVE  CacheInv'
<1> USE DEF CacheInv, EndReserve, tables, pins
<1>1. TypeOK'
    BY DEF TypeOK
<1>2. MapsInverse' /\ ResidentExact' /\ Reserved'
    BY DEF MapsInverse, ResidentExact, Reserved, Settled
<1>3. WorkDistinct' /\ WorkAbsent' /\ WorkRead'
    BY DEF WorkDistinct, WorkAbsent, WorkRead, Settled
<1>4. Phases' /\ Stamps'
    BY DEF Phases, Stamps, Settled
<1> QED
    BY <1>1, <1>2, <1>3, <1>4

LEMMA JoinWorkersInv ==
    ASSUME CacheInv, JoinWorkers
    PROVE  CacheInv'
<1> USE DEF CacheInv, JoinWorkers, tables, pins
<1>1. TypeOK'
    BY DEF TypeOK
<1>2. MapsInverse' /\ ResidentExact' /\ Reserved'
    BY DEF MapsInverse, ResidentExact, Reserved, Settled
<1>3. WorkDistinct' /\ WorkAbsent' /\ WorkRead'
    BY DEF WorkDistinct, WorkAbsent, WorkRead, Settled
<1>4. Phases' /\ Stamps'
    BY DEF Phases, Stamps, Settled
<1> QED
    BY <1>1, <1>2, <1>3, <1>4

LEMMA ReturnManyInv ==
    ASSUME CacheInv, ReturnMany
    PROVE  CacheInv'
<1> USE DEF CacheInv, ReturnMany, tables, pins
<1>1. TypeOK'
    BY DEF TypeOK
<1>2. MapsInverse' /\ ResidentExact' /\ Reserved'
    BY DEF MapsInverse, ResidentExact, Reserved, Settled
<1>3. WorkDistinct' /\ WorkAbsent' /\ WorkRead' /\ Phases' /\ Stamps'
    BY DEF WorkDistinct, WorkAbsent, WorkRead, Phases, Stamps
<1> QED
    BY <1>1, <1>2, <1>3

\* Changing the status of one entry of the work array.
LEMMA MarkFacts ==
    ASSUME CacheInv, NEW w \in work,
           NEW g \in {"reading", "full", "short", "published", "failed"},
           NEW n, n = [w EXCEPT !.got = g], Mark(w, g)
    PROVE  /\ n.slot = w.slot /\ n.key = w.key /\ n.got = g
           /\ n \in Work /\ work' = (work \ {w}) \cup {n}
           /\ work' \subseteq Work
           /\ WorkDistinct'
<1>1. w \in Work
    BY DEF CacheInv, TypeOK
<1>2. n.slot = w.slot /\ n.key = w.key /\ n.got = g /\ n \in Work
    BY <1>1 DEF Work
<1>3. work' = (work \ {w}) \cup {n}
    BY DEF Mark
<1>4. work' \subseteq Work
    BY <1>2, <1>3 DEF CacheInv, TypeOK
<1>5. WorkDistinct'
    <2> SUFFICES ASSUME NEW u \in work', NEW v \in work',
                        u.slot = v.slot \/ u.key = v.key
                 PROVE  u = v
        BY DEF WorkDistinct
    <2>1. \A x \in work \ {w} : x.slot # w.slot /\ x.key # w.key
        BY DEF CacheInv, WorkDistinct
    <2> QED
        BY <1>2, <1>3, <2>1 DEF CacheInv, WorkDistinct
<1> QED
    BY <1>2, <1>3, <1>4, <1>5

\* A worker writes only a slot reserved for its own entry.
LEMMA WorkerInv ==
    ASSUME CacheInv, NEW w \in work, ReadBegin(w) \/ ReadEnd(w)
    PROVE  CacheInv'
<1> USE CacheAssumption
<1>1. PICK g \in {"reading", "full", "short"} :
          /\ Mark(w, g)
          /\ \/ arena' = [arena EXCEPT ![w.slot] = w.key]
             \/ g # "full" /\ arena' = [arena EXCEPT ![w.slot] = Torn]
             \/ g # "full" /\ arena' = arena
    BY DEF ReadBegin, ReadEnd
<1> DEFINE n == [w EXCEPT !.got = g]
<1>2. /\ n.slot = w.slot /\ n.key = w.key /\ n.got = g /\ n \in Work
      /\ work' = (work \ {w}) \cup {n} /\ work' \subseteq Work /\ WorkDistinct'
    <2>1. g \in {"reading", "full", "short", "published", "failed"}
        OBVIOUS
    <2> QED
        BY <1>1, <2>1, MarkFacts
<1>3. /\ w \in Work /\ w.slot \in Slots /\ w.key \in Keys
      /\ key_of[w.slot] = INFLIGHT
      /\ ~Settled(w) /\ ~Settled(n)
      /\ pc \in {"read", "load"}
    BY <1>1, <1>2 DEF CacheInv, TypeOK, Work, Reserved, Phases, Settled, ReadBegin, ReadEnd
<1>4. /\ slot_of' = slot_of /\ key_of' = key_of /\ used_at' = used_at
      /\ clock' = clock /\ record_of_slot' = record_of_slot
      /\ last_use' = last_use /\ pins_on' = pins_on /\ pinned_of' = pinned_of
      /\ pc' = pc /\ todo' = todo /\ avoid' = avoid /\ out' = out
    BY DEF ReadBegin, ReadEnd, tables, pins
<1>5. \A s \in Slots : s # w.slot => arena'[s] = arena[s]
    BY <1>1 DEF CacheInv, TypeOK
<1>6. TypeOK'
    <2>1. arena' \in [Slots -> Keys \cup {Torn}]
        BY <1>1, <1>3 DEF CacheInv, TypeOK
    <2> QED
        BY <1>2, <1>4, <2>1 DEF CacheInv, TypeOK
<1>7. MapsInverse'
    BY <1>4 DEF CacheInv, MapsInverse
<1>8. ResidentExact'
    BY <1>3, <1>4, <1>5 DEF CacheInv, ResidentExact
<1>9. Reserved'
    <2> SUFFICES ASSUME NEW s \in Slots
                 PROVE  key_of[s] = INFLIGHT <=> \E v \in work' : ~Settled(v) /\ v.slot = s
        BY <1>4 DEF Reserved, Settled
    <2>1. key_of[s] = INFLIGHT <=> \E v \in work : ~Settled(v) /\ v.slot = s
        BY DEF CacheInv, Reserved
    <2> QED
        BY <1>2, <1>3, <2>1
<1>10. WorkAbsent'
    BY <1>2, <1>3, <1>4 DEF CacheInv, WorkAbsent, Settled
<1>11. WorkRead'
    <2> SUFFICES ASSUME NEW v \in work', v.got = "full"
                 PROVE  arena'[v.slot] = v.key
        BY DEF WorkRead
    <2>1. CASE v = n
        BY <1>1, <1>2, <1>3, <2>1 DEF CacheInv, TypeOK
    <2>2. CASE v # n
        <3>1. v \in work /\ v.slot # w.slot
            BY <1>2, <2>2 DEF CacheInv, WorkDistinct
        <3>2. v.slot \in Slots
            BY <3>1 DEF CacheInv, TypeOK, Work
        <3> QED
            BY <1>5, <3>1, <3>2 DEF CacheInv, WorkRead
    <2> QED
        BY <2>1, <2>2
<1>12. Phases'
    BY <1>2, <1>3, <1>4 DEF CacheInv, Phases, Settled
<1>13. Stamps'
    <2>1. \A v \in work' : \E u \in work : v.slot = u.slot
        BY <1>2
    <2> QED
        BY <1>4, <2>1 DEF CacheInv, Stamps
<1> QED
    BY <1>2, <1>6, <1>7, <1>8, <1>9, <1>10, <1>11, <1>12, <1>13 DEF CacheInv

LEMMA PublishInv ==
    ASSUME CacheInv, NEW w \in work, Publish(w)
    PROVE  CacheInv'
<1> USE CacheAssumption
<1>1. /\ w \in Work /\ w.slot \in Slots /\ w.key \in Keys
      /\ key_of[w.slot] = INFLIGHT /\ slot_of[w.key] = NoSlot
      /\ ~Settled(w) /\ pc = "publish"
    BY DEF CacheInv, TypeOK, Work, Reserved, WorkAbsent, Publish
<1>2. /\ pc' = pc /\ todo' = todo /\ avoid' = avoid /\ out' = out
      /\ arena' = arena /\ pins_on' = pins_on /\ pinned_of' = pinned_of
    BY DEF Publish, pins
<1>3. NoSlot \notin Slots /\ INFLIGHT \notin Keys
    BY DEF NoSlot, Slots
<1>4. \A v \in work : v # w => v.slot # w.slot /\ v.key # w.key
    BY DEF CacheInv, WorkDistinct
<1>5. ASSUME Complete(w), Fill(w), clock' = clock + 1, Mark(w, "published"),
             used_at' = [used_at EXCEPT ![w.slot] = clock + 1],
             last_use' = [last_use EXCEPT ![w.key] = clock + 1]
      PROVE  CacheInv'
    <2> DEFINE n == [w EXCEPT !.got = "published"]
    <2>1. /\ n.slot = w.slot /\ n.key = w.key /\ n.got = "published"
          /\ work' = (work \ {w}) \cup {n} /\ work' \subseteq Work /\ WorkDistinct'
        BY <1>5, MarkFacts
    <2>2. /\ \A s \in Slots : key_of'[s] = IF s = w.slot THEN w.key ELSE key_of[s]
          /\ \A k \in Keys : slot_of'[k] = IF k = w.key THEN w.slot ELSE slot_of[k]
          /\ \A k \in Keys : last_use'[k] = IF k = w.key THEN clock + 1 ELSE last_use[k]
          /\ \A s \in Slots : used_at'[s] = IF s = w.slot THEN clock + 1 ELSE used_at[s]
          /\ \A s \in Slots : record_of_slot'[s] = IF s = w.slot THEN w.key
                                                   ELSE record_of_slot[s]
        BY <1>1, <1>5 DEF CacheInv, TypeOK, Fill
    <2>3. TypeOK'
        BY <1>1, <1>2, <1>5, <2>1 DEF CacheInv, TypeOK, Fill
    <2>4. MapsInverse'
        <3>1. \A k \in Keys : slot_of'[k] # NoSlot => key_of'[slot_of'[k]] = k
            BY <1>1, <1>3, <2>2 DEF CacheInv, MapsInverse, TypeOK
        <3>2. \A s \in Slots : key_of'[s] \in Keys => slot_of'[key_of'[s]] = s
            BY <1>1, <1>3, <2>2 DEF CacheInv, MapsInverse
        <3> QED
            BY <3>1, <3>2 DEF MapsInverse
    <2>5. ResidentExact'
        <3>1. arena[w.slot] = w.key
            BY <1>5 DEF CacheInv, WorkRead, Complete
        <3> QED
            BY <1>1, <1>2, <2>2, <3>1 DEF CacheInv, ResidentExact
    <2>6. Reserved'
        <3> SUFFICES ASSUME NEW s \in Slots
                     PROVE  key_of'[s] = INFLIGHT
                            <=> \E v \in work' : ~Settled(v) /\ v.slot = s
            BY DEF Reserved, Settled
        <3>1. CASE s = w.slot
            BY <1>1, <1>3, <1>4, <2>1, <2>2, <3>1 DEF Settled
        <3>2. CASE s # w.slot
            BY <2>1, <2>2, <3>2 DEF CacheInv, Reserved, Settled
        <3> QED
            BY <3>1, <3>2
    <2>7. WorkAbsent'
        <3>1. \A v \in work : v.key \in Keys
            BY DEF CacheInv, TypeOK, Work
        <3> QED
            BY <1>4, <2>1, <2>2, <3>1 DEF CacheInv, WorkAbsent, Settled
    <2>8. WorkRead' /\ Phases'
        BY <1>1, <1>2, <2>1 DEF CacheInv, WorkRead, Phases
    <2>9. Stamps'
        <3>1. clock \in Nat /\ clock' = clock + 1
              /\ \A s \in Slots : used_at[s] \in Nat /\ used_at[s] <= clock
            BY <1>5 DEF CacheInv, TypeOK, Stamps
        <3>2. \A s \in Slots : used_at'[s] <= clock'
            BY <2>2, <3>1
        <3>3. \A s, t \in Slots : key_of'[s] \in Keys /\ key_of'[t] \in Keys
                                  /\ used_at'[s] = used_at'[t] => s = t
            BY <2>2, <3>1 DEF CacheInv, Stamps
        <3>4. \A k \in Keys : slot_of[k] # NoSlot => slot_of[k] \in Slots \ {w.slot}
            BY <1>1, <1>3 DEF CacheInv, MapsInverse, TypeOK
        <3>5. \A k \in Keys : slot_of'[k] # NoSlot => last_use'[k] = used_at'[slot_of'[k]]
            BY <1>1, <2>2, <3>4 DEF CacheInv, Stamps
        <3> QED
            BY <1>1, <1>2, <3>2, <3>3, <3>5 DEF Stamps
    <2> QED
        BY <2>1, <2>3, <2>4, <2>5, <2>6, <2>7, <2>8, <2>9 DEF CacheInv
<1>6. ASSUME Release(w), Mark(w, "failed"),
             record_of_slot' = [record_of_slot EXCEPT ![w.slot] = NoRecord],
             slot_of' = slot_of, used_at' = used_at, clock' = clock,
             last_use' = last_use
      PROVE  CacheInv'
    <2> DEFINE n == [w EXCEPT !.got = "failed"]
    <2>1. /\ n.slot = w.slot /\ n.key = w.key /\ n.got = "failed"
          /\ work' = (work \ {w}) \cup {n} /\ work' \subseteq Work /\ WorkDistinct'
        <3>1. Mark(w, "failed")
            BY <1>6
        <3>2. "failed" \in {"reading", "full", "short", "published", "failed"}
            OBVIOUS
        <3> QED
            BY <3>1, <3>2, MarkFacts, ZenonT(30)
    <2>2. /\ \A s \in Slots : key_of'[s] = IF s = w.slot THEN EMPTY ELSE key_of[s]
          /\ \A s \in Slots : s # w.slot => record_of_slot'[s] = record_of_slot[s]
        BY <1>1, <1>6 DEF CacheInv, TypeOK, Release
    <2>3. TypeOK'
        BY <1>1, <1>2, <1>6, <2>1 DEF CacheInv, TypeOK, Release
    <2>4. MapsInverse'
        <3>1. \A k \in Keys : slot_of[k] # NoSlot
                              => slot_of[k] \in Slots \ {w.slot}
            BY <1>1, <1>3 DEF CacheInv, MapsInverse, TypeOK
        <3>2. \A s \in Slots : key_of'[s] \in Keys => key_of'[s] = key_of[s]
            BY <2>2
        <3> QED
            BY <1>6, <2>2, <3>1, <3>2 DEF CacheInv, MapsInverse
    <2>5. ResidentExact'
        BY <1>2, <2>2 DEF CacheInv, ResidentExact
    <2>6. Reserved'
        <3> SUFFICES ASSUME NEW s \in Slots
                     PROVE  key_of'[s] = INFLIGHT
                            <=> \E v \in work' : ~Settled(v) /\ v.slot = s
            BY DEF Reserved, Settled
        <3>1. CASE s = w.slot
            BY <1>4, <2>1, <2>2, <3>1 DEF Settled
        <3>2. CASE s # w.slot
            BY <2>1, <2>2, <3>2 DEF CacheInv, Reserved, Settled
        <3> QED
            BY <3>1, <3>2
    <2>7. WorkAbsent'
        BY <1>6, <2>1 DEF CacheInv, WorkAbsent, Settled
    <2>8. WorkRead' /\ Phases'
        BY <1>1, <1>2, <2>1 DEF CacheInv, WorkRead, Phases
    <2>9. Stamps'
        BY <1>1, <1>2, <1>6, <2>2 DEF CacheInv, Stamps
    <2> QED
        BY <2>1, <2>3, <2>4, <2>5, <2>6, <2>7, <2>8, <2>9 DEF CacheInv
<1> QED
    BY <1>5, <1>6 DEF Publish

(***************************************************************************)
(* The theorems.                                                           *)
(***************************************************************************)

\* A call that changes nothing, and stuttering.
LEMMA StutterInv ==
    ASSUME CacheInv, UNCHANGED <<tables, pins, arena, locals>>,
           out' = NoOut \/ out' = out
    PROVE  CacheInv'
<1> USE DEF tables, pins, locals, CacheInv
<1>1. TypeOK'
    BY DEF TypeOK
<1>2. MapsInverse' /\ ResidentExact' /\ Reserved' /\ Stamps'
    BY DEF MapsInverse, ResidentExact, Reserved, Stamps, Settled
<1>3. WorkDistinct' /\ WorkAbsent' /\ WorkRead' /\ Phases'
    BY DEF WorkDistinct, WorkAbsent, WorkRead, Phases, Settled
<1> QED
    BY <1>1, <1>2, <1>3

LEMMA StepCacheInv == CacheInv /\ [Next]_vars => CacheInv'
<1> SUFFICES ASSUME CacheInv, [Next]_vars PROVE CacheInv'
    OBVIOUS
<1>1. CASE Call
    <2>1. ASSUME NEW l \in Layers, NEW es \in SUBSET Experts, PinLayer(l, es)
          PROVE  CacheInv'
        BY <2>1, PinLayerInv
    <2>2. ASSUME NEW k \in Members, GetHit(k)
          PROVE  CacheInv'
        BY <2>2, GetHitInv
    <2>3. ASSUME NEW k \in Members, GetMiss(k)
          PROVE  CacheInv'
        BY <2>3, GetMissInv
    <2>4. ASSUME NEW k \in Members, GetRefused(k)
          PROVE  CacheInv'
        BY <2>4, StutterInv DEF GetRefused
    <2>5. ASSUME NEW b \in Batches, GetMany(b)
          PROVE  CacheInv'
        BY <2>5, GetManyInv
    <2>6. CASE Close
        BY <2>6, CloseInv
    <2> QED
        BY <1>1, <2>1, <2>2, <2>3, <2>4, <2>5, <2>6 DEF Call
<1>2. CASE Worker
    BY <1>2, WorkerInv DEF Worker
<1>3. CASE Main
    <2>1. ASSUME NEW w \in work, Publish(w) \/ GetFinish(w)
          PROVE  CacheInv'
        BY <2>1, PublishInv, GetFinishInv
    <2> QED
        BY <1>3, <2>1, SkipMemberInv, ReserveMemberInv, AbandonRestInv,
           EndReserveInv, JoinWorkersInv, ReturnManyInv DEF Main
<1>4. CASE Halted \/ UNCHANGED vars
    BY <1>4, StutterInv DEF Halted, vars
<1> QED
    BY <1>1, <1>2, <1>3, <1>4 DEF Next

\* CacheInv holds in every reachable state, for every store, number of slots
\* and history of calls.
THEOREM CacheInvariant == Spec => []CacheInv
<1> QED
    BY InitCacheInv, StepCacheInv, PTL DEF Spec

\* The two tables of src/expert_cache.c never disagree.
THEOREM TablesAgree == Spec => []MapsInverse
<1>1. CacheInv => MapsInverse
    BY DEF CacheInv
<1> QED
    BY <1>1, CacheInvariant, PTL

\* A resident record is always complete and the right one.
THEOREM ResidentIsExact == Spec => []ResidentExact
<1>1. CacheInv => ResidentExact
    BY DEF CacheInv
<1> QED
    BY <1>1, CacheInvariant, PTL

\* No call leaves a slot reserved behind it.
THEOREM NothingLeaks == Spec => []NoLeakedSlot
<1>1. CacheInv => NoLeakedSlot
    BY DEF CacheInv, NoLeakedSlot, Reserved, Phases
<1> QED
    BY <1>1, CacheInvariant, PTL

(***************************************************************************)
(* Eviction follows recency.                                               *)
(***************************************************************************)

\* Reserving a victim drops at most its key, and only when the drop is due.
LEMMA ReserveEvicts ==
    ASSUME CacheInv, NEW spared, NEW s \in Victims(spared), NEW r, Reserve(s, r),
           NEW k \in Held, slot_of'[k] = NoSlot
    PROVE  /\ k = key_of[s]
           /\ \A t \in Slots : key_of[t] # EMPTY
           /\ k \notin pinned_of \cup spared
           /\ \A j \in Held \ (pinned_of \cup spared \cup {k}) : last_use[k] < last_use[j]
<1> USE CacheAssumption
<1>1. k \in Keys /\ slot_of[k] \in Slots /\ key_of[slot_of[k]] = k
    BY DEF Held, CacheInv, TypeOK, MapsInverse
<1>2. k = key_of[s]
    BY <1>1 DEF Reserve, DropEntry, Held
<1>3. /\ \A t \in Slots : key_of[t] # EMPTY
      /\ s \in Slots /\ Evictable(s, spared)
      /\ \A t \in Slots : Evictable(t, spared) => Older(s, t)
    BY <1>1, <1>2 DEF Victims
<1>4. ASSUME NEW j \in Held \ (pinned_of \cup spared \cup {k})
      PROVE  last_use[k] < last_use[j]
    <2> DEFINE t == slot_of[j]
    <2>1. j \in Keys /\ t \in Slots /\ key_of[t] = j
        BY <1>4 DEF Held, CacheInv, TypeOK, MapsInverse
    <2>2. Older(s, t)
        BY <1>3, <1>4, <2>1 DEF Evictable
    <2>3. used_at[s] # used_at[t]
        BY <1>1, <1>2, <1>3, <1>4, <2>1 DEF CacheInv, Stamps
    <2>4. slot_of[k] = s
        BY <1>1, <1>2, <1>3 DEF CacheInv, MapsInverse
    <2>5. last_use[k] = used_at[s] /\ last_use[j] = used_at[t]
        BY <1>1, <2>1, <2>4 DEF CacheInv, Stamps, Held
    <2> QED
        BY <2>2, <2>3, <2>5 DEF Older
<1> QED
    BY <1>2, <1>3, <1>4 DEF Evictable

\* Every eviction takes the unpinned, unspared resident used longest ago.
THEOREM EvictionIsLRU == Spec => EvictsOldest
<1> DEFINE Due(k) ==
        /\ \A s \in Slots : key_of[s] # EMPTY
        /\ k \notin pinned_of \cup avoid
        /\ \A j \in Held \ (pinned_of \cup avoid \cup {k}) : last_use[k] < last_use[j]
<1>1. ASSUME CacheInv, [Next]_vars, pc' # "closed", NEW k \in Held, slot_of'[k] = NoSlot
      PROVE  Due(k)
    <2>1. ASSUME NEW r \in Members, GetMiss(r)
          PROVE  Due(k)
        <3>1. PICK s \in Victims({}) : Reserve(s, r)
            BY <2>1 DEF GetMiss
        <3>2. avoid = {}
            BY <1>1, <2>1 DEF GetMiss, Idle, CacheInv, Phases
        <3> QED
            BY <1>1, <3>1, <3>2, ReserveEvicts
    <2>2. CASE ReserveMember
        BY <1>1, <2>2, ReserveEvicts DEF ReserveMember
    <2>3. slot_of[k] # NoSlot /\ k \in Keys
        BY DEF Held
    <2>4. ASSUME UNCHANGED slot_of
          PROVE  FALSE
        BY <1>1, <2>3, <2>4
    <2>5. ASSUME NEW w \in work, Publish(w) \/ GetFinish(w)
          PROVE  FALSE
        <3>1. w.key \in Keys /\ w.slot \in Slots
            BY <1>1, CacheAssumption DEF CacheInv, TypeOK, Work
        <3>2. slot_of' = slot_of \/ slot_of' = [slot_of EXCEPT ![w.key] = w.slot]
            <4>1. CASE Publish(w)
                <5>1. Fill(w) \/ UNCHANGED slot_of
                    BY <4>1 DEF Publish
                <5> QED
                    BY <5>1 DEF Fill
            <4>2. CASE GetFinish(w)
                <5>1. Fill(w) \/ UNCHANGED slot_of
                    BY <4>2 DEF GetFinish
                <5> QED
                    BY <5>1 DEF Fill
            <4> QED
                BY <2>5, <4>1, <4>2
        <3> QED
            BY <1>1, <2>3, <3>1, <3>2 DEF CacheInv, TypeOK, NoSlot, Slots
    <2>6. CASE Call
        BY <1>1, <2>1, <2>4, <2>6
        DEF Call, PinLayer, GetHit, GetRefused, GetMany, Close, tables
    <2>7. CASE Worker
        BY <2>4, <2>7 DEF Worker, ReadBegin, ReadEnd, tables
    <2>8. CASE Main
        BY <2>2, <2>4, <2>5, <2>8
        DEF Main, SkipMember, AbandonRest, EndReserve, JoinWorkers, ReturnMany, tables
    <2>9. CASE Halted \/ UNCHANGED vars
        BY <2>4, <2>9 DEF Halted, vars, tables
    <2> QED
        BY <1>1, <2>6, <2>7, <2>8, <2>9 DEF Next
<1>2. CacheInv /\ [Next]_vars =>
        [pc' # "closed" => \A k \in Held : slot_of'[k] = NoSlot => Due(k)]_vars
    BY <1>1
<1> QED
    BY <1>2, CacheInvariant, PTL DEF Spec, EvictsOldest

-----------------------------------------------------------------------------
(* The cache implements ExactCache, for every store, number of slots and   *)
(* history of calls.                                                       *)

Loading == {w.key : w \in {v \in work : ~Settled(v)}}
Served  == IF out = NoOut THEN NoRecord ELSE arena[out.slot]

\* What a get handed out is gone when the next call begins.
OutInv == pc # "idle" => out = NoOut

-----------------------------------------------------------------------------
LEMMA StepOutInv == OutInv /\ [Next]_vars => OutInv'
<1> SUFFICES ASSUME OutInv, [Next]_vars  PROVE OutInv'
    OBVIOUS
<1>1. CASE Call
    BY <1>1 DEF Call, PinLayer, GetHit, GetMiss, GetRefused, GetMany, Close, OutInv, locals, Idle
<1>2. CASE Worker
    BY <1>2 DEF Worker, ReadBegin, ReadEnd, OutInv
<1>3. CASE Main
    BY <1>3 DEF Main, SkipMember, ReserveMember, AbandonRest, EndReserve, JoinWorkers, Publish,
        GetFinish, ReturnMany, OutInv
<1>4. CASE Halted \/ UNCHANGED vars
    BY <1>4 DEF Halted, vars, locals, OutInv
<1> QED
    BY <1>1, <1>2, <1>3, <1>4 DEF Next

\* What is resident or being loaded has a slot each.
LEMMA SlotEach ==
    ASSUME CacheInv
    PROVE  Cardinality(Held) + Cardinality(Loading) <= NSlots
<1> USE CacheAssumption
<1> DEFINE Owns(k, s) == \/ slot_of[k] = s /\ key_of[s] = k
                         \/ key_of[s] = INFLIGHT
                            /\ \E w \in work : ~Settled(w) /\ w.key = k /\ w.slot = s
           owner == [k \in Held \cup Loading |-> CHOOSE s \in Slots : Owns(k, s)]
<1>1. ASSUME NEW k \in Held \cup Loading  PROVE \E s \in Slots : Owns(k, s)
    <2>1. CASE k \in Held
        BY <2>1 DEF Held, CacheInv, TypeOK, MapsInverse
    <2>2. CASE k \in Loading
        <3>1. PICK w \in work : ~Settled(w) /\ w.key = k
            BY <2>2 DEF Loading
        <3> QED
            BY <3>1 DEF CacheInv, TypeOK, Work, Reserved
    <2> QED
        BY <2>1, <2>2
<1>2. ASSUME NEW j \in Held \cup Loading, NEW k \in Held \cup Loading, NEW s \in Slots,
             Owns(j, s), Owns(k, s)
      PROVE  j = k
    <2>1. j \in Keys /\ k \in Keys
        BY DEF Held, Loading, CacheInv, TypeOK, Work
    <2>2. CASE key_of[s] = INFLIGHT
        BY <1>2, <2>1, <2>2 DEF CacheInv, WorkDistinct
    <2>3. CASE key_of[s] # INFLIGHT
        BY <1>2, <2>3
    <2> QED
        BY <2>2, <2>3
<1>3. owner \in Injection(Held \cup Loading, Slots)
    <2>1. \A k \in Held \cup Loading : owner[k] \in Slots /\ Owns(k, owner[k])
        BY <1>1
    <2>2. owner \in [Held \cup Loading -> Slots]
        BY <2>1
    <2> HIDE DEF owner, Owns
    <2>3. \A j, k \in Held \cup Loading : owner[j] = owner[k] => j = k
        BY <1>2, <2>1
    <2> QED
        BY <2>2, <2>3 DEF Injection, IsInjective
<1>4. IsFiniteSet(Slots) /\ Cardinality(Slots) = NSlots
    BY FS_Interval, 0 \in Int, NSlots - 1 \in Int DEF Slots
<1> HIDE DEF owner
<1>5. IsFiniteSet(Held \cup Loading) /\ Cardinality(Held \cup Loading) <= NSlots
    BY <1>3, <1>4, FS_Injection
<1>6. IsFiniteSet(Held) /\ IsFiniteSet(Loading)
    BY <1>5, FS_Subset
<1>7. Held \cap Loading = {}
    BY DEF Held, Loading, CacheInv, WorkAbsent
<1>8. Cardinality(Held \cup Loading) = Cardinality(Held) + Cardinality(Loading) - Cardinality({})
    BY <1>6, <1>7, FS_Union
<1>9. Cardinality({}) = 0 /\ Cardinality(Held) \in Nat /\ Cardinality(Loading) \in Nat
    BY <1>6, FS_EmptySet, FS_CardinalityType
<1> QED
    BY <1>5, <1>8, <1>9

-----------------------------------------------------------------------------
(* Each step of the cache is a step of ExactCache, or a stutter.           *)

LEMMA SameCardinality == \A S : Exact!Cardinality(S) = Cardinality(S)
BY Zenon DEF Exact!Cardinality, Cardinality

LEMMA Unseen ==
    ASSUME UNCHANGED <<slot_of, pinned_of>>, Loading' = Loading, Served' = Served
    PROVE  UNCHANGED <<Held, Loading, pinned_of, Served>>
BY DEF Held

\* A victim's key is dropped and the new one's read begins.
LEMMA ReserveLoads ==
    ASSUME CacheInv, CacheInv', NEW spared, NEW s \in Victims(spared), NEW k \in Records,
           Reserve(s, k), slot_of[k] = NoSlot, \A w \in work : w.key # k,
           pinned_of' = pinned_of, out' = NoOut
    PROVE  Exact!Next
<1> USE CacheAssumption
<1> DEFINE dropped == Held \cap {key_of[s]}
<1>1. s \in Slots /\ (key_of[s] = EMPTY \/ Evictable(s, spared))
    BY VictimFree
<1>2. Held' = Held \ dropped
    <2>1. \A j \in Keys : slot_of'[j] = IF j = key_of[s] THEN NoSlot ELSE slot_of[j]
        BY DEF Reserve, DropEntry
    <2> QED
        BY <2>1 DEF Held
<1>3. Loading' = Loading \cup {k}
    <2> DEFINE new == [slot |-> s, key |-> k, got |-> "wait"]
    <2>1. work' = work \cup {new} /\ new.key = k /\ new.got = "wait"
        BY DEF Reserve
    <2> HIDE DEF new
    <2> QED
        BY <2>1 DEF Loading, Settled
<1>4. dropped \subseteq Held \ pinned_of
    BY <1>1 DEF Evictable, Held
<1>5. Cardinality(dropped) <= 1
    <2>1. CASE dropped = {}
        <3> HIDE DEF dropped
        <3> QED
            BY <2>1, FS_EmptySet
    <2>2. CASE dropped = {key_of[s]}
        <3>1. Cardinality({key_of[s]}) = 1
            BY FS_Singleton
        <3>2. Cardinality(dropped) = 1
            BY <2>2, <3>1, Zenon
        <3> QED
            BY <3>2
    <2> QED
        BY <2>1, <2>2
<1>6. Cardinality(Held') + Cardinality(Loading') <= NSlots
    <2>1. (Cardinality(Held) + Cardinality(Loading) <= NSlots)'
        BY SlotEach, PTL
    <2> QED
        BY <2>1
<1>7. k \in Records \ (Held \cup Loading) /\ k \in Keys
    BY DEF Held, Loading
<1>8. Served' = NoRecord
    BY DEF Served
<1> HIDE DEF dropped
<1>9. /\ Exact!Cardinality(dropped) <= 1
      /\ Exact!Cardinality(Held') + Exact!Cardinality(Loading') <= NSlots
    BY <1>5, <1>6, SameCardinality
<1>10. PICK d \in SUBSET Held : d = dropped
    BY <1>4
<1>11. Exact!Load(k, d)
    BY <1>2, <1>3, <1>4, <1>7, <1>8, <1>9, <1>10, Zenon DEF Exact!Load, Loading, Served
<1> QED
    BY <1>7, <1>11 DEF Exact!Next

\* A complete record arrives; served is its key if a get asked for it.
LEMMA FillArrives ==
    ASSUME CacheInv, NEW w \in work, ~Settled(w), w.got = "full", Fill(w),
           Loading' = Loading \ {w.key}, Served' \in {NoRecord, w.key},
           pinned_of' = pinned_of
    PROVE  Exact!Next
<1> USE CacheAssumption
<1>1. w.key \in Keys /\ w.key \in Loading /\ w.slot \in Slots /\ w.slot # NoSlot
    BY DEF CacheInv, TypeOK, Work, Loading, Slots, NoSlot
<1>2. Held' = Held \cup {w.key}
    <2>1. \A j \in Keys : slot_of'[j] = IF j = w.key THEN w.slot ELSE slot_of[j]
        BY <1>1 DEF Fill, CacheInv, TypeOK
    <2> QED
        BY <1>1, <2>1 DEF Held
<1>3. PICK k \in Keys : k = w.key
    BY <1>1
<1>4. Exact!Arrive(k)
    BY <1>1, <1>2, <1>3 DEF Exact!Arrive, Loading, Served
<1> QED
    BY <1>4 DEF Exact!Next

LEMMA ShortIsLost ==
    ASSUME CacheInv, NEW w \in work, ~Settled(w), slot_of' = slot_of,
           Loading' = Loading \ {w.key}, Served' = NoRecord, pinned_of' = pinned_of
    PROVE  Exact!Next
<1>1. w.key \in Keys /\ w.key \in Loading
    BY CacheAssumption DEF CacheInv, TypeOK, Work, Loading
<1>2. Held' = Held
    BY DEF Held
<1>3. PICK k \in Keys : k = w.key
    BY <1>1
<1>4. Exact!Lose(k)
    BY <1>1, <1>2, <1>3 DEF Exact!Lose, Loading, Served
<1> QED
    BY <1>4 DEF Exact!Next

\* The keys on their way, after an entry of the work array is settled, and
\* after a status that leaves it on its way.
LEMMA MarkLoading ==
    ASSUME CacheInv, NEW w \in work, ~Settled(w),
           NEW g \in {"reading", "full", "short", "published", "failed"}, Mark(w, g)
    PROVE  Loading' = IF g \in {"published", "failed"} THEN Loading \ {w.key} ELSE Loading
<1>1. PICK n : n = [w EXCEPT !.got = g]
    OBVIOUS
<1>2. /\ n.key = w.key /\ n.got = g /\ work' = (work \ {w}) \cup {n}
    BY <1>1, MarkFacts
<1>3. \A v \in work : v # w => v.key # w.key
    BY DEF CacheInv, WorkDistinct
<1> QED
    BY <1>2, <1>3 DEF Loading, Settled

LEMMA CallRefines ==
    ASSUME CacheInv, CacheInv', Call
    PROVE  Exact!Next
<1> USE CacheAssumption
<1>1. ASSUME NEW l \in Layers, NEW es \in SUBSET Experts, PinLayer(l, es)
      PROVE  Exact!Next
    <2>1. Held' = Held /\ Loading' = Loading /\ Served' = NoRecord /\ pinned_of' \in SUBSET Keys
        BY <1>1 DEF PinLayer, tables, locals, Held, Loading, Served, Settled, CacheInv, TypeOK
    <2> QED
        BY <2>1 DEF Exact!Next, Exact!Pin, Loading, Served
<1>2. ASSUME NEW m \in Members, GetHit(m)
      PROVE  Exact!Next
    <2>1. m \in Keys /\ m \in Held /\ arena[slot_of[m]] = m
        BY <1>2 DEF GetHit, Resident, Held, CacheInv, ResidentExact, NoSlot, Slots
    <2>2. Held' = Held /\ Loading' = Loading /\ pinned_of' = pinned_of
        BY <1>2 DEF GetHit, pins, locals, Held, Loading, Settled
    <2>3. Served' = m
        <3>1. out' = [key |-> m, slot |-> slot_of[m]] /\ arena' = arena /\ slot_of[m] \in Slots
            BY <1>2 DEF GetHit, Resident
        <3>2. out' # NoOut
            BY <2>1, <3>1
        <3> QED
            BY <2>1, <3>1, <3>2 DEF Served
    <2>4. Exact!Serve(m)
        BY <2>1, <2>2, <2>3 DEF Exact!Serve, Loading, Served
    <2> QED
        BY <2>1, <2>4 DEF Exact!Next
<1>3. ASSUME NEW m \in Members, GetMiss(m)
      PROVE  Exact!Next
    <2>1. /\ m \in Records /\ pinned_of' = pinned_of /\ out' = NoOut /\ work = {}
        BY <1>3 DEF GetMiss, pins, Idle, CacheInv, Phases
    <2>2. slot_of[m] = NoSlot
        BY <1>3, <2>1 DEF GetMiss, Resident, CacheInv, MapsInverse, TypeOK
    <2>3. PICK s \in Victims({}) : Reserve(s, m)
        BY <1>3 DEF GetMiss
    <2> QED
        BY <2>1, <2>2, <2>3, ReserveLoads
<1>4. ASSUME NEW m \in Members, GetRefused(m)
      PROVE  Exact!Next
    <2>1. Held' = Held /\ Loading' = Loading /\ Served' = NoRecord /\ pinned_of' = pinned_of
        BY <1>4 DEF GetRefused, tables, pins, locals, Held, Loading, Served, Settled
    <2> QED
        BY <2>1 DEF Exact!Next, Exact!Decline, Loading, Served
<1>5. ASSUME NEW b \in Batches, GetMany(b)
      PROVE  Exact!Next
    <2>1. Held' = Held /\ Loading' = Loading /\ Served' = NoRecord /\ pinned_of' = pinned_of
        BY <1>5 DEF GetMany, tables, pins, Held, Loading, Served, Settled
    <2> QED
        BY <2>1 DEF Exact!Next, Exact!Decline, Loading, Served
<1>6. CASE Close
    <2>1. work = {} /\ work' = {}
        BY <1>6 DEF Close, CacheInv, Phases
    <2>2. Held' = {} /\ Loading = {} /\ Loading' = {} /\ pinned_of' = {} /\ Served' = NoRecord
        BY <1>6, <2>1 DEF Close, Held, Loading, Served
    <2> QED
        BY <2>2 DEF Exact!Next, Exact!Close, Loading, Served
<1> QED
    BY <1>1, <1>2, <1>3, <1>4, <1>5, <1>6 DEF Call

LEMMA StepRefines ==
    ASSUME CacheInv, CacheInv', OutInv, [Next]_vars
    PROVE  [Exact!Next]_<<Held, Loading, pinned_of, Served>>
<1> USE CacheAssumption
<1>1. CASE Call
    BY <1>1, CallRefines
<1>2. ASSUME NEW w \in work, ReadBegin(w) \/ ReadEnd(w)
      PROVE  UNCHANGED <<Held, Loading, pinned_of, Served>>
    <2>1. /\ UNCHANGED <<slot_of, pinned_of, out>> /\ pc # "idle" /\ ~Settled(w)
          /\ \E g \in {"reading", "full", "short"} : Mark(w, g)
        BY <1>2 DEF ReadBegin, ReadEnd, tables, pins, Settled
    <2>2. Loading' = Loading
        BY <2>1, MarkLoading
    <2>3. Served' = Served
        BY <2>1 DEF OutInv, Served
    <2> QED
        BY <2>1, <2>2, <2>3, Unseen
<1>3. CASE ReserveMember
    <2>1. /\ Head(todo) \in Records /\ slot_of[Head(todo)] = NoSlot
          /\ \A w \in work : w.key # Head(todo)
          /\ pinned_of' = pinned_of /\ out' = NoOut
        BY <1>3 DEF ReserveMember, NeedsRead, pins, OutInv
    <2>2. PICK s \in Victims(avoid) : Reserve(s, Head(todo))
        BY <1>3 DEF ReserveMember
    <2>3. PICK k \in Records : k = Head(todo)
        BY <2>1
    <2>4. PICK spared : spared = avoid
        OBVIOUS
    <2> QED
        BY <2>1, <2>2, <2>3, <2>4, ReserveLoads
<1>4. ASSUME NEW w \in work, GetFinish(w)
      PROVE  Exact!Next
    <2>1. /\ pc = "load" /\ work' = {} /\ pinned_of' = pinned_of /\ arena' = arena
          /\ ~Settled(w) /\ \A v \in work : v = w
        BY <1>4 DEF GetFinish, pins, CacheInv, Phases
    <2>2. Loading' = Loading \ {w.key}
        BY <2>1 DEF Loading
    <2>3. CASE Complete(w) /\ Fill(w) /\ out' = [key |-> w.key, slot |-> w.slot]
        <3>1. w.got = "full" /\ arena[w.slot] = w.key /\ w.key \in Keys /\ w.slot \in Slots
            BY <2>3 DEF Complete, CacheInv, WorkRead, TypeOK, Work
        <3>2. Served' = w.key
            <4>1. out' # NoOut
                BY <2>3, <3>1
            <4> QED
                BY <2>1, <2>3, <3>1, <4>1 DEF Served
        <3> QED
            BY <2>1, <2>2, <2>3, <3>1, <3>2, FillArrives
    <2>4. CASE out' = NoOut /\ slot_of' = slot_of
        <3>1. Served' = NoRecord
            BY <2>4 DEF Served
        <3> QED
            BY <2>1, <2>2, <2>4, <3>1, ShortIsLost
    <2> QED
        BY <1>4, <2>3, <2>4 DEF GetFinish
<1>5. ASSUME NEW w \in work, Publish(w)
      PROVE  Exact!Next
    <2>1. ~Settled(w) /\ pinned_of' = pinned_of /\ Served' = NoRecord
        BY <1>5 DEF Publish, pins, OutInv, Served
    <2>2. CASE Complete(w) /\ Fill(w) /\ Mark(w, "published")
        BY <2>1, <2>2, MarkLoading, FillArrives DEF Complete
    <2>3. CASE Mark(w, "failed") /\ slot_of' = slot_of
        BY <2>1, <2>3, MarkLoading, ShortIsLost
    <2> QED
        BY <1>5, <2>2, <2>3 DEF Publish
<1>6. CASE SkipMember \/ AbandonRest \/ EndReserve \/ JoinWorkers
    <2>1. UNCHANGED <<slot_of, pinned_of, work, out, arena>>
        BY <1>6 DEF SkipMember, AbandonRest, EndReserve, JoinWorkers, tables, pins
    <2>2. Loading' = Loading /\ Served' = Served
        BY <2>1 DEF Loading, Served, Settled
    <2> QED
        BY <2>1, <2>2, Unseen
<1>7. CASE ReturnMany
    <2>1. /\ UNCHANGED <<slot_of, pinned_of, out, arena>> /\ work' = {}
          /\ \A w \in work : Settled(w)
        BY <1>7 DEF ReturnMany, tables, pins
    <2>2. Loading' = Loading /\ Served' = Served
        BY <2>1 DEF Loading, Served
    <2> QED
        BY <2>1, <2>2, Unseen
<1>8. CASE Halted \/ UNCHANGED vars
    <2>1. UNCHANGED <<slot_of, pinned_of, work, out, arena>>
        BY <1>8 DEF Halted, vars, tables, pins, locals
    <2>2. Loading' = Loading /\ Served' = Served
        BY <2>1 DEF Loading, Served, Settled
    <2> QED
        BY <2>1, <2>2, Unseen
<1> QED
    BY <1>1, <1>2, <1>3, <1>4, <1>5, <1>6, <1>7, <1>8 DEF Next, Worker, Main

\* The cache of src/expert_cache.c keeps what its callers rely on: it never
\* holds or reads more records than it has slots, drops only unpinned ones,
\* reads only what the store has, and serves the bytes of the key asked for.
THEOREM CacheIsExact == Spec => ImplementsExact
<1>1. Init => Exact!Init /\ OutInv
    BY CacheAssumption DEF Init, Exact!Init, OutInv, Held
<1>2. Spec => []OutInv
    BY <1>1, StepOutInv, PTL DEF Spec
<1>3. CacheInv /\ CacheInv' /\ OutInv /\ [Next]_vars => [Exact!Next]_(Exact!vars)
    BY StepRefines DEF Exact!vars, Loading, Served
<1> QED
    BY <1>1, <1>2, <1>3, CacheInvariant, PTL DEF Spec, ImplementsExact, Exact!Spec

----------------------------------------------------------------------------
(* The token step. *)

\* Every set of natural numbers with a member has a least one.
LEMMA LeastNatural ==
    ASSUME NEW S \in SUBSET Nat, S # {}
    PROVE  \E m \in S : \A p \in S : m <= p
<1> DEFINE R == OpToRel(<, Nat)
<1>1. IsWellFoundedOn(R, Nat)
    BY NatLessThanWellFounded, Zenon
<1>2. \A x, y \in Nat : <<x, y>> \in R \/ y <= x
    BY DEF OpToRel
<1> HIDE DEF R
<1>3. PICK m \in S : \A p \in S : <<p, m>> \notin R
    BY <1>1, WFMin
<1> QED
    BY <1>2, <1>3

\* A set with ranks has a least element.
LEMMA LeastRank ==
    ASSUME NEW S, S # {}, NEW rank \in [S -> Nat]
    PROVE  \E m \in S : \A p \in S : rank[m] <= rank[p]
<1>1. PICK k \in {rank[p] : p \in S} : \A q \in {rank[p] : p \in S} : k <= q
    BY LeastNatural
<1> QED
    BY <1>1

(***************************************************************************)
(* Counting.                                                               *)
(***************************************************************************)

\* The positions Heaviest selects are no more than it is asked for: how many
\* are heavier tells them apart.
LEMMA HeaviestBound ==
    ASSUME NEW rt \in Routes, NEW some \in SUBSET Positions, NEW n \in Nat
    PROVE  /\ IsFiniteSet(Heaviest(rt, some, n))
           /\ Heaviest(rt, some, n) \subseteq some
           /\ Cardinality(Heaviest(rt, some, n)) <= n
<1> USE MoeAssumption, RoutesAssumption DEF Positions
<1> DEFINE heavier(i, j) == \/ rt.weight[i] > rt.weight[j]
                            \/ rt.weight[i] = rt.weight[j] /\ i < j
           over(i) == {j \in some : heavier(j, i)}
           H == {i \in some : Cardinality(over(i)) < n}
           rank == [i \in H |-> Cardinality(over(i))]
<1>1. Heaviest(rt, some, n) = H
    BY DEF Heaviest
<1>2. rt.weight \in [Positions -> Nat]
    OBVIOUS
<1>3. IsFiniteSet(some)
    <2>1. IsFiniteSet(1 .. TopK)
        BY FS_Interval
    <2> QED
        BY <2>1, FS_Subset
<1>4. \A i \in some : IsFiniteSet(over(i)) /\ Cardinality(over(i)) \in Nat
    <2>1. \A i \in some : over(i) \in SUBSET some
        OBVIOUS
    <2>2. \A i \in some : IsFiniteSet(over(i))
        BY <1>3, <2>1, FS_Subset
    <2> QED
        BY <2>2, FS_CardinalityType
<1>5. \A i, j \in some : heavier(i, j) => Cardinality(over(i)) # Cardinality(over(j))
    <2> SUFFICES ASSUME NEW i \in some, NEW j \in some, heavier(i, j)
                 PROVE  Cardinality(over(i)) # Cardinality(over(j))
        OBVIOUS
    <2>1. i \in over(j) /\ i \notin over(i)
        BY <1>2
    <2>2. \A k \in some : heavier(k, i) => heavier(k, j)
        BY <1>2
    <2>3. over(i) \in SUBSET over(j) /\ over(i) # over(j)
        BY <2>1, <2>2
    <2>4. IsFiniteSet(over(j))
        BY <1>4
    <2> HIDE DEF over
    <2> QED
        BY <2>3, <2>4, FS_Subset
<1>6. \A i, j \in some : i # j => heavier(i, j) \/ heavier(j, i)
    BY <1>2
<1>7. rank \in [H -> 0 .. n - 1]
    <2>1. \A i \in H : Cardinality(over(i)) \in Nat /\ Cardinality(over(i)) < n
        BY <1>4
    <2>2. \A i \in H : Cardinality(over(i)) \in 0 .. n - 1
        BY <2>1
    <2> HIDE DEF over, H
    <2> QED
        BY <2>2
<1>8. rank \in Injection(H, 0 .. n - 1)
    <2>1. \A i, j \in H : rank[i] = rank[j] => i = j
        <3> SUFFICES ASSUME NEW i \in H, NEW j \in H, rank[i] = rank[j], i # j
                     PROVE  FALSE
            OBVIOUS
        <3>1. i \in some /\ j \in some
            OBVIOUS
        <3>2. Cardinality(over(i)) \in Nat /\ Cardinality(over(j)) \in Nat
            BY <1>4, <3>1
        <3>4. Cardinality(over(i)) = Cardinality(over(j))
            OBVIOUS
        <3>5. heavier(i, j) \/ heavier(j, i)
            BY <1>6, <3>1
        <3> HIDE DEF over, heavier
        <3> QED
            BY <1>5, <3>1, <3>4, <3>5
    <2> QED
        BY <1>7, <2>1 DEF Injection, IsInjective
<1>9. IsFiniteSet(0 .. n - 1) /\ Cardinality(0 .. n - 1) = n
    <2>1. Cardinality(0 .. n - 1) = IF 0 > n - 1 THEN 0 ELSE n - 1 - 0 + 1
        BY FS_Interval
    <2> QED
        BY <2>1, FS_Interval
<1>10. IsFiniteSet(H) /\ Cardinality(H) <= n
    <2> HIDE DEF H, rank
    <2> QED
        BY <1>8, <1>9, FS_Injection
<1> QED
    BY <1>1, <1>10

\* Some positions name no more experts than they are.
LEMMA ImageBound ==
    ASSUME NEW rt \in Routes, NEW H \in SUBSET Positions, IsFiniteSet(H)
    PROVE  /\ IsFiniteSet({rt.id[i] : i \in H})
           /\ Cardinality({rt.id[i] : i \in H}) <= Cardinality(H)
<1> DEFINE image == {rt.id[i] : i \in H}
           f == [i \in H |-> rt.id[i]]
<1>1. f \in Surjection(H, image)
    BY DEF Surjection
<1> HIDE DEF f, image
<1>2. IsFiniteSet(image) /\ Cardinality(image) <= Cardinality(H)
    BY <1>1, FS_Surjection
<1> QED
    BY <1>2 DEF image

LEMMA PinMaxType == PinMax \in Nat /\ PinMax <= PinCount
BY MoeAssumption DEF PinMax

\* Old pins that are kept and new ones together respect the limit.
LEMMA PinSetBound ==
    ASSUME NEW rt \in Routes
    PROVE  /\ PinSet(rt) \subseteq Experts
           /\ IsFiniteSet(PinSet(rt)) /\ Cardinality(PinSet(rt)) <= PinCount
<1> DEFINE old == {i \in Positions : <<layer, rt.id[i]>> \in pinned_of}
           kept == Kept(rt)
           others == {i \in Positions : rt.id[i] \notin kept}
           left == PinMax - Cardinality(kept)
           new == {rt.id[i] : i \in Heaviest(rt, others, left)}
<1>1. kept \subseteq Experts /\ IsFiniteSet(kept) /\ Cardinality(kept) <= PinMax
    <2>1. CASE hysteresis /\ pins_on
        <3>1. kept = {rt.id[i] : i \in Heaviest(rt, old, PinMax)}
            BY <2>1 DEF Kept
        <3>2. /\ IsFiniteSet(Heaviest(rt, old, PinMax))
              /\ Heaviest(rt, old, PinMax) \subseteq Positions
              /\ Cardinality(Heaviest(rt, old, PinMax)) <= PinMax
            BY HeaviestBound, PinMaxType
        <3>3. IsFiniteSet(kept) /\ Cardinality(kept) <= Cardinality(Heaviest(rt, old, PinMax))
            BY <3>1, <3>2, ImageBound
        <3>4. kept \subseteq Experts
            BY <3>1, <3>2, RoutesAssumption
        <3>5. Cardinality(kept) \in Nat /\ Cardinality(Heaviest(rt, old, PinMax)) \in Nat
            BY <3>2, <3>3, FS_CardinalityType
        <3> HIDE DEF kept, old
        <3> QED
            BY <3>2, <3>3, <3>4, <3>5, PinMaxType
    <2>2. CASE ~(hysteresis /\ pins_on)
        BY <2>2, FS_EmptySet, PinMaxType DEF Kept
    <2> QED
        BY <2>1, <2>2
<1>2. Cardinality(kept) \in Nat /\ left \in Nat
    <2> HIDE DEF kept
    <2> QED
        BY <1>1, FS_CardinalityType, PinMaxType
<1>3. new \subseteq Experts /\ IsFiniteSet(new) /\ Cardinality(new) <= left
    <2>1. /\ IsFiniteSet(Heaviest(rt, others, left))
          /\ Heaviest(rt, others, left) \subseteq Positions
          /\ Cardinality(Heaviest(rt, others, left)) <= left
        <3> HIDE DEF left, kept
        <3> QED
            BY <1>2, HeaviestBound
    <2>2. IsFiniteSet(new) /\ Cardinality(new) <= Cardinality(Heaviest(rt, others, left))
        BY <2>1, ImageBound
    <2>3. new \subseteq Experts
        BY <2>1, RoutesAssumption
    <2>4. Cardinality(new) \in Nat /\ Cardinality(Heaviest(rt, others, left)) \in Nat
        BY <2>1, <2>2, FS_CardinalityType
    <2> HIDE DEF new, others, left
    <2> QED
        BY <1>2, <2>1, <2>2, <2>3, <2>4
<1>4. PinSet(rt) = kept \cup new
    BY DEF PinSet
<1>5. /\ IsFiniteSet(kept \cup new)
      /\ Cardinality(kept \cup new)
         = Cardinality(kept) + Cardinality(new) - Cardinality(kept \cap new)
    <2> HIDE DEF kept, new
    <2> QED
        BY <1>1, <1>3, FS_Union
<1>6. Cardinality(kept \cap new) \in Nat /\ Cardinality(new) \in Nat
    <2> HIDE DEF kept, new
    <2>1. IsFiniteSet(kept \cap new)
        BY <1>1, FS_Subset
    <2> QED
        BY <1>3, <2>1, FS_CardinalityType
<1>7. Cardinality(kept \cup new) <= PinMax
    <2>1. Cardinality(new) <= PinMax - Cardinality(kept)
        BY <1>3
    <2> HIDE DEF kept, new
    <2> QED
        BY <1>2, <1>5, <1>6, <2>1, PinMaxType
<1>8. Cardinality(kept \cup new) \in Nat
    BY <1>5, FS_CardinalityType
<1> HIDE DEF kept, new
<1> QED
    BY <1>1, <1>3, <1>4, <1>5, <1>7, <1>8, PinMaxType, MoeAssumption

\* Few pins in each layer are few pins in all.
LEMMA PinsCounted ==
    ASSUME pinned_of \subseteq Keys, PinsOf(0) = {},
           \A l \in Layers : IsFiniteSet(PinsOf(l)) /\ Cardinality(PinsOf(l)) <= PinCount
    PROVE  /\ IsFiniteSet(pinned_of)
           /\ Cardinality(pinned_of) <= LastLayer * PinCount
<1> USE MoeAssumption
<1> DEFINE place == [l \in Layers |-> CHOOSE f \in Injection(PinsOf(l), 1 .. PinCount) : TRUE]
           grid == (1 .. LastLayer) \X (1 .. PinCount)
           spot == [k \in pinned_of |-> <<k[1], place[k[1]][k[2]]>>]
<1>1. \A l \in Layers : \E f : f \in Injection(PinsOf(l), 1 .. PinCount)
    <2> SUFFICES ASSUME NEW l \in Layers
                 PROVE  \E f : f \in Injection(PinsOf(l), 1 .. PinCount)
        OBVIOUS
    <2> DEFINE S == PinsOf(l)
               c == Cardinality(S)
    <2>1. c \in Nat /\ c <= PinCount /\ ExistsBijection(1 .. c, S)
        BY FS_CardinalityType
    <2>2. ExistsBijection(S, 1 .. c)
        BY <2>1, Fun_ExistsBijSymmetric
    <2>3. PICK f : f \in Bijection(S, 1 .. c)
        BY <2>2 DEF ExistsBijection
    <2>4. f \in [S -> 1 .. PinCount] /\ IsInjective(f)
        BY <2>1, <2>3 DEF Bijection, Injection
    <2> QED
        BY <2>4 DEF Injection
<1>2. \A l \in Layers : place[l] \in Injection(PinsOf(l), 1 .. PinCount)
    BY <1>1
<1> HIDE DEF place
<1>3. \A k \in pinned_of : /\ k[1] \in 1 .. LastLayer /\ k[2] \in PinsOf(k[1])
                           /\ k = <<k[1], k[2]>>
    BY DEF Keys, PinsOf
<1>4. \A k \in pinned_of : place[k[1]][k[2]] \in 1 .. PinCount
    BY <1>2, <1>3 DEF Injection
<1>5. spot \in [pinned_of -> grid]
    BY <1>3, <1>4
<1>6. \A j, k \in pinned_of : spot[j] = spot[k] => j = k
    <2> SUFFICES ASSUME NEW j \in pinned_of, NEW k \in pinned_of, spot[j] = spot[k]
                 PROVE  j = k
        OBVIOUS
    <2>1. j[1] = k[1] /\ place[j[1]][j[2]] = place[j[1]][k[2]]
        OBVIOUS
    <2>2. j[2] = k[2]
        BY <1>2, <1>3, <2>1 DEF Injection, IsInjective
    <2> QED
        BY <1>3, <2>1, <2>2
<1>7. spot \in Injection(pinned_of, grid)
    BY <1>5, <1>6 DEF Injection, IsInjective
<1>8. /\ IsFiniteSet(1 .. LastLayer) /\ Cardinality(1 .. LastLayer) = LastLayer
      /\ IsFiniteSet(1 .. PinCount) /\ Cardinality(1 .. PinCount) = PinCount
    <2>1. /\ Cardinality(1 .. LastLayer) = IF 1 > LastLayer THEN 0 ELSE LastLayer - 1 + 1
          /\ Cardinality(1 .. PinCount) = IF 1 > PinCount THEN 0 ELSE PinCount - 1 + 1
        BY FS_Interval
    <2> QED
        BY <2>1, FS_Interval
<1>9. IsFiniteSet(grid) /\ Cardinality(grid) = LastLayer * PinCount
    BY <1>8, FS_Product
<1> HIDE DEF spot, grid
<1> QED
    BY <1>7, <1>9, FS_Injection

(***************************************************************************)
(* The inductive invariant.                                                *)
(***************************************************************************)

LEMMA MoeInitInv == MoeInit => MoeInv
<1> SUFFICES ASSUME MoeInit PROVE MoeInv
    OBVIOUS
<1> USE MoeAssumption DEF MoeInit, Init
<1>1. MoeTypeOK
    <2>1. layerpins \in BOOLEAN /\ hysteresis \in BOOLEAN /\ short \in BOOLEAN
        BY Zenon
    <2>2. layer \in 1 .. LastLayer /\ tok \in 1 .. PromptLen
        OBVIOUS
    <2>3. last_layer \in -1 .. LastLayer
        OBVIOUS
    <2>4. next \in 1 .. TopK + 1 /\ generated \in 0 .. MaxNew
        OBVIOUS
    <2> QED
        BY <2>1, <2>2, <2>3, <2>4 DEF MoeTypeOK
<1>2. Calls /\ Detector
    BY DEF Calls, Detector, LastSeen, Walking
<1>3. PinsFit
    <2>1. \A l : PinsOf(l) = {}
        BY DEF PinsOf
    <2>2. \A l : IsFiniteSet(PinsOf(l)) /\ Cardinality(PinsOf(l)) = 0
        BY <2>1, FS_EmptySet
    <2>3. \A l : IsFiniteSet(PinsOf(l)) /\ Cardinality(PinsOf(l)) <= PinCount
        BY <2>2
    <2> QED
        BY <2>1, <2>3, Zenon DEF PinsFit
<1> QED
    BY <1>1, <1>2, <1>3 DEF MoeInv

\* The walk's part of a step that leaves the pins alone.
LEMMA PinsStay ==
    ASSUME PinsFit, UNCHANGED <<pins, layerpins>>, stage' = "failed" \/ stage # "failed"
    PROVE  PinsFit'
BY DEF PinsFit, PinsOf, pins, Needed

\* So does a step's typing, when it moves neither the options nor the walk.
LEMMA WalkTyped ==
    ASSUME MoeTypeOK,
           UNCHANGED <<layerpins, hysteresis, layer, tok, generated>>,
           stage' \in {stage, "failed"}, step' \in {step, "batch", "gets"},
           last_layer' \in -1 .. LastLayer,
           route' \in Routes \cup {NoRoute}, next' \in 1 .. TopK + 1, short' \in BOOLEAN
    PROVE  MoeTypeOK'
<1>1. layerpins' \in BOOLEAN /\ hysteresis' \in BOOLEAN
    BY Zenon DEF MoeTypeOK
<1>2. /\ stage' \in {"prefill", "sample", "decode", "done", "failed"}
      /\ step' \in {"route", "batch", "gets"}
    BY DEF MoeTypeOK
<1>3. layer' \in 1 .. LastLayer /\ tok' \in 1 .. PromptLen /\ generated' \in 0 .. MaxNew
    BY DEF MoeTypeOK
<1> QED
    BY <1>1, <1>2, <1>3, Zenon DEF MoeTypeOK

LEMMA RouteTokenInv ==
    ASSUME MoeInv, pins_on \in BOOLEAN, NEW rt \in Routes, RouteToken(rt)
    PROVE  MoeInv'
<1> USE MoeAssumption DEF MoeInv
<1>0. /\ last_layer' \in -1 .. LastLayer
      /\ route' \in Routes /\ next' \in 1 .. TopK + 1 /\ short' \in BOOLEAN
    <2>1. last_layer' = layer \/ last_layer' = last_layer
        BY DEF RouteToken
    <2>2. route' \in Routes /\ next' = 1 /\ short' = FALSE
        BY DEF RouteToken
    <2>3. layer \in -1 .. LastLayer /\ last_layer \in -1 .. LastLayer /\ 1 \in 1 .. TopK + 1
        BY DEF MoeTypeOK
    <2> QED
        BY <2>1, <2>2, <2>3, Zenon
<1>1. /\ layer \in Layers /\ layer # 0
      /\ Pinning => layerpins
    BY DEF MoeTypeOK, PinsFit, Pinning
<1>2. CASE ~Pinning /\ UNCHANGED <<vars, walk>> /\ step' = "batch"
    <2>1. MoeTypeOK'
        BY <1>0, <1>2, WalkTyped DEF walk
    <2>2. Calls'
        BY <1>2 DEF Calls, RouteToken, Walking, walk, vars, locals
    <2>3. pins_on = layerpins \/ stage = "prefill"
        <3>1. CASE stage = "prefill"
            BY <3>1
        <3>2. CASE stage = "decode" /\ ~layerpins
            BY <3>2, Zenon DEF PinsFit, MoeTypeOK
        <3>3. CASE stage = "decode" /\ layerpins /\ layer > 1
            BY <3>3, Zenon DEF Detector
        <3>4. CASE stage = "decode" /\ layerpins /\ ~(layer > 1)
            <4>1. last_layer = LastSeen /\ layer = 1 /\ step = "route"
                BY <3>4 DEF Detector, MoeTypeOK, RouteToken
            <4>2. DecodeBegins
                BY <3>4, <4>1 DEF LastSeen, DecodeBegins
            <4> QED
                BY <1>2, <3>4, <4>2 DEF Pinning
        <3> QED
            BY <3>1, <3>2, <3>3, <3>4, Zenon DEF RouteToken, Walking
    <2>4. Detector'
        BY <1>2, <2>3 DEF Detector, LastSeen, MoeTypeOK, RouteToken, Walking, walk, vars, pins
    <2>5. PinsFit'
        BY <1>2, PinsStay DEF vars, walk, RouteToken, Walking
    <2> QED
        BY <2>1, <2>2, <2>4, <2>5
<1>3. CASE /\ Pinning /\ NSlots >= Needed /\ PinLayer(layer, PinSet(rt))
           /\ step' = "batch" /\ UNCHANGED walk
    <2>0. stage = "decode"
        BY <1>3 DEF Detector, LastSeen, MoeTypeOK, RouteToken, Walking, Pinning,
            DecodeBegins
    <2>1. MoeTypeOK'
        BY <1>0, <1>3, WalkTyped DEF walk
    <2>2. Calls'
        BY <1>3 DEF Calls, RouteToken, Walking, walk, PinLayer, Idle, locals
    <2>4. Detector'
        BY <1>1, <1>3, <2>0 DEF Detector, LastSeen, MoeTypeOK, RouteToken, walk, PinLayer
    <2>5. \A l \in Layers : PinsOf(l)' = IF l = layer THEN PinSet(rt) ELSE PinsOf(l)
        <3>1. PinSet(rt) \subseteq Experts
            BY PinSetBound
        <3> QED
            BY <1>1, <1>3, <3>1 DEF PinsOf, PinLayer
    <2>6. PinsFit'
        <3>1. \A l \in Layers : IsFiniteSet(PinsOf(l)') /\ Cardinality(PinsOf(l)') <= PinCount
            <4>1. IsFiniteSet(PinSet(rt)) /\ Cardinality(PinSet(rt)) <= PinCount
                BY PinSetBound
            <4>2. \A l \in Layers : IsFiniteSet(PinsOf(l)) /\ Cardinality(PinsOf(l)) <= PinCount
                BY Zenon DEF PinsFit
            <4> QED
                BY <2>5, <4>1, <4>2, Zenon
        <3>2. PinsOf(0)' = {}
            BY <1>1, <2>5 DEF PinsFit
        <3>3. pins_on' /\ layerpins' /\ NSlots >= Needed
            BY <1>1, <1>3 DEF PinLayer, walk
        <3> QED
            BY <3>1, <3>2, <3>3 DEF PinsFit, PinsOf, Needed
    <2> QED
        BY <2>1, <2>2, <2>4, <2>6
<1>4. CASE /\ Pinning /\ NSlots < Needed /\ PinLayer(0, {}) /\ stage' = "failed"
           /\ UNCHANGED <<step, layerpins, hysteresis, layer, tok, generated>>
    <2>1. MoeTypeOK'
        BY <1>0, <1>4, WalkTyped
    <2>2. Calls'
        BY <1>4 DEF Calls, RouteToken, PinLayer, Idle, locals
    <2>4. Detector'
        BY <1>4 DEF Detector
    <2>5. PinsFit'
        <3>1. \A l \in Layers : PinsOf(l)' \in SUBSET PinsOf(l)
            BY <1>4 DEF PinsOf, PinLayer
        <3>2. \A l \in Layers : IsFiniteSet(PinsOf(l)') /\ Cardinality(PinsOf(l)') <= PinCount
            <4> SUFFICES ASSUME NEW l \in Layers
                         PROVE  IsFiniteSet(PinsOf(l)') /\ Cardinality(PinsOf(l)') <= PinCount
                OBVIOUS
            <4>1. IsFiniteSet(PinsOf(l)) /\ Cardinality(PinsOf(l)) <= PinCount
                BY DEF PinsFit
            <4>2. /\ IsFiniteSet(PinsOf(l)') /\ Cardinality(PinsOf(l)') <= Cardinality(PinsOf(l))
                BY <3>1, <4>1, FS_Subset
            <4>3. Cardinality(PinsOf(l)') \in Nat /\ Cardinality(PinsOf(l)) \in Nat
                BY <4>1, <4>2, FS_CardinalityType
            <4> QED
                BY <4>1, <4>2, <4>3
        <3>3. PinsOf(0)' = {}
            BY <3>1 DEF PinsFit
        <3>4. pins_on' /\ layerpins' /\ stage' = "failed"
            BY <1>1, <1>4 DEF PinLayer
        <3> QED
            BY <3>2, <3>3, <3>4 DEF PinsFit, PinsOf
    <2> QED
        BY <2>1, <2>2, <2>4, <2>5
<1> QED
    BY <1>2, <1>3, <1>4 DEF RouteToken
\* The detector's view changes with the walk, the step and the pins only.
LEMMA DetectorStays ==
    ASSUME Detector, UNCHANGED <<walk, last_layer, pins>>,
           (step' = "route") <=> (step = "route")
    PROVE  Detector'
BY DEF Detector, LastSeen, walk, pins

LEMMA FetchBatchInv ==
    ASSUME MoeInv, FetchBatch
    PROVE  MoeInv'
<1> USE MoeAssumption DEF MoeInv
<1>1. UNCHANGED <<pins, walk, last_layer, route, next, short>> /\ stage # "failed"
    BY DEF FetchBatch, GetMany, Walking
<1>2. route \in Routes /\ step = "batch" /\ step' = "gets" /\ pc' = "reserve"
    BY DEF FetchBatch, GetMany, Calls
<1>3. MoeTypeOK'
    BY <1>1, <1>2, WalkTyped DEF walk, MoeTypeOK
<1>4. Calls'
    BY <1>1, <1>2 DEF Calls, FetchBatch, Walking, walk
<1>5. Detector'
    BY <1>1, <1>2, DetectorStays
<1>6. PinsFit'
    BY <1>1, PinsStay DEF walk
<1> QED
    BY <1>3, <1>4, <1>5, <1>6

LEMMA CacheRunsInv ==
    ASSUME MoeInv, CacheRuns
    PROVE  MoeInv'
<1> USE MoeAssumption DEF MoeInv
<1>1. UNCHANGED <<pins, walk, last_layer, step, route, next>>
    BY DEF CacheRuns, SkipMember, ReserveMember, AbandonRest, EndReserve, JoinWorkers,
        ReturnMany, Worker, ReadBegin, ReadEnd, Publish
<1>2. pc \notin {"idle", "closed"} /\ pc' # "closed" /\ (pc' = "load" => pc = "load")
    BY DEF CacheRuns, SkipMember, ReserveMember, AbandonRest, EndReserve, JoinWorkers,
        ReturnMany, Worker, ReadBegin, ReadEnd, Publish
<1>3. Walking /\ step = "gets" /\ route \in Routes
    BY <1>2 DEF Calls
<1>4. short' \in BOOLEAN
    BY DEF CacheRuns, MoeTypeOK
<1>5. MoeTypeOK'
    BY <1>1, <1>3, <1>4, WalkTyped DEF walk, MoeTypeOK
<1>6. Calls'
    BY <1>1, <1>2, <1>3 DEF Calls, Walking, walk
<1>7. Detector'
    BY <1>1, DetectorStays
<1>8. PinsFit'
    BY <1>1, <1>3, PinsStay DEF walk, Walking
<1> QED
    BY <1>5, <1>6, <1>7, <1>8

\* A get, however it goes, leaves the thread between calls or in a read; and
\* the walk goes on unless the get came back empty-handed.
LEMMA GetInv ==
    ASSUME MoeInv, Walking, step = "gets",
           UNCHANGED <<pins, layerpins, hysteresis, layer, tok, generated,
                       last_layer, step, route>>,
           stage' \in {stage, "failed"}, next' \in 1 .. TopK + 1, short' \in BOOLEAN,
           \/ pc' = "idle"
           \/ pc' = "load" /\ stage' = stage /\ next' \in Positions
    PROVE  MoeInv'
<1> USE MoeAssumption DEF MoeInv
<1>1. MoeTypeOK'
    BY WalkTyped DEF MoeTypeOK
<1>2. Calls'
    BY DEF Calls, Walking
<1>3. Detector'
    <2>1. CASE stage' = stage
        BY <2>1, DetectorStays DEF walk
    <2>2. CASE stage' = "failed"
        BY <2>2 DEF Detector
    <2> QED
        BY <2>1, <2>2
<1>4. PinsFit'
    BY PinsStay DEF Walking
<1> QED
    BY <1>1, <1>2, <1>3, <1>4

LEMMA TakeInv ==
    ASSUME MoeInv, TakeHit \/ TakeMiss \/ TakeRefused \/ \E w \in work : TakeRead(w)
    PROVE  MoeInv'
<1> USE MoeAssumption
<1>1. /\ Walking /\ step = "gets"
      /\ UNCHANGED <<pins, layerpins, hysteresis, layer, tok, generated,
                     last_layer, step, route>>
    BY DEF TakeHit, TakeMiss, TakeRefused, TakeRead, GetHit, GetMiss, GetRefused, GetFinish,
        walk, moe, Abort
<1>2. next \in 1 .. TopK + 1 /\ short \in BOOLEAN
    BY DEF MoeInv, MoeTypeOK
<1>3. CASE TakeHit
    <2>1. /\ next \in Positions /\ next' = next + 1 /\ UNCHANGED <<stage, short>>
          /\ pc' = "idle"
        BY <1>3 DEF TakeHit, GetHit, Idle, locals, walk
    <2>2. next' \in 1 .. TopK + 1 /\ short' \in BOOLEAN
        BY <1>2, <2>1 DEF Positions
    <2> QED
        BY <1>1, <2>1, <2>2, GetInv
<1>4. CASE TakeMiss
    <2>1. next \in Positions /\ UNCHANGED <<stage, next, short>> /\ pc' = "load"
        BY <1>4 DEF TakeMiss, GetMiss, walk, moe
    <2>2. next' \in 1 .. TopK + 1 /\ next' \in Positions /\ short' \in BOOLEAN
        BY <1>2, <2>1
    <2> QED
        BY <1>1, <2>1, <2>2, GetInv
<1>5. CASE TakeRefused
    <2>1. UNCHANGED <<next, short>> /\ pc' = "idle" /\ stage' = "failed"
        BY <1>5 DEF TakeRefused, GetRefused, Idle, locals, moe, Abort
    <2>2. next' \in 1 .. TopK + 1 /\ short' \in BOOLEAN
        BY <1>2, <2>1
    <2> QED
        BY <1>1, <2>1, <2>2, GetInv
<1>6. ASSUME NEW w \in work, TakeRead(w)
      PROVE  MoeInv'
    <2>1. pc = "load" /\ pc' = "idle"
        BY <1>6 DEF TakeRead, GetFinish
    <2>2. next \in Positions
        BY <2>1 DEF MoeInv, Calls
    <2>3. /\ stage' \in {stage, "failed"}
          /\ next' \in {next, next + 1} /\ short' \in {short, TRUE}
        BY <1>6 DEF TakeRead, walk, Abort
    <2>4. next' \in 1 .. TopK + 1
        BY <2>2, <2>3 DEF Positions
    <2>5. short' \in BOOLEAN
        BY <1>2, <2>3
    <2> QED
        BY <1>1, <2>1, <2>3, <2>4, <2>5, GetInv
<1> QED
    BY <1>3, <1>4, <1>5, <1>6

LEMMA EndTokenInv ==
    ASSUME MoeInv, EndToken
    PROVE  MoeInv'
<1> USE MoeAssumption DEF MoeInv
<1>1. /\ Walking /\ step = "gets" /\ step' = "route" /\ pc' = pc /\ pc = "idle"
      /\ UNCHANGED <<pins, layerpins, hysteresis, generated, last_layer, route, next, short>>
    BY DEF EndToken, vars, locals
<1>2. /\ layer \in 1 .. LastLayer /\ tok \in 1 .. PromptLen /\ generated \in 0 .. MaxNew
      /\ 1 \in 1 .. PromptLen /\ 1 \in 1 .. LastLayer
    BY DEF MoeTypeOK
<1>3. \/ /\ stage = "prefill" /\ stage' = stage /\ layer' = layer
         /\ tok' \in 1 .. PromptLen /\ tok' > 1
      \/ /\ stage' = stage /\ layer' \in 1 .. LastLayer
         /\ layer' = layer + 1 /\ layer' > 1 /\ tok' = 1
      \/ /\ stage' = "sample" /\ layer' = 1 /\ tok' = 1 /\ layer = LastLayer
    BY <1>2 DEF EndToken, MoreLayers
<1>4. MoeTypeOK'
    <2>1. layerpins' \in BOOLEAN /\ hysteresis' \in BOOLEAN /\ short' \in BOOLEAN
        BY <1>1, Zenon DEF MoeTypeOK
    <2>2. stage' \in {"prefill", "sample", "decode", "done", "failed"}
        BY <1>1, <1>3 DEF Walking
    <2>3. layer' \in 1 .. LastLayer /\ tok' \in 1 .. PromptLen
        BY <1>2, <1>3
    <2>4. /\ generated' \in 0 .. MaxNew /\ last_layer' \in -1 .. LastLayer
          /\ route' \in Routes \cup {NoRoute} /\ next' \in 1 .. TopK + 1
        BY <1>1, Zenon DEF MoeTypeOK, NoRoute
    <2> QED
        BY <1>1, <2>1, <2>2, <2>3, <2>4 DEF MoeTypeOK
<1>5. Calls'
    BY <1>1, <1>3 DEF Calls, Walking
<1>6. Detector'
    <2>1. layerpins /\ stage \notin {"done", "failed"} => last_layer = layer
        BY <1>1 DEF Detector, LastSeen
    <2>2. layerpins' => last_layer' = layer
        BY <1>1, <2>1 DEF Walking
    <2>3. /\ stage = "prefill" => ~pins_on' /\ generated' = 0
          /\ stage = "decode" => generated' > 0 /\ pins_on' = layerpins'
        BY <1>1, Zenon DEF Detector, pins
    <2>4. CASE /\ stage' = stage /\ layer' = layer
               /\ stage = "prefill" /\ tok' > 1
        BY <1>1, <2>2, <2>3, <2>4 DEF Detector, LastSeen
    <2>5. CASE stage' = stage /\ layer' = layer + 1 /\ layer' > 1 /\ tok' = 1
        BY <1>1, <1>2, <2>2, <2>3, <2>5 DEF Detector, LastSeen, Walking
    <2>6. CASE stage' = "sample" /\ layer' = 1 /\ tok' = 1 /\ layer = LastLayer
        BY <1>1, <2>2, <2>3, <2>6 DEF Detector, LastSeen, Walking
    <2> QED
        BY <1>3, <2>4, <2>5, <2>6
<1>7. PinsFit'
    BY <1>1, PinsStay DEF Walking
<1> QED
    BY <1>4, <1>5, <1>6, <1>7

LEMMA SampleInv ==
    ASSUME MoeInv, Sample
    PROVE  MoeInv'
<1> USE MoeAssumption DEF MoeInv
<1>1. /\ stage = "sample" /\ generated' = generated + 1
      /\ UNCHANGED <<vars, layerpins, hysteresis, layer, tok,
                     last_layer, step, route, next, short>>
      /\ stage' = "done" \/ (generated + 1 < MaxNew /\ stage' = "decode")
    BY DEF Sample, moe
<1>2. UNCHANGED <<pins, pc>> /\ step = "route" /\ layer = 1 /\ pc \in {"idle", "closed"}
    BY <1>1 DEF Calls, Detector, vars, locals, Walking
<1>3. generated \in 0 .. MaxNew /\ generated < MaxNew
    BY <1>1 DEF Calls, MoeTypeOK
<1>4. MoeTypeOK'
    <2>1. generated' \in 0 .. MaxNew
        BY <1>1, <1>3
    <2>2. layerpins' \in BOOLEAN /\ hysteresis' \in BOOLEAN /\ short' \in BOOLEAN
        BY <1>1, Zenon DEF MoeTypeOK
    <2>3. stage' \in {"prefill", "sample", "decode", "done", "failed"}
        BY <1>1
    <2>4. /\ layer' \in 1 .. LastLayer /\ tok' \in 1 .. PromptLen
          /\ last_layer' \in -1 .. LastLayer /\ step' \in {"route", "batch", "gets"}
          /\ route' \in Routes \cup {NoRoute} /\ next' \in 1 .. TopK + 1
        BY <1>1, Zenon DEF MoeTypeOK, NoRoute
    <2> QED
        BY <2>1, <2>2, <2>3, <2>4 DEF MoeTypeOK
<1>5. Calls'
    BY <1>1, <1>2, <1>3 DEF Calls, Walking
<1>6. Detector'
    <2>1. layerpins => last_layer = LastLayer
        BY <1>1, <1>2 DEF Detector, LastSeen
    <2> QED
        BY <1>1, <1>2, <1>3, <2>1 DEF Detector, LastSeen
<1>7. PinsFit'
    BY <1>1, <1>2, PinsStay
<1> QED
    BY <1>4, <1>5, <1>6, <1>7

LEMMA StepFailsInv ==
    ASSUME MoeInv, StepFails
    PROVE  MoeInv'
<1> USE MoeAssumption DEF MoeInv
<1>1. /\ stage' = "failed" /\ pc' = "idle"
      /\ UNCHANGED <<pins, layerpins, hysteresis, layer, tok, generated,
                     last_layer, step, route, next, short>>
    BY DEF StepFails, Abort, vars, locals, moe
<1>2. MoeTypeOK'
    BY <1>1, Zenon DEF MoeTypeOK, NoRoute
<1>3. Calls' /\ Detector'
    BY <1>1 DEF Calls, Detector, Walking
<1>4. PinsFit'
    BY <1>1, PinsStay
<1> QED
    BY <1>2, <1>3, <1>4

LEMMA LeaveInv ==
    ASSUME MoeInv, Leave
    PROVE  MoeInv'
<1> USE MoeAssumption DEF MoeInv
<1>1. /\ stage = "done" /\ pc' = "closed" /\ pins_on' = FALSE /\ pinned_of' = {}
      /\ UNCHANGED <<walk, moe>>
    BY DEF Leave, Close
<1>2. MoeTypeOK'
    BY <1>1, Zenon DEF MoeTypeOK, NoRoute, walk, moe
<1>3. Calls' /\ Detector'
    BY <1>1 DEF Calls, Detector, Walking, walk, moe
<1>4. PinsFit'
    <2>1. \A l : PinsOf(l)' = {}
        BY <1>1 DEF PinsOf
    <2>2. \A l : IsFiniteSet(PinsOf(l)') /\ Cardinality(PinsOf(l)') = 0
        BY <2>1, FS_EmptySet
    <2>3. \A l : IsFiniteSet(PinsOf(l)') /\ Cardinality(PinsOf(l)') <= PinCount
        BY <2>2
    <2> QED
        BY <1>1, <2>1, <2>3, Zenon DEF PinsFit
<1> QED
    BY <1>2, <1>3, <1>4

LEMMA MoeStutterInv ==
    ASSUME MoeInv, UNCHANGED moevars
    PROVE  MoeInv'
BY DEF MoeInv, MoeTypeOK, Calls, Detector, LastSeen, PinsFit, PinsOf, Walking,
    moevars, vars, pins, locals, walk, moe

LEMMA StepMoeInv ==
    ASSUME MoeInv, pins_on \in BOOLEAN, [MoeNext]_moevars
    PROVE  MoeInv'
BY RouteTokenInv, FetchBatchInv, CacheRunsInv, TakeInv, EndTokenInv, SampleInv,
    StepFailsInv, LeaveInv, MoeStutterInv
    DEF MoeNext, Proceed, Ended

(***************************************************************************)
(* The walk as a client of the cache.                                      *)
(***************************************************************************)

LEMMA MemberType ==
    ASSUME MoeInv, route \in Routes
    PROVE  /\ layer \in Layers
           /\ \A i \in Positions : Member(i) \in Keys /\ Member(i) \in Members
           /\ Batch \in Batches /\ OneLayer(Batch)
<1> USE MoeAssumption, RoutesAssumption, CacheAssumption
<1>1. layer \in Layers
    BY DEF MoeInv, MoeTypeOK
<1>2. \A i \in Positions : route.id[i] \in Experts
    OBVIOUS
<1>3. \A i \in Positions : Member(i) \in Keys /\ Member(i) \in Members
    BY <1>1, <1>2 DEF Member, Keys, Members
<1>4. Batch \in [1 .. TopK -> Members]
    BY <1>3 DEF Batch, Positions
<1>5. TopK \in 1 .. MaxBatch
    OBVIOUS
<1>6. Batch \in Batches
    BY <1>4, <1>5, Zenon DEF Batches
<1>7. OneLayer(Batch)
    BY DEF OneLayer, Batch, Member
<1> QED
    BY <1>1, <1>3, <1>6, <1>7

LEMMA ClientStep ==
    ASSUME MoeInv, [MoeNext]_moevars
    PROVE  [Next]_vars
<1> USE MoeAssumption
<1>1. ASSUME NEW rt \in Routes, RouteToken(rt)
      PROVE  Call \/ UNCHANGED vars
    <2>1. PinSet(rt) \in SUBSET Experts /\ {} \in SUBSET Experts
        BY PinSetBound
    <2>2. layer \in Layers /\ 0 \in Layers
        BY DEF MoeInv, MoeTypeOK
    <2> QED
        BY <1>1, <2>1, <2>2, Zenon DEF RouteToken, Call
<1>2. CASE FetchBatch
    <2>1. route \in Routes
        BY <1>2 DEF FetchBatch, MoeInv, Calls
    <2> QED
        BY <1>2, <2>1, MemberType, Zenon DEF FetchBatch, Next, Call
<1>3. CASE CacheRuns
    BY <1>3, Zenon DEF CacheRuns, Next, Main, Worker
<1>4. CASE TakeHit \/ TakeMiss \/ TakeRefused
    <2>1. next \in Positions /\ step = "gets"
        BY <1>4 DEF TakeHit, TakeMiss, TakeRefused
    <2>2. Member(next) \in Members
        BY <2>1, MemberType DEF MoeInv, Calls
    <2>3. \/ GetHit(Member(next)) \/ GetMiss(Member(next)) \/ GetRefused(Member(next))
        BY <1>4 DEF TakeHit, TakeMiss, TakeRefused
    <2> QED
        BY <2>2, <2>3, Zenon DEF Next, Call
<1>5. ASSUME NEW w \in work, TakeRead(w)
      PROVE  Main
    BY <1>5, Zenon DEF TakeRead, Main
<1>6. CASE EndToken \/ Sample \/ StepFails \/ Ended
    BY <1>6 DEF EndToken, Sample, StepFails, Ended, moevars
<1>7. CASE Leave
    BY <1>7, Zenon DEF Leave, Next, Call
<1>8. CASE UNCHANGED moevars
    BY <1>8 DEF moevars
<1> QED
    BY <1>1, <1>2, <1>3, <1>4, <1>5, <1>6, <1>7, <1>8, Zenon DEF MoeNext, Proceed, Next

LEMMA StepBothInv ==
    ASSUME MoeInv, CacheInv, [MoeNext]_moevars
    PROVE  MoeInv' /\ CacheInv' /\ [Next]_vars
<1>1. pins_on \in BOOLEAN
    BY DEF CacheInv, TypeOK
<1>2. [Next]_vars
    BY ClientStep
<1> QED
    BY <1>1, <1>2, StepMoeInv, StepCacheInv

\* The walk keeps its invariant, and that of the cache it calls.
THEOREM MoeInvariant == MoeSpec => [](MoeInv /\ CacheInv)
<1>1. MoeInit => MoeInv /\ CacheInv
    BY MoeInitInv, InitCacheInv DEF MoeInit
<1>2. MoeInv /\ CacheInv /\ [MoeNext]_moevars => (MoeInv /\ CacheInv)'
    BY StepBothInv
<1> QED
    BY <1>1, <1>2, PTL DEF MoeSpec

\* Every generation is a behaviour of the cache's specification: the walk of
\* generate.c and the MoE step call the cache only as it may be called, so
\* what is proved of the cache under any caller holds in it.
THEOREM ClientOfCache == MoeSpec => Spec
<1>1. MoeInit => Init
    BY DEF MoeInit
<1>2. MoeInv /\ CacheInv /\ [MoeNext]_moevars => [Next]_vars
    BY StepBothInv
<1> QED
    BY <1>1, <1>2, MoeInvariant, PTL DEF MoeSpec, Spec

\* Pins are off during the whole prefill and on from the first batch of
\* decoding, for every number of layers and tokens (the detector's comment).
THEOREM PinsAwaitDecode == MoeSpec => []PinsFollowPhase
<1>1. MoeInv => PinsFollowPhase
    BY DEF MoeInv, Detector, PinsFollowPhase
<1> QED
    BY <1>1, MoeInvariant, PTL

(***************************************************************************)
(* A get is never refused.                                                 *)
(***************************************************************************)

LEMMA SlotsCounted == IsFiniteSet(Slots) /\ Cardinality(Slots) = NSlots
<1> USE CacheAssumption
<1>1. Cardinality(0 .. NSlots - 1) = IF 0 > NSlots - 1 THEN 0 ELSE NSlots - 1 - 0 + 1
    BY FS_Interval
<1> QED
    BY <1>1, FS_Interval DEF Slots

\* pick_victim finds a slot as soon as there is a candidate at all.
LEMMA VictimExists ==
    ASSUME CacheInv, NEW spared,
           NEW s \in Slots, key_of[s] = EMPTY \/ Evictable(s, spared)
    PROVE  Victims(spared) # {}
<1> USE CacheAssumption
<1> DEFINE free == {t \in Slots : key_of[t] = EMPTY}
           used == {t \in Slots : Evictable(t, spared)}
<1>1. Slots \subseteq Nat /\ used_at \in [Slots -> Nat]
    BY DEF Slots, CacheInv, TypeOK
<1>2. IsFiniteSet(free) /\ IsFiniteSet(used)
    <2>1. free \in SUBSET Slots /\ used \in SUBSET Slots
        OBVIOUS
    <2> QED
        BY <2>1, SlotsCounted, FS_Subset
<1>3. CASE free # {}
    <2> DEFINE rank == [t \in free |-> t]
    <2>1. rank \in [free -> Nat]
        BY <1>1
    <2>2. PICK m \in free : \A t \in free : rank[m] <= rank[t]
        <3> HIDE DEF rank, free
        <3> QED
            BY <1>2, <1>3, <2>1, LeastRank
    <2>3. m \in {t \in free : \A u \in free : t <= u}
        BY <2>2
    <2> QED
        BY <1>3, <2>3 DEF Victims
<1>4. CASE free = {}
    <2> DEFINE rank == [t \in used |-> used_at[t]]
    <2>0. used # {}
        BY <1>4
    <2>1. rank \in [used -> Nat]
        <3>1. \A t \in used : used_at[t] \in Nat
            BY <1>1
        <3> HIDE DEF used
        <3> QED
            BY <3>1
    <2>2. PICK m \in used : \A t \in used : rank[m] <= rank[t]
        <3> HIDE DEF rank, used
        <3> QED
            BY <1>2, <2>0, <2>1, LeastRank
    <2>3. \A t \in used : Older(m, t)
        <3> SUFFICES ASSUME NEW t \in used
                     PROVE  Older(m, t)
            OBVIOUS
        <3>1. m \in Slots /\ t \in Slots /\ used_at[m] <= used_at[t]
            BY <2>2
        <3>2. used_at[m] = used_at[t] => m = t
            BY DEF CacheInv, Stamps, Evictable
        <3> QED
            BY <1>1, <3>1, <3>2 DEF Older
    <2>4. m \in {t \in used : \A u \in used : Older(t, u)}
        BY <2>3
    <2> QED
        BY <1>4, <2>4 DEF Victims
<1> QED
    BY <1>3, <1>4

\* Between calls of a walk some slot is empty or holds no pin: pins that fill
\* every slot would be more than pin_routes admits.
LEMMA RoomForOne ==
    ASSUME MoeInv, CacheInv, pc = "idle", Walking
    PROVE  Victims({}) # {}
<1> USE MoeAssumption, CacheAssumption
<1>1. \A s \in Slots : key_of[s] \in Keys \cup {EMPTY}
    BY DEF CacheInv, TypeOK, Reserved, Phases
<1>2. \E s \in Slots : key_of[s] = EMPTY \/ Evictable(s, {})
    <2> SUFFICES ASSUME \A s \in Slots : key_of[s] # EMPTY /\ ~Evictable(s, {})
                 PROVE  FALSE
        OBVIOUS
    <2>1. \A s \in Slots : key_of[s] \in pinned_of
        BY <1>1 DEF Evictable
    <2>2. key_of \in Injection(Slots, pinned_of)
        <3>1. key_of \in [Slots -> pinned_of]
            BY <2>1 DEF CacheInv, TypeOK
        <3>2. \A s, t \in Slots : key_of[s] = key_of[t] => s = t
            BY <1>1, <2>1 DEF CacheInv, TypeOK, MapsInverse
        <3> QED
            BY <3>1, <3>2 DEF Injection, IsInjective
    <2>3. IsFiniteSet(pinned_of) /\ Cardinality(pinned_of) <= LastLayer * PinCount
        <3>1. pinned_of \subseteq Keys
            BY DEF CacheInv, TypeOK
        <3>2. /\ PinsOf(0) = {}
              /\ \A l \in Layers : IsFiniteSet(PinsOf(l)) /\ Cardinality(PinsOf(l)) <= PinCount
            BY DEF MoeInv, PinsFit
        <3> QED
            BY <3>1, <3>2, PinsCounted
    <2>4. NSlots <= Cardinality(pinned_of)
        BY <2>2, <2>3, SlotsCounted, FS_Injection
    <2>5. pins_on
        <3>1. 0 \in Slots
            BY DEF Slots
        <3> QED
            BY <2>1, <3>1 DEF MoeInv, PinsFit
    <2>6. NSlots >= LastLayer * PinCount + TopK
        BY <2>5 DEF MoeInv, PinsFit, Needed, Walking
    <2>7. Cardinality(pinned_of) \in Nat /\ LastLayer * PinCount \in Nat
        BY <2>3, FS_CardinalityType
    <2> HIDE DEF Needed
    <2> QED
        BY <2>3, <2>4, <2>6, <2>7
<1> QED
    BY <1>2, VictimExists

\* No get of a walk is refused for want of a slot, whatever the cache holds,
\* and however small the cache is: pin_routes aborts before it pins too much.
THEOREM NoGetRefused == MoeSpec => []GetServed
<1>1. MoeInv /\ CacheInv => GetServed
    BY RoomForOne DEF GetServed
<1> QED
    BY <1>1, MoeInvariant, PTL

(***************************************************************************)
(* A batch serves its members.                                             *)
(***************************************************************************)

Mates == {Member(i) : i \in Positions}

\* A key is resident or will be when the reads under way are complete.
Coming(k) == slot_of[k] # NoSlot \/ \E w \in work : w.key = k /\ ~Settled(w)

\* What getmany has done for the step's members, and what of it lasts.
BatchKept ==
    pins_on /\ Walking /\ step = "gets" =>
        /\ pc \in {"reserve", "read", "publish"} =>
               avoid = Mates /\ \A w \in work : w.key \in Mates
        /\ pc = "reserve" =>
               /\ \A i \in DOMAIN todo : todo[i] \in Mates
               /\ \A k \in Mates \cap Records :
                      Coming(k) \/ \E i \in DOMAIN todo : todo[i] = k
        /\ pc \in {"read", "publish"} /\ ~short => \A k \in Mates \cap Records : Coming(k)
        /\ pc = "idle" /\ ~short => \A k \in Mates \cap Records : slot_of[k] # NoSlot
        /\ pc = "load" => short

\* The members of a step are keys, no more than a token is routed to.
LEMMA MatesCounted ==
    ASSUME MoeInv, route \in Routes
    PROVE  Mates \subseteq Keys /\ IsFiniteSet(Mates) /\ Cardinality(Mates) <= TopK
<1> USE MoeAssumption
<1> DEFINE f == [i \in Positions |-> Member(i)]
<1>1. Mates \subseteq Keys
    BY MemberType DEF Mates
<1>2. IsFiniteSet(Positions) /\ Cardinality(Positions) = TopK
    <2>1. Cardinality(1 .. TopK) = IF 1 > TopK THEN 0 ELSE TopK - 1 + 1
        BY FS_Interval
    <2> QED
        BY <2>1, FS_Interval DEF Positions
<1>3. f \in Surjection(Positions, Mates)
    BY DEF Surjection, Mates
<1> HIDE DEF f
<1>4. IsFiniteSet(Mates) /\ Cardinality(Mates) <= Cardinality(Positions)
    BY <1>2, <1>3, FS_Surjection
<1> QED
    BY <1>1, <1>2, <1>4

\* While a member is still to be reserved there is a slot to reserve: slots
\* that cannot go hold pins or other members.
LEMMA RoomForMember ==
    ASSUME MoeInv, CacheInv, BatchKept, pins_on, Walking, step = "gets", pc = "reserve",
           NEW m \in Mates, NeedsRead(m)
    PROVE  Victims(avoid) # {}
<1> USE MoeAssumption, CacheAssumption
<1> DEFINE others == Mates \ {m}
           holds == [s \in Slots |-> IF key_of[s] = INFLIGHT
                                     THEN (CHOOSE w \in work : w.slot = s).key ELSE key_of[s]]
<1>1. route \in Routes /\ avoid = Mates /\ \A w \in work : w.key \in Mates /\ ~Settled(w)
    BY DEF MoeInv, Calls, BatchKept, CacheInv, Phases
<1>2. m \in Keys /\ slot_of[m] = NoSlot /\ \A w \in work : w.key # m
    BY DEF NeedsRead
<1>3. \A s \in Slots : key_of[s] = INFLIGHT => \E w \in work : w.slot = s
    BY DEF CacheInv, Reserved
<1>4. \A s \in Slots : key_of[s] = INFLIGHT =>
          \E w \in work : w.slot = s /\ holds[s] = w.key
    <2> SUFFICES ASSUME NEW s \in Slots, key_of[s] = INFLIGHT
                 PROVE  \E w \in work : w.slot = s /\ holds[s] = w.key
        OBVIOUS
    <2> DEFINE w == CHOOSE v \in work : v.slot = s
    <2>1. w \in work /\ w.slot = s
        BY <1>3
    <2>2. holds[s] = w.key
        OBVIOUS
    <2> QED
        BY <2>1, <2>2
<1>5. \A s \in Slots : key_of[s] # INFLIGHT => holds[s] = key_of[s]
    OBVIOUS
<1>6. DOMAIN holds = Slots /\ holds = [s \in Slots |-> holds[s]]
    OBVIOUS
<1> HIDE DEF holds
<1>7. \E s \in Slots : key_of[s] = EMPTY \/ Evictable(s, avoid)
    <2> SUFFICES ASSUME \A s \in Slots : key_of[s] # EMPTY /\ ~Evictable(s, avoid)
                 PROVE  FALSE
        OBVIOUS
    <2>1. \A s \in Slots : key_of[s] # INFLIGHT =>
              key_of[s] \in Keys /\ key_of[s] \in pinned_of \cup Mates
        BY <1>1 DEF Evictable, CacheInv, TypeOK
    <2>2. \A s \in Slots : key_of[s] \in Keys => slot_of[key_of[s]] = s /\ s # NoSlot
        BY DEF CacheInv, MapsInverse, Slots, NoSlot
    <2>3. \A s \in Slots : holds[s] \in pinned_of \cup others
        <3> SUFFICES ASSUME NEW s \in Slots  PROVE holds[s] \in pinned_of \cup others
            OBVIOUS
        <3>1. CASE key_of[s] = INFLIGHT
            BY <1>1, <1>2, <1>4, <3>1
        <3>2. CASE key_of[s] # INFLIGHT
            BY <1>2, <1>5, <2>1, <2>2, <3>2
        <3> QED
            BY <3>1, <3>2
    <2>4. \A s, t \in Slots : holds[s] = holds[t] => s = t
        <3> SUFFICES ASSUME NEW s \in Slots, NEW t \in Slots, holds[s] = holds[t]
                     PROVE  s = t
            OBVIOUS
        <3>1. \A w \in work : slot_of[w.key] = NoSlot
            BY <1>1 DEF CacheInv, WorkAbsent
        <3>2. CASE key_of[s] = INFLIGHT /\ key_of[t] = INFLIGHT
            BY <1>4, <3>2 DEF CacheInv, WorkDistinct
        <3>3. CASE key_of[s] = INFLIGHT /\ key_of[t] # INFLIGHT
            BY <1>4, <1>5, <2>1, <2>2, <3>1, <3>3
        <3>4. CASE key_of[s] # INFLIGHT /\ key_of[t] = INFLIGHT
            BY <1>4, <1>5, <2>1, <2>2, <3>1, <3>4
        <3>5. CASE key_of[s] # INFLIGHT /\ key_of[t] # INFLIGHT
            BY <1>5, <2>1, <2>2, <3>5
        <3> QED
            BY <3>2, <3>3, <3>4, <3>5
    <2>5. holds \in Injection(Slots, pinned_of \cup others)
        <3>1. holds \in [Slots -> pinned_of \cup others]
            BY <1>6, <2>3
        <3> QED
            BY <2>4, <3>1 DEF Injection, IsInjective
    <2>6. IsFiniteSet(pinned_of) /\ Cardinality(pinned_of) <= LastLayer * PinCount
        <3>1. pinned_of \subseteq Keys
            BY DEF CacheInv, TypeOK
        <3>2. /\ PinsOf(0) = {}
              /\ \A l \in Layers : IsFiniteSet(PinsOf(l)) /\ Cardinality(PinsOf(l)) <= PinCount
            BY DEF MoeInv, PinsFit
        <3> QED
            BY <3>1, <3>2, PinsCounted
    <2>7. IsFiniteSet(others) /\ Cardinality(others) = Cardinality(Mates) - 1
          /\ Cardinality(Mates) <= TopK /\ Cardinality(Mates) \in Nat
        BY <1>1, MatesCounted, FS_RemoveElement, FS_CardinalityType
    <2> HIDE DEF others
    <2>8. /\ IsFiniteSet(pinned_of \cup others)
          /\ Cardinality(pinned_of \cup others)
             = Cardinality(pinned_of) + Cardinality(others) - Cardinality(pinned_of \cap others)
        BY <2>6, <2>7, FS_Union
    <2>9. Cardinality(pinned_of \cap others) \in Nat /\ Cardinality(pinned_of) \in Nat
        <3>1. IsFiniteSet(pinned_of \cap others)
            BY <2>6, FS_Subset
        <3> QED
            BY <2>6, <3>1, FS_CardinalityType
    <2>10. NSlots <= Cardinality(pinned_of \cup others)
        BY <2>5, <2>8, SlotsCounted, FS_Injection
    <2>11. NSlots >= LastLayer * PinCount + TopK
        BY DEF MoeInv, PinsFit, Needed, Walking
    <2>12. LastLayer * PinCount \in Nat
        OBVIOUS
    <2> QED
        BY <2>6, <2>7, <2>8, <2>9, <2>10, <2>11, <2>12
<1> QED
    BY <1>7, VictimExists

\* What is taken from the front of a sequence, or left in it.
LEMMA HeadOrTail ==
    ASSUME NEW S, NEW t \in Seq(S), t # <<>>
    PROVE  /\ Head(t) = t[1] /\ 1 \in DOMAIN t
           /\ \A i \in DOMAIN Tail(t) : i + 1 \in DOMAIN t /\ Tail(t)[i] = t[i + 1]
           /\ \A k : (\E i \in DOMAIN t : t[i] = k) =>
                  k = Head(t) \/ \E i \in DOMAIN Tail(t) : Tail(t)[i] = k
<1>1. /\ Len(t) \in Nat /\ Len(t) > 0 /\ Head(t) = t[1] /\ Len(Tail(t)) = Len(t) - 1
      /\ DOMAIN t = 1 .. Len(t) /\ DOMAIN Tail(t) = 1 .. Len(t) - 1
      /\ \A i \in 1 .. Len(t) - 1 : Tail(t)[i] = t[i + 1]
    OBVIOUS
<1>2. ASSUME NEW i \in DOMAIN t, i # 1
      PROVE  i - 1 \in DOMAIN Tail(t) /\ Tail(t)[i - 1] = t[i]
    <2>1. i - 1 \in 1 .. Len(t) - 1 /\ (i - 1) + 1 = i
        BY <1>1, <1>2
    <2> QED
        BY <1>1, <2>1
<1>3. \A i \in DOMAIN Tail(t) : i + 1 \in DOMAIN t /\ Tail(t)[i] = t[i + 1]
    BY <1>1
<1>4. 1 \in DOMAIN t
    BY <1>1
<1> QED
    BY <1>1, <1>2, <1>3, <1>4

\* Reserving spares the members.
LEMMA ReserveKeeps ==
    ASSUME CacheInv, NEW s \in Victims(avoid), NEW r, Reserve(s, r), NEW k \in avoid, Coming(k)
    PROVE  Coming(k)'
<1>1. CASE slot_of[k] # NoSlot
    <2>1. k \in Held
        BY <1>1 DEF Held, CacheInv, TypeOK
    <2>2. slot_of'[k] # NoSlot
        BY <2>1, ReserveEvicts
    <2> QED
        BY <2>2 DEF Coming
<1>2. CASE \E w \in work : w.key = k /\ ~Settled(w)
    <2>1. work \subseteq work'
        BY DEF Reserve
    <2> QED
        BY <1>2, <2>1 DEF Coming, Settled
<1> QED
    BY <1>1, <1>2 DEF Coming

LEMMA FetchBatchKept ==
    ASSUME MoeInv, CacheInv, FetchBatch
    PROVE  BatchKept'
<1>1. /\ route \in Routes /\ UNCHANGED <<route, layer, pins_on, work>>
      /\ pc = "idle" /\ pc' = "reserve" /\ todo' = Batch /\ avoid' = AvoidList(Batch)
    BY DEF FetchBatch, GetMany, Idle, MoeInv, Calls, walk, pins
<1>2. work' = {}
    BY <1>1 DEF CacheInv, Phases
<1>3. Mates' = Mates /\ Mates \subseteq Keys
    BY <1>1, MatesCounted DEF Mates, Member
<1>4. DOMAIN Batch = Positions /\ \A i \in Positions : Batch[i] = Member(i)
    BY DEF Batch
<1>5. ASSUME pins_on  PROVE avoid' = Mates
    <2>1. 1 .. Len(Batch) = Positions
        BY <1>4, MoeAssumption DEF Batch, Positions
    <2>2. avoid' = {Batch[i] : i \in Positions} \cap Keys
        BY <1>1, <1>5, <2>1 DEF AvoidList
    <2> QED
        BY <1>3, <1>4, <2>2 DEF Mates
<1>6. \A i \in DOMAIN todo' : todo'[i] \in Mates
    BY <1>1, <1>4 DEF Mates
<1>7. \A k \in Mates : \E i \in DOMAIN todo' : todo'[i] = k
    BY <1>1, <1>4 DEF Mates
<1> QED
    BY <1>1, <1>2, <1>3, <1>5, <1>6, <1>7 DEF BatchKept

\* Phase 1, a member at a time.
LEMMA ReservingKept ==
    ASSUME MoeInv, CacheInv, BatchKept, SkipMember \/ ReserveMember \/ AbandonRest,
           UNCHANGED <<walk, last_layer, step, route, next>>
    PROVE  BatchKept'
<1> SUFFICES ASSUME pins_on, Walking, step = "gets"
             PROVE  BatchKept'
    BY DEF BatchKept, SkipMember, ReserveMember, AbandonRest, pins, walk, Walking
<1>1. /\ pc = "reserve" /\ pc' = "reserve" /\ UNCHANGED <<avoid, route, layer>> /\ todo # <<>>
      /\ todo \in Seq(Layers \X (Experts \cup {BadExpert}))
    BY DEF SkipMember, ReserveMember, AbandonRest, walk, CacheInv, TypeOK
<1>2. /\ avoid = Mates /\ Mates' = Mates
      /\ \A w \in work : w.key \in Mates /\ ~Settled(w)
      /\ \A i \in DOMAIN todo : todo[i] \in Mates
      /\ \A k \in Mates \cap Records : Coming(k) \/ \E i \in DOMAIN todo : todo[i] = k
    BY <1>1 DEF BatchKept, CacheInv, Phases, Mates, Member
<1>3. /\ Head(todo) \in Mates
      /\ \A i \in DOMAIN Tail(todo) : Tail(todo)[i] \in Mates
      /\ \A k \in Mates \cap Records :
             \/ Coming(k) \/ k = Head(todo)
             \/ \E i \in DOMAIN Tail(todo) : Tail(todo)[i] = k
    <2> DEFINE S == Layers \X (Experts \cup {BadExpert})
    <2>1. todo \in Seq(S) /\ todo # <<>>
        BY <1>1
    <2> HIDE DEF S
    <2>2. /\ Head(todo) = todo[1] /\ 1 \in DOMAIN todo
          /\ \A i \in DOMAIN Tail(todo) : i + 1 \in DOMAIN todo /\ Tail(todo)[i] = todo[i + 1]
          /\ \A k : (\E i \in DOMAIN todo : todo[i] = k) =>
                 k = Head(todo) \/ \E i \in DOMAIN Tail(todo) : Tail(todo)[i] = k
        BY <2>1, HeadOrTail
    <2>3. Head(todo) \in Mates /\ \A i \in DOMAIN Tail(todo) : Tail(todo)[i] \in Mates
        BY <1>2, <2>2
    <2>4. \A k \in Mates \cap Records :
             \/ Coming(k) \/ k = Head(todo)
             \/ \E i \in DOMAIN Tail(todo) : Tail(todo)[i] = k
        BY <1>2, <2>2, Zenon
    <2> QED
        BY <2>3, <2>4
<1>4. CASE SkipMember
    <2>1. todo' = Tail(todo) /\ UNCHANGED <<slot_of, work>>
        BY <1>4 DEF SkipMember, tables
    <2>2. Head(todo) \in Records => Coming(Head(todo))
        BY <1>2, <1>4 DEF SkipMember, NeedsRead, Coming
    <2>3. \A k : Coming(k) => Coming(k)'
        BY <2>1 DEF Coming, Settled
    <2> QED
        BY <1>1, <1>2, <1>3, <2>1, <2>2, <2>3 DEF BatchKept
<1>5. CASE ReserveMember
    <2>1. PICK s \in Victims(avoid) : Reserve(s, Head(todo))
        BY <1>5 DEF ReserveMember
    <2>2. todo' = Tail(todo)
        BY <1>5 DEF ReserveMember
    <2>3. work' = work \cup {[slot |-> s, key |-> Head(todo), got |-> "wait"]}
        BY <2>1 DEF Reserve
    <2>4. /\ \E w \in work' : w.key = Head(todo) /\ w.got = "wait"
          /\ \A w \in work' : w.key \in Mates
        <3> DEFINE new == [slot |-> s, key |-> Head(todo), got |-> "wait"]
        <3>1. new.key = Head(todo) /\ new.got = "wait"
            OBVIOUS
        <3>2. work' = work \cup {new}
            BY <2>3
        <3> HIDE DEF new
        <3> QED
            BY <1>2, <1>3, <3>1, <3>2
    <2>5. \A k \in Mates : Coming(k) => Coming(k)'
        BY <1>2, <2>1, ReserveKeeps
    <2>6. ASSUME NEW k \in Mates \cap Records
          PROVE  Coming(k)' \/ \E i \in DOMAIN todo' : todo'[i] = k
        <3>1. CASE Coming(k)
            BY <2>5, <3>1
        <3>2. CASE k = Head(todo)
            BY <2>4, <3>2 DEF Coming, Settled
        <3>3. CASE \E i \in DOMAIN Tail(todo) : Tail(todo)[i] = k
            BY <2>2, <3>3
        <3> QED
            BY <1>3, <3>1, <3>2, <3>3
    <2> QED
        BY <1>1, <1>2, <1>3, <2>2, <2>4, <2>6 DEF BatchKept
<1>6. CASE AbandonRest
    <2>1. NeedsRead(Head(todo)) /\ Victims(avoid) = {}
        BY <1>6 DEF AbandonRest
    <2> QED
        BY <1>1, <1>3, <2>1, RoomForMember
<1> QED
    BY <1>4, <1>5, <1>6

\* The phases after it: what is coming comes, or a read was short.
LEMMA CacheRunsKept ==
    ASSUME MoeInv, CacheInv, BatchKept, CacheRuns
    PROVE  BatchKept'
<1>1. UNCHANGED <<walk, last_layer, step, route, next, pins>>
    BY DEF CacheRuns, SkipMember, ReserveMember, AbandonRest, EndReserve, JoinWorkers,
        ReturnMany, Worker, ReadBegin, ReadEnd, Publish
<1>2. CASE SkipMember \/ ReserveMember \/ AbandonRest
    BY <1>1, <1>2, ReservingKept
<1> SUFFICES ASSUME pins_on, Walking, step = "gets",
                    ~(SkipMember \/ ReserveMember \/ AbandonRest)
             PROVE  BatchKept'
    BY <1>1, <1>2 DEF BatchKept, pins, walk, Walking
<1>3. Mates' = Mates /\ (~short' => ~short) /\ (~short' => \A w \in work' : w.got # "failed")
    BY <1>1 DEF CacheRuns, Mates, Member, walk, MoeInv, MoeTypeOK
<1>4. CASE EndReserve
    <2>1. /\ pc = "reserve" /\ todo = <<>> /\ UNCHANGED <<slot_of, work>>
          /\ \/ work = {} /\ pc' = "idle"
             \/ work # {} /\ pc' = "read" /\ avoid' = avoid
        BY <1>4 DEF EndReserve, tables
    <2>2. \A k \in Mates \cap Records : Coming(k)
        BY <2>1 DEF BatchKept
    <2>3. \A k : Coming(k) => Coming(k)'
        BY <2>1 DEF Coming, Settled
    <2>4. work = {} => \A k \in Mates \cap Records : slot_of'[k] # NoSlot
        BY <2>1, <2>2 DEF Coming
    <2> QED
        BY <1>3, <2>1, <2>2, <2>3, <2>4 DEF BatchKept
<1>5. CASE JoinWorkers
    <2>1. pc = "read" /\ pc' = "publish" /\ UNCHANGED <<slot_of, work, avoid>>
        BY <1>5 DEF JoinWorkers, tables
    <2>2. \A k : Coming(k) => Coming(k)'
        BY <2>1 DEF Coming, Settled
    <2> QED
        BY <1>3, <2>1, <2>2 DEF BatchKept
<1>6. CASE ReturnMany
    <2>1. pc = "publish" /\ pc' = "idle" /\ UNCHANGED slot_of /\ \A w \in work : Settled(w)
        BY <1>6 DEF ReturnMany, tables
    <2> QED
        BY <1>3, <2>1 DEF BatchKept, Coming
<1>7. ASSUME NEW w \in work, ReadBegin(w) \/ ReadEnd(w)
      PROVE  BatchKept'
    <2>1. /\ pc' = pc /\ UNCHANGED <<slot_of, avoid, todo>>
          /\ pc \in {"read", "load"} /\ w.got \in {"wait", "reading"}
        BY <1>7 DEF ReadBegin, ReadEnd, tables
    <2>2. PICK g \in {"reading", "full", "short"} : Mark(w, g)
        BY <1>7 DEF ReadBegin, ReadEnd
    <2>3. PICK n : n = [w EXCEPT !.got = g]
        OBVIOUS
    <2>4. n.key = w.key /\ n.got = g /\ work' = (work \ {w}) \cup {n}
        BY <2>2, <2>3, MarkFacts
    <2>5. \A k : Coming(k) => Coming(k)'
        BY <2>1, <2>4 DEF Coming, Settled
    <2> QED
        BY <1>3, <2>1, <2>4, <2>5 DEF BatchKept
<1>8. ASSUME NEW w \in work, Publish(w)
      PROVE  BatchKept'
    <2>1. pc = "publish" /\ pc' = pc /\ UNCHANGED avoid
        BY <1>8 DEF Publish
    <2>2. PICK g \in {"published", "failed"} :
              /\ Mark(w, g)
              /\ \/ g = "published" /\ Fill(w)
                 \/ g = "failed" /\ UNCHANGED slot_of
        BY <1>8 DEF Publish
    <2>3. PICK n : n = [w EXCEPT !.got = g]
        OBVIOUS
    <2>4. n.key = w.key /\ n.got = g /\ work' = (work \ {w}) \cup {n}
        BY <2>2, <2>3, MarkFacts
    <2>5. w.key \in Keys /\ w.slot \in Slots /\ slot_of \in [Keys -> Slots \cup {NoSlot}]
        BY CacheAssumption DEF CacheInv, TypeOK, Work
    <2>6. ASSUME ~short', NEW k \in Keys, Coming(k)
          PROVE  Coming(k)'
        <3>1. g = "published" /\ slot_of' = [slot_of EXCEPT ![w.key] = w.slot]
            BY <1>3, <2>2, <2>4, <2>6 DEF Fill
        <3>2. w.slot # NoSlot
            BY <2>5, CacheAssumption DEF Slots, NoSlot
        <3>3. CASE slot_of[k] # NoSlot \/ k = w.key
            BY <2>5, <3>1, <3>2, <3>3 DEF Coming
        <3>4. CASE k # w.key /\ \E v \in work : v.key = k /\ ~Settled(v)
            BY <2>4, <3>4 DEF Coming, Settled
        <3> QED
            BY <2>6, <3>3, <3>4 DEF Coming
    <2>7. Mates \cap Records \subseteq Keys
        BY CacheAssumption
    <2> QED
        BY <1>3, <2>1, <2>4, <2>6, <2>7 DEF BatchKept
<1> QED
    BY <1>4, <1>5, <1>6, <1>7, <1>8 DEF CacheRuns, Worker

\* No member needs a read of its own once a batch without short reads is done.
LEMMA TakeKept ==
    ASSUME MoeInv, CacheInv, BatchKept,
           TakeHit \/ TakeMiss \/ TakeRefused \/ \E w \in work : TakeRead(w)
    PROVE  BatchKept'
<1>1. /\ Walking /\ step = "gets" /\ UNCHANGED <<pins, route, layer>>
      /\ pc \in {"idle", "load"}
    BY DEF TakeHit, TakeMiss, TakeRefused, TakeRead, GetHit, GetMiss, GetRefused, GetFinish,
        Idle, walk, moe, Abort
<1>2. Mates' = Mates
    BY <1>1 DEF Mates, Member
<1>3. CASE TakeHit
    <2>1. pc = "idle" /\ pc' = "idle" /\ UNCHANGED <<slot_of, short>>
        BY <1>3 DEF TakeHit, GetHit, Idle, locals
    <2> QED
        BY <1>1, <1>2, <2>1 DEF BatchKept, pins
<1>4. CASE TakeMiss
    <2>1. /\ pc = "idle" /\ pc' = "load" /\ UNCHANGED short /\ next \in Positions
          /\ Member(next) \in Records /\ ~Resident(Member(next))
        BY <1>4 DEF TakeMiss, GetMiss, Idle, moe
    <2>2. Member(next) \in Mates /\ Member(next) \in Keys
        BY <2>1, CacheAssumption DEF Mates
    <2>3. slot_of[Member(next)] = NoSlot
        BY <2>1, <2>2 DEF Resident, CacheInv, TypeOK, MapsInverse
    <2>4. pins_on => short
        BY <1>1, <2>1, <2>2, <2>3 DEF BatchKept
    <2> QED
        BY <1>1, <2>1, <2>4 DEF BatchKept, pins
<1>5. CASE TakeRefused
    BY <1>5 DEF TakeRefused, Abort, BatchKept, Walking
<1>6. ASSUME NEW w \in work, TakeRead(w)
      PROVE  BatchKept'
    <2>1. pc = "load" /\ pc' = "idle" /\ short' \in {short, TRUE}
        BY <1>6 DEF TakeRead, GetFinish
    <2>2. pins_on => short
        BY <1>1, <2>1 DEF BatchKept
    <2> QED
        BY <1>1, <2>1, <2>2 DEF BatchKept, pins, MoeInv, MoeTypeOK
<1> QED
    BY <1>3, <1>4, <1>5, <1>6

\* Every step keeps what getmany has done for the members.
LEMMA StepBatchKept ==
    ASSUME MoeInv, CacheInv, BatchKept, [MoeNext]_moevars
    PROVE  BatchKept'
<1>1. ASSUME NEW rt \in Routes, RouteToken(rt)
      PROVE  BatchKept'
    BY <1>1 DEF RouteToken, BatchKept, Walking, walk
<1>2. CASE EndToken
    BY <1>2 DEF EndToken, BatchKept
<1>3. CASE Sample
    BY <1>3 DEF Sample, BatchKept, moe, MoeInv, Detector, Walking
<1>4. CASE StepFails
    BY <1>4 DEF StepFails, Abort, BatchKept, Walking
<1>5. CASE Leave
    BY <1>5 DEF Leave, walk, BatchKept, Walking
<1>6. CASE UNCHANGED moevars
    BY <1>6 DEF BatchKept, Walking, Mates, Member, Coming, Settled, moevars, vars, tables, pins,
        locals, walk, moe
<1> QED
    BY <1>1, <1>2, <1>3, <1>4, <1>5, <1>6, FetchBatchKept, CacheRunsKept, TakeKept
        DEF MoeNext, Proceed, Ended

\* With pins, every get after a batch without a short read is served from the
\* cache: getmany, whose result the step ignores, never runs out of slots.
THEOREM BatchesServe == MoeSpec => []BatchHits
<1>1. MoeInit => BatchKept
    BY DEF MoeInit, BatchKept
<1>2. MoeInv /\ CacheInv /\ BatchKept /\ [MoeNext]_moevars => BatchKept'
    BY StepBatchKept
<1>3. MoeInv /\ CacheInv /\ BatchKept => BatchHits
    <2> SUFFICES ASSUME MoeInv, CacheInv, BatchKept, pins_on, step = "gets", pc = "idle",
                        ~short, Walking, NEW i \in next .. TopK, Member(i) \in Records
                 PROVE  Resident(Member(i))
        BY DEF BatchHits
    <2>1. i \in Positions
        BY MoeAssumption DEF MoeInv, MoeTypeOK, Positions
    <2>2. slot_of[Member(i)] # NoSlot /\ Member(i) \in Keys
        BY <2>1, CacheAssumption DEF BatchKept, Mates
    <2> QED
        BY <2>2 DEF Resident, CacheInv, TypeOK, MapsInverse
<1> QED
    BY <1>1, <1>2, <1>3, MoeInvariant, PTL DEF MoeSpec

(***************************************************************************)
(* What replaces the pins of a layer.                                      *)
(***************************************************************************)

Heavier(rt, i, j) == \/ rt.weight[i] > rt.weight[j]
                     \/ rt.weight[i] = rt.weight[j] /\ i < j
Over(rt, some, i) == {j \in some : Heavier(rt, j, i)}

\* The positions over another are counted, and heavier ones have fewer.
LEMMA OverCounted ==
    ASSUME NEW rt \in Routes, NEW some \in SUBSET Positions
    PROVE  /\ IsFiniteSet(some) /\ Cardinality(some) \in Nat
           /\ \A i \in some : /\ Cardinality(Over(rt, some, i)) \in Nat
                              /\ Cardinality(Over(rt, some, i)) < Cardinality(some)
           /\ \A i, j \in some : Heavier(rt, i, j) =>
                  Cardinality(Over(rt, some, i)) < Cardinality(Over(rt, some, j))
           /\ \A i, j \in some : i # j => Heavier(rt, i, j) \/ Heavier(rt, j, i)
<1> USE MoeAssumption, RoutesAssumption DEF Positions
<1>1. rt.weight \in [Positions -> Nat]
    OBVIOUS
<1>2. IsFiniteSet(some) /\ Cardinality(some) \in Nat
    <2>1. IsFiniteSet(1 .. TopK)
        BY FS_Interval
    <2> QED
        BY <2>1, FS_Subset, FS_CardinalityType
<1>3. ASSUME NEW S \in SUBSET some, NEW T \in SUBSET some, S \in SUBSET T, S # T
      PROVE  Cardinality(S) \in Nat /\ Cardinality(T) \in Nat /\ Cardinality(S) < Cardinality(T)
    <2>1. IsFiniteSet(T) /\ IsFiniteSet(S)
        BY <1>2, FS_Subset
    <2>2. Cardinality(S) \in Nat /\ Cardinality(T) \in Nat
        BY <2>1, FS_CardinalityType
    <2>3. Cardinality(S) <= Cardinality(T) /\ (Cardinality(S) = Cardinality(T) => S = T)
        BY <1>3, <2>1, FS_Subset
    <2> QED
        BY <1>3, <2>2, <2>3
<1>4. ASSUME NEW i \in some
      PROVE  Over(rt, some, i) \in SUBSET some /\ i \notin Over(rt, some, i)
    BY <1>1 DEF Over, Heavier
<1>5. ASSUME NEW i \in some, NEW j \in some, Heavier(rt, i, j)
      PROVE  /\ Over(rt, some, i) \in SUBSET Over(rt, some, j)
             /\ i \in Over(rt, some, j)
    <2>1. i \in Over(rt, some, j)
        BY <1>5 DEF Over
    <2>2. ASSUME NEW k \in some, Heavier(rt, k, i)  PROVE Heavier(rt, k, j)
        <3>1. /\ rt.weight[i] \in Nat /\ rt.weight[j] \in Nat /\ rt.weight[k] \in Nat
              /\ i \in Nat /\ j \in Nat /\ k \in Nat
            BY <1>1
        <3> QED
            BY <1>5, <2>2, <3>1 DEF Heavier
    <2> QED
        BY <2>1, <2>2 DEF Over
<1>6. \A i, j \in some : i # j => Heavier(rt, i, j) \/ Heavier(rt, j, i)
    BY <1>1 DEF Heavier
<1>7. ASSUME NEW i \in some
      PROVE  /\ Cardinality(Over(rt, some, i)) \in Nat
             /\ Cardinality(Over(rt, some, i)) < Cardinality(some)
    BY <1>3, <1>4
<1>8. ASSUME NEW i \in some, NEW j \in some, Heavier(rt, i, j)
      PROVE  Cardinality(Over(rt, some, i)) < Cardinality(Over(rt, some, j))
    <2>1. Over(rt, some, i) # Over(rt, some, j)
        BY <1>4, <1>5, <1>8
    <2> QED
        BY <1>3, <1>4, <1>5, <1>8, <2>1
<1> QED
    BY <1>2, <1>6, <1>7, <1>8

\* Heaviest selects as many as it is asked for if there are so many, all if
\* there are not, and none that is lighter than one it leaves.
LEMMA HeaviestExact ==
    ASSUME NEW rt \in Routes, NEW some \in SUBSET Positions, NEW n \in Nat
    PROVE  /\ Cardinality(some) <= n => Heaviest(rt, some, n) = some
           /\ n <= Cardinality(some) => Cardinality(Heaviest(rt, some, n)) = n
           /\ \A i \in Heaviest(rt, some, n), j \in some \ Heaviest(rt, some, n) :
                  rt.weight[i] >= rt.weight[j]
<1> DEFINE H == Heaviest(rt, some, n)
           c == Cardinality(some)
           size(i) == Cardinality(Over(rt, some, i))
           rank == [i \in some |-> size(i)]
           first == [i \in H |-> size(i)]
<1>1. H = {i \in some : size(i) < n}
    BY DEF Heaviest, Over, Heavier
<1>2. /\ IsFiniteSet(some) /\ c \in Nat
      /\ \A i \in some : size(i) \in Nat /\ size(i) < c
      /\ \A i, j \in some : Heavier(rt, i, j) => size(i) < size(j)
      /\ \A i, j \in some : i # j => Heavier(rt, i, j) \/ Heavier(rt, j, i)
    BY OverCounted
<1> HIDE DEF size, H, c
<1>3. c <= n => H = some
    BY <1>1, <1>2
<1>4. \A i, j \in some : size(i) = size(j) => i = j
    BY <1>2
<1>5. rank \in Surjection(some, 0 .. c - 1)
    <2>1. \A i \in some : rank[i] = size(i) /\ size(i) \in 0 .. c - 1
        BY <1>2
    <2>2. rank \in [some -> 0 .. c - 1]
        BY <2>1
    <2>3. \A i, j \in some : rank[i] = rank[j] => i = j
        BY <1>4, <2>1
    <2> HIDE DEF rank
    <2>4. rank \in Injection(some, 0 .. c - 1)
        BY <2>2, <2>3 DEF Injection, IsInjective
    <2>5. IsFiniteSet(0 .. c - 1) /\ Cardinality(0 .. c - 1) = c
        <3>1. Cardinality(0 .. c - 1) = IF 0 > c - 1 THEN 0 ELSE c - 1 - 0 + 1
            BY <1>2, FS_Interval
        <3> QED
            BY <1>2, <3>1, FS_Interval
    <2> QED
        BY <2>4, <2>5, FS_Injection DEF c
<1>6. \A m \in 0 .. c - 1 : \E i \in some : size(i) = m
    BY <1>5 DEF Surjection
<1>7. ASSUME n <= c  PROVE Cardinality(H) = n
    <2>1. \A i \in H : first[i] = size(i) /\ size(i) \in 0 .. n - 1
        BY <1>1, <1>2
    <2>2. first \in [H -> 0 .. n - 1]
        BY <2>1
    <2>3. \A m \in 0 .. n - 1 : \E i \in H : first[i] = m
        <3> SUFFICES ASSUME NEW m \in 0 .. n - 1  PROVE \E i \in H : first[i] = m
            OBVIOUS
        <3>1. PICK i \in some : size(i) = m
            BY <1>2, <1>6, <1>7
        <3>2. i \in H
            BY <1>1, <3>1
        <3> QED
            BY <2>1, <3>1, <3>2
    <2>4. \A i, j \in H : first[i] = first[j] => i = j
        BY <1>1, <1>4, <2>1
    <2> HIDE DEF first
    <2>5. first \in Bijection(H, 0 .. n - 1)
        BY <2>2, <2>3, <2>4 DEF Bijection, Injection, Surjection, IsInjective
    <2>6. IsFiniteSet(0 .. n - 1) /\ Cardinality(0 .. n - 1) = n
        <3>1. Cardinality(0 .. n - 1) = IF 0 > n - 1 THEN 0 ELSE n - 1 - 0 + 1
            BY FS_Interval
        <3> QED
            BY <3>1, FS_Interval
    <2>7. IsFiniteSet(H)
        BY <1>1, <1>2, FS_Subset
    <2>8. ExistsBijection(H, 0 .. n - 1)
        BY <2>5 DEF ExistsBijection
    <2> QED
        BY <2>6, <2>7, <2>8, FS_Bijection
<1>8. ASSUME NEW i \in H, NEW j \in some \ H  PROVE rt.weight[i] >= rt.weight[j]
    <2>1. i \in some /\ size(i) < n /\ ~(size(j) < n) /\ size(i) \in Nat /\ size(j) \in Nat
        BY <1>1, <1>2
    <2>2. ~Heavier(rt, j, i)
        BY <1>2, <2>1
    <2>3. rt.weight[i] \in Nat /\ rt.weight[j] \in Nat
        BY <2>1, RoutesAssumption
    <2> QED
        BY <2>2, <2>3 DEF Heavier
<1> QED
    BY <1>3, <1>7, <1>8 DEF H, c

\* As many experts as positions: a route names an expert once.
LEMMA ImageExact ==
    ASSUME NEW rt \in Routes, NEW H \in SUBSET Positions
    PROVE  /\ IsFiniteSet(H) /\ IsFiniteSet({rt.id[i] : i \in H})
           /\ Cardinality({rt.id[i] : i \in H}) = Cardinality(H)
           /\ Cardinality(H) \in Nat
<1> DEFINE image == {rt.id[i] : i \in H}
           f == [i \in H |-> rt.id[i]]
<1>1. IsFiniteSet(H)
    <2>1. IsFiniteSet(Positions)
        BY MoeAssumption, FS_Interval DEF Positions
    <2> QED
        BY <2>1, FS_Subset
<1>2. \A i, j \in H : f[i] = f[j] => i = j
    BY RoutesAssumption
<1>3. f \in [H -> image] /\ \A e \in image : \E i \in H : f[i] = e
    OBVIOUS
<1> HIDE DEF f, image
<1>4. f \in Bijection(H, image)
    BY <1>2, <1>3 DEF Bijection, Injection, Surjection, IsInjective
<1>5. ExistsBijection(H, image)
    BY <1>4 DEF ExistsBijection
<1> QED
    BY <1>1, <1>5, FS_Bijection, FS_CardinalityType DEF image

\* What Kept returns: with hysteresis every old pin that is routed again.
LEMMA KeptExact ==
    ASSUME MoeInv, NEW rt \in Routes
    PROVE  /\ Kept(rt) \subseteq PinsOf(layer) \cap Routed(rt)
           /\ hysteresis => PinsOf(layer) \cap Routed(rt) \subseteq Kept(rt)
           /\ IsFiniteSet(Kept(rt)) /\ Cardinality(Kept(rt)) \in Nat
           /\ Cardinality(Kept(rt)) <= PinMax
<1> USE MoeAssumption, RoutesAssumption
<1> DEFINE old == {i \in Positions : <<layer, rt.id[i]>> \in pinned_of}
           H == Heaviest(rt, old, PinMax)
<1>1. layer \in Layers /\ PinsFit
    BY DEF MoeInv, MoeTypeOK
<1>2. rt.id \in [Positions -> Experts]
    OBVIOUS
<1>3. /\ {rt.id[i] : i \in old} \subseteq PinsOf(layer) \cap Routed(rt)
      /\ PinsOf(layer) \cap Routed(rt) \subseteq {rt.id[i] : i \in old}
    BY <1>2 DEF PinsOf, Routed
<1>4. Cardinality(old) <= PinMax
    <2>1. /\ IsFiniteSet(PinsOf(layer)) /\ Cardinality(PinsOf(layer)) <= PinCount
          /\ Cardinality(PinsOf(layer)) \in Nat
        BY <1>1, FS_CardinalityType DEF PinsFit
    <2>2. /\ Cardinality({rt.id[i] : i \in old}) = Cardinality(old)
          /\ Cardinality(old) \in Nat
        <3>1. old \in SUBSET Positions
            OBVIOUS
        <3> HIDE DEF old
        <3> QED
            BY <3>1, ImageExact
    <2>3. Cardinality({rt.id[i] : i \in old}) <= Cardinality(PinsOf(layer))
        <3>1. {rt.id[i] : i \in old} \in SUBSET PinsOf(layer)
            BY <1>3
        <3> HIDE DEF old
        <3> QED
            BY <2>1, <3>1, FS_Subset
    <2>4. Cardinality(old) <= TopK
        <3>1. Cardinality(1 .. TopK) = TopK /\ IsFiniteSet(1 .. TopK)
            <4>1. Cardinality(1 .. TopK) = IF 1 > TopK THEN 0 ELSE TopK - 1 + 1
                BY FS_Interval
            <4> QED
                BY <4>1, FS_Interval
        <3>2. old \in SUBSET (1 .. TopK)
            BY DEF Positions
        <3> HIDE DEF old
        <3>3. Cardinality(old) <= Cardinality(1 .. TopK)
            BY <3>1, <3>2, FS_Subset
        <3> QED
            BY <3>1, <3>3
    <2> HIDE DEF old
    <2> QED
        BY <2>1, <2>2, <2>3, <2>4 DEF PinMax
<1>5. H = old
    <2>1. old \in SUBSET Positions /\ PinMax \in Nat
        BY PinMaxType
    <2> HIDE DEF old
    <2> QED
        BY <1>4, <2>1, HeaviestExact
<1>6. Kept(rt) = IF hysteresis /\ pins_on THEN {rt.id[i] : i \in old} ELSE {}
    BY <1>5 DEF Kept
<1>7. ~pins_on => PinsOf(layer) = {}
    BY <1>1 DEF PinsFit, PinsOf
<1>8. /\ IsFiniteSet(Kept(rt)) /\ Cardinality(Kept(rt)) \in Nat
      /\ Cardinality(Kept(rt)) <= PinMax
    <2>1. old \in SUBSET Positions
        OBVIOUS
    <2> HIDE DEF old
    <2>2. CASE hysteresis /\ pins_on
        BY <1>4, <1>6, <2>1, <2>2, ImageExact
    <2>3. CASE ~(hysteresis /\ pins_on)
        <3>1. Kept(rt) = {}
            BY <1>6, <2>3
        <3> QED
            BY <3>1, FS_EmptySet, PinMaxType
    <2> QED
        BY <2>2, <2>3
<1> HIDE DEF old
<1> QED
    BY <1>3, <1>6, <1>7, <1>8

\* What PinSet returns.
LEMMA PinSetExact ==
    ASSUME MoeInv, NEW rt \in Routes
    PROVE  /\ PinSet(rt) \subseteq Routed(rt)
           /\ Cardinality(PinSet(rt)) = PinMax
           /\ hysteresis => PinsOf(layer) \cap Routed(rt) \subseteq PinSet(rt)
           /\ \A i, j \in Positions :
                  rt.id[i] \in PinSet(rt) \ PinsOf(layer) /\ rt.id[j] \notin PinSet(rt)
                      => rt.weight[i] >= rt.weight[j]
<1> USE MoeAssumption, RoutesAssumption
<1> DEFINE kept == Kept(rt)
           others == {i \in Positions : rt.id[i] \notin kept}
           keeps == {i \in Positions : rt.id[i] \in kept}
           left == PinMax - Cardinality(kept)
           H == Heaviest(rt, others, left)
           new == {rt.id[i] : i \in H}
<1>1. PinSet(rt) = kept \cup new
    BY DEF PinSet
<1>2. /\ kept \subseteq PinsOf(layer) \cap Routed(rt)
      /\ hysteresis => PinsOf(layer) \cap Routed(rt) \subseteq kept
      /\ IsFiniteSet(kept) /\ Cardinality(kept) \in Nat /\ Cardinality(kept) <= PinMax
    BY KeptExact
<1>3. /\ PinMax \in Nat /\ PinMax <= TopK
      /\ left \in Nat
    BY <1>2, PinMaxType DEF PinMax
<1>4. /\ others \in SUBSET Positions /\ keeps \in SUBSET Positions
      /\ others \cup keeps = Positions /\ others \cap keeps = {}
    OBVIOUS
<1>5. kept = {rt.id[i] : i \in keeps}
    BY <1>2 DEF Routed
<1>9. \A i \in others : rt.id[i] \notin kept
    OBVIOUS
<1> HIDE DEF others, keeps, kept
<1>6. H \in SUBSET others
    BY <1>3, <1>4, HeaviestBound
<1>7. Cardinality(H) = left
    <2>1. Cardinality(keeps) = Cardinality(kept) /\ IsFiniteSet(keeps)
        BY <1>4, <1>5, ImageExact
    <2>2. IsFiniteSet(others) /\ Cardinality(others) \in Nat
        BY <1>4, ImageExact
    <2>3. Cardinality(Positions) = TopK
        <3>1. Cardinality(1 .. TopK) = IF 1 > TopK THEN 0 ELSE TopK - 1 + 1
            BY FS_Interval
        <3> QED
            BY <3>1 DEF Positions
    <2>4. Cardinality(others \cup keeps)
              = Cardinality(others) + Cardinality(keeps) - Cardinality(others \cap keeps)
        BY <2>1, <2>2, FS_Union
    <2>5. Cardinality(others) = TopK - Cardinality(kept)
        <3>1. Cardinality(others \cap keeps) = 0
            BY <1>4, FS_EmptySet
        <3>2. others \cup keeps = Positions
            BY <1>4
        <3>3. Cardinality(others \cup keeps) = TopK
            BY <2>3, <3>2
        <3>4. TopK = Cardinality(others) + Cardinality(kept) - 0
            BY <2>1, <2>4, <3>1, <3>3
        <3> QED
            BY <1>2, <2>2, <3>4, MoeAssumption
    <2>6. left <= Cardinality(others)
        BY <1>2, <1>3, <2>5
    <2> QED
        BY <1>3, <1>4, <2>6, HeaviestExact
<1> HIDE DEF H, left
<1>8. \A i \in H, j \in others \ H : rt.weight[i] >= rt.weight[j]
    BY <1>3, <1>4, HeaviestExact DEF H
<1>10. new \subseteq Routed(rt) /\ kept \cap new = {}
    BY <1>4, <1>6, <1>9 DEF Routed
<1>11. Cardinality(kept \cup new) = PinMax
    <2>1. IsFiniteSet(new) /\ Cardinality(new) = left
        BY <1>4, <1>6, <1>7, ImageExact
    <2>2. Cardinality(kept \cup new)
              = Cardinality(kept) + Cardinality(new) - Cardinality(kept \cap new)
        BY <1>2, <2>1, FS_Union
    <2>3. Cardinality(kept \cap new) = 0
        BY <1>10, FS_EmptySet
    <2> QED
        BY <1>2, <1>3, <2>1, <2>2, <2>3 DEF left
<1>12. ASSUME NEW i \in Positions, NEW j \in Positions,
              rt.id[i] \in (kept \cup new) \ PinsOf(layer), rt.id[j] \notin kept \cup new
       PROVE  rt.weight[i] >= rt.weight[j]
    <2>1. rt.id[i] \in new
        BY <1>2, <1>12
    <2>2. i \in H
        BY <1>4, <1>6, <2>1
    <2>3. j \in others
        BY <1>12 DEF others
    <2>4. j \notin H
        BY <1>12
    <2> QED
        BY <1>8, <2>2, <2>3, <2>4
<1> HIDE DEF new
<1> QED
    BY <1>1, <1>2, <1>10, <1>11, <1>12

\* The pins change in no other step.
LEMMA PinsLast ==
    ASSUME MoeInv, CacheInv, [MoeNext]_moevars, pc' # "closed", pinned_of' # pinned_of
    PROVE  \E rt \in Routes : RouteToken(rt)
<1> USE DEF pins
<1>1. ASSUME FetchBatch  PROVE FALSE
    BY <1>1 DEF FetchBatch, GetMany
<1>2. ASSUME CacheRuns  PROVE FALSE
    BY <1>2 DEF CacheRuns, SkipMember, ReserveMember, AbandonRest, EndReserve, JoinWorkers,
                ReturnMany, Worker, ReadBegin, ReadEnd, Publish
<1>3. ASSUME TakeHit \/ TakeMiss \/ TakeRefused \/ \E w \in work : TakeRead(w)  PROVE FALSE
    BY <1>3 DEF TakeHit, TakeMiss, TakeRefused, TakeRead, GetHit, GetMiss, GetRefused, GetFinish
<1>4. ASSUME EndToken \/ Sample \/ StepFails \/ Ended \/ UNCHANGED moevars  PROVE FALSE
    BY <1>4 DEF EndToken, Sample, StepFails, Ended, moevars, vars
<1>5. ASSUME Leave  PROVE FALSE
    BY <1>5 DEF Leave, Close
<1> QED
    BY <1>1, <1>2, <1>3, <1>4, <1>5 DEF MoeNext, Proceed

\* What pin_routes replaces: with every layer, route, weight and number of pins
\* a layer's pins become as many as can be of the routed experts, the heaviest
\* of those that were not pinned before, and with hysteresis none that is
\* routed again is lost; the other layers' pins stay.
THEOREM PinsRenewed == MoeSpec => PinsReplaced
<1> DEFINE Renewed ==
        /\ \A l \in Layers \ {layer} : PinsOf(l)' = PinsOf(l)
        /\ PinsOf(layer)' \subseteq Routed(route')
        /\ Cardinality(PinsOf(layer)') = PinMax
        /\ hysteresis => PinsOf(layer) \cap Routed(route') \subseteq PinsOf(layer)'
        /\ \A i, j \in Positions :
               /\ route'.id[i] \in PinsOf(layer)' \ PinsOf(layer)
               /\ route'.id[j] \notin PinsOf(layer)'
               => route'.weight[i] >= route'.weight[j]
<1>1. ASSUME MoeInv, CacheInv, [MoeNext]_moevars, pc' # "closed",
             pinned_of' # pinned_of \/ RoutesPinned
      PROVE  Renewed
    <2>1. PICK rt \in Routes : RouteToken(rt)
        <3>1. CASE pinned_of' # pinned_of
            BY <1>1, <3>1, PinsLast
        <3>2. CASE RoutesPinned
            <4>1. step = "route" /\ step' = "batch"
                BY <3>2 DEF RoutesPinned
            <4>2. MoeNext
                BY <1>1, <4>1 DEF moevars, moe
            <4> QED
                BY <4>1, <4>2 DEF MoeNext, Proceed, FetchBatch, CacheRuns, TakeHit, TakeMiss,
                    TakeRefused, TakeRead, EndToken, Sample, Leave, StepFails, Ended, moe, moevars
        <3> QED
            BY <1>1, <3>1, <3>2
    <2>2. route' = rt /\ layer' = layer
        BY <2>1 DEF RouteToken, walk
    <2>3. pinned_of' = {k \in pinned_of : k[1] # layer} \cup ({layer} \X PinSet(rt))
        <3>1. CASE ~Pinning
            <4>1. pins_on' = pins_on /\ pinned_of' = pinned_of
                BY <2>1, <3>1 DEF RouteToken, vars, pins
            <4> QED
                BY <1>1, <3>1, <4>1 DEF RoutesPinned, Pinning, MoeInv, PinsFit
        <3>2. CASE Pinning /\ NSlots >= Needed
            BY <2>1, <3>2, MoeAssumption, CacheAssumption DEF RouteToken, PinLayer, Needed
        <3>3. CASE Pinning /\ NSlots < Needed
            <4>1. PinLayer(0, {})
                BY <2>1, <3>3, MoeAssumption, CacheAssumption DEF RouteToken, Needed
            <4>2. pinned_of \subseteq Keys /\ PinsOf(0) = {}
                BY <1>1 DEF MoeInv, PinsFit, CacheInv, TypeOK
            <4>3. \A k \in pinned_of : k[1] # 0
                BY <4>2 DEF PinsOf, Keys
            <4>4. pinned_of' = pinned_of
                BY <4>1, <4>3 DEF PinLayer
            <4>5. step' = step
                BY <2>1, <3>3, MoeAssumption, CacheAssumption DEF RouteToken, Needed
            <4> QED
                BY <1>1, <4>4, <4>5 DEF RoutesPinned
        <3> QED
            BY <3>1, <3>2, <3>3, <2>1 DEF RouteToken
    <2>4. layer \in Layers /\ PinSet(rt) \subseteq Experts
        BY <1>1, MoeAssumption, PinSetBound DEF MoeInv, MoeTypeOK
    <2>5. PinsOf(layer)' = PinSet(rt)
        BY <2>2, <2>3, <2>4 DEF PinsOf
    <2>6. \A l \in Layers \ {layer} : PinsOf(l)' = PinsOf(l)
        BY <2>3 DEF PinsOf
    <2>7. /\ PinSet(rt) \subseteq Routed(rt)
          /\ Cardinality(PinSet(rt)) = PinMax
          /\ hysteresis => PinsOf(layer) \cap Routed(rt) \subseteq PinSet(rt)
          /\ \A i, j \in Positions :
                 rt.id[i] \in PinSet(rt) \ PinsOf(layer) /\ rt.id[j] \notin PinSet(rt)
                     => rt.weight[i] >= rt.weight[j]
        BY <1>1, PinSetExact
    <2> QED
        BY <2>2, <2>5, <2>6, <2>7
<1>2. MoeInv /\ CacheInv /\ [MoeNext]_moevars
          => [pc' # "closed" /\ (pinned_of' # pinned_of \/ RoutesPinned) => Renewed]_moevars
    BY <1>1
<1> QED
    BY <1>2, MoeInvariant, PTL DEF MoeSpec, PinsReplaced
=============================================================================
