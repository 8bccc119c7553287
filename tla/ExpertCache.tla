---------------------------- MODULE ExpertCache ----------------------------
(***************************************************************************)
(* The routed-expert cache of src/expert_cache.c: a fixed arena of NSlots  *)
(* slots, filled on demand by positioned reads from the expert store, with *)
(* least-recently-used replacement and optional per-layer pins.            *)
(*                                                                         *)
(* One thread calls the cache.  Only phase 2 of a batch is parallel: its   *)
(* OpenMP workers write the arena (ReadBegin, ReadEnd) and nothing else.   *)
(* A call that reads is therefore several steps; the others are one.       *)
(*                                                                         *)
(* Data is abstracted to identity: arena[s] is the key whose complete      *)
(* record slot s holds, or Torn while a read is under way or was short.    *)
(* Keys are the pairs the code flattens to layer * n_experts + expert.     *)
(***************************************************************************)
EXTENDS Integers, Sequences, FiniteSets

CONSTANTS
    Layers, Experts,    \* the store's layers and routed experts
    BadExpert,          \* an expert id outside the store's range
    Records,            \* keys the store holds (a sparse store lacks some)
    Offset,             \* file offset of each record
    NSlots,             \* floor(budget / slot_bytes), at least 1
    EMPTY, INFLIGHT,    \* KVL_CACHE_EMPTY and KVL_CACHE_INFLIGHT
    NoRecord,           \* NULL in record_of_slot
    Torn,               \* arena bytes that are no complete record
    NoOut,              \* the caller holds no KvlCachedExpert
    MaxBatch,           \* bound: longest getmany request
    MaxClock            \* bound: no call starts once the clock got here

Keys  == Layers \X Experts
Slots == 0 .. NSlots - 1
NoSlot == -1

ASSUME CacheAssumption ==
    /\ NSlots \in Nat \ {0}
    /\ MaxBatch \in Nat \ {0}
    /\ MaxClock \in Nat
    /\ BadExpert \notin Experts
    /\ Records \subseteq Keys
    /\ Offset \in [Records -> Nat]
    /\ EMPTY \notin Keys /\ INFLIGHT \notin Keys /\ EMPTY # INFLIGHT
    /\ NoRecord \notin Keys /\ Torn \notin Keys
    /\ NoOut \notin [key : Keys, slot : Slots]

ASSUME DistinctOffsets ==
    \A j, k \in Records : Offset[j] = Offset[k] => j = k

VARIABLES
    slot_of,            \* key -> slot, NoSlot if absent
    key_of,             \* slot -> EMPTY, INFLIGHT or key
    used_at, clock,     \* last-use stamps and their source
    record_of_slot,
    pins_on, pinned_of, \* pinned_of is allocated; the keys whose bit is set
    arena,              \* slot -> bytes
    pc,                 \* what the calling thread is inside of
    todo, avoid,        \* getmany: members still to visit; keys not to evict
    work,               \* the PrefetchWork array (one entry for a get)
    out,                \* what get last handed out, until the next call
    last_use            \* history: when each resident key was last used

tables == <<slot_of, key_of, used_at, clock, record_of_slot, last_use>>
pins   == <<pins_on, pinned_of>>
locals == <<pc, todo, avoid, work>>
vars   == <<tables, pins, arena, locals, out>>

Work == [slot : Slots, key : Records,
         got : {"wait", "reading", "full", "short", "published", "failed"}]

TypeOK ==
    /\ slot_of \in [Keys -> Slots \cup {NoSlot}]
    /\ key_of \in [Slots -> Keys \cup {EMPTY, INFLIGHT}]
    /\ used_at \in [Slots -> Nat] /\ clock \in Nat
    /\ record_of_slot \in [Slots -> Keys \cup {NoRecord}]
    /\ pins_on \in BOOLEAN /\ pinned_of \subseteq Keys
    /\ arena \in [Slots -> Keys \cup {Torn}]
    /\ pc \in {"idle", "reserve", "read", "publish", "load", "closed"}
    /\ todo \in Seq(Layers \X (Experts \cup {BadExpert}))
    /\ avoid \subseteq Keys
    /\ work \subseteq Work
    /\ out \in [key : Keys, slot : Slots] \cup {NoOut}
    /\ last_use \in [Keys -> Nat]

Init ==
    /\ slot_of = [k \in Keys |-> NoSlot]
    /\ key_of = [s \in Slots |-> EMPTY]
    /\ used_at = [s \in Slots |-> 0] /\ clock = 0
    /\ record_of_slot = [s \in Slots |-> NoRecord]
    /\ pins_on = FALSE /\ pinned_of = {}
    /\ arena = [s \in Slots |-> Torn]
    /\ pc = "idle" /\ todo = <<>> /\ avoid = {} /\ work = {}
    /\ out = NoOut
    /\ last_use = [k \in Keys |-> 0]

-----------------------------------------------------------------------------
(* Lookup and replacement. *)

\* kvl_expert_cache_resident and the hit test of get.
Resident(k) ==
    /\ slot_of[k] \in Slots
    /\ key_of[slot_of[k]] = k

\* Mutant: the victim search does not consult the avoid list.
EvictableUnspared(s, spared) ==
    /\ key_of[s] \in Keys
    /\ key_of[s] \notin pinned_of

Evictable(s, spared) ==
    /\ key_of[s] \in Keys
    /\ key_of[s] \notin pinned_of
    /\ key_of[s] \notin spared

\* Mutant: the first candidate slot, whenever it was last used.
Earlier(s, t) == s <= t

Older(s, t) == used_at[s] < used_at[t] \/ (used_at[s] = used_at[t] /\ s <= t)

\* pick_victim: the slot it returns, as a set that is empty when it returns -1.
Victims(spared) ==
    LET free == {s \in Slots : key_of[s] = EMPTY}
        used == {s \in Slots : Evictable(s, spared)}
    IN  IF free # {} THEN {s \in free : \A t \in free : s <= t}
                     ELSE {s \in used : \A t \in used : Older(s, t)}

\* map with the entry of the key that slot s holds, if any, reset to none.
DropEntry(map, s, none) ==
    [k \in Keys |-> IF k = key_of[s] THEN none ELSE map[k]]

\* Evict whatever slot s holds and reserve it for k.
Reserve(s, k) ==
    /\ slot_of' = DropEntry(slot_of, s, NoSlot)
    /\ last_use' = DropEntry(last_use, s, 0)
    /\ key_of' = [key_of EXCEPT ![s] = INFLIGHT]
    /\ record_of_slot' = [record_of_slot EXCEPT ![s] = NoRecord]
    /\ clock' = clock + 1
    /\ used_at' = [used_at EXCEPT ![s] = clock + 1]
    /\ work' = work \cup {[slot |-> s, key |-> k, got |-> "wait"]}

\* The read returned read_bytes.
Complete(w) == w.got = "full"

Fill(w) ==
    /\ record_of_slot' = [record_of_slot EXCEPT ![w.slot] = w.key]
    /\ key_of' = [key_of EXCEPT ![w.slot] = w.key]
    /\ slot_of' = [slot_of EXCEPT ![w.key] = w.slot]

\* Mutant: the error path forgets the reservation.
KeepReserved(w) == UNCHANGED key_of

\* A read that failed gives its slot back.
Release(w) == key_of' = [key_of EXCEPT ![w.slot] = EMPTY]

Mark(w, status) == work' = (work \ {w}) \cup {[w EXCEPT !.got = status]}

-----------------------------------------------------------------------------
(* Calls.  Each starts in the idle thread; MaxClock bounds how many do.    *)

Idle == pc = "idle" /\ clock < MaxClock

\* pin_layer with valid ids; an invalid list changes nothing.
PinLayer(l, es) ==
    /\ Idle
    /\ pins_on' = TRUE
    /\ pinned_of' = {k \in pinned_of : k[1] # l} \cup ({l} \X es)
    /\ out' = NoOut
    /\ UNCHANGED <<tables, arena, locals>>

GetHit(k) ==
    /\ Idle
    /\ k \in Keys
    /\ Resident(k)
    /\ clock' = clock + 1
    /\ used_at' = [used_at EXCEPT ![slot_of[k]] = clock + 1]
    /\ last_use' = [last_use EXCEPT ![k] = clock + 1]
    /\ out' = [key |-> k, slot |-> slot_of[k]]
    /\ UNCHANGED <<slot_of, key_of, record_of_slot, pins, arena, locals>>

GetMiss(k) ==
    /\ Idle
    /\ k \in Records
    /\ ~Resident(k)
    /\ \E s \in Victims({}) : Reserve(s, k)
    /\ pc' = "load"
    /\ out' = NoOut
    /\ UNCHANGED <<pins, arena, todo, avoid>>

\* get returns -1: bad id, no record, or every slot pinned.
GetRefused(k) ==
    /\ Idle
    /\ \/ k \notin Keys
       \/ k \in Keys /\ ~Resident(k) /\ (k \notin Records \/ Victims({}) = {})
    /\ out' = NoOut
    /\ UNCHANGED <<tables, pins, arena, locals>>

\* The end of a get that missed: serve a complete record, free a short one.
GetFinish(w) ==
    /\ pc = "load" /\ w \in work
    /\ \/ /\ Complete(w)
          /\ Fill(w)
          /\ last_use' = [last_use EXCEPT ![w.key] = clock]
          /\ out' = [key |-> w.key, slot |-> w.slot]
       \/ /\ w.got = "short"
          /\ Release(w)
          /\ out' = NoOut
          /\ UNCHANGED <<slot_of, record_of_slot, last_use>>
    /\ pc' = "idle" /\ work' = {}
    /\ UNCHANGED <<used_at, clock, pins, arena, todo, avoid>>

\* The keys getmany must not evict: none until pinned_of is allocated.
AvoidList(members) ==
    IF pins_on THEN {members[i] : i \in 1 .. Len(members)} \cap Keys ELSE {}

GetMany(members) ==
    /\ Idle
    /\ pc' = "reserve"
    /\ todo' = members
    /\ avoid' = AvoidList(members)
    /\ out' = NoOut
    /\ UNCHANGED <<tables, pins, arena, work>>

Close ==
    /\ pc = "idle"
    /\ pc' = "closed"
    /\ slot_of' = [k \in Keys |-> NoSlot]
    /\ key_of' = [s \in Slots |-> EMPTY]
    /\ used_at' = [s \in Slots |-> 0] /\ clock' = 0
    /\ record_of_slot' = [s \in Slots |-> NoRecord]
    /\ last_use' = [k \in Keys |-> 0]
    /\ pins_on' = FALSE /\ pinned_of' = {}
    /\ arena' = [s \in Slots |-> Torn]
    /\ out' = NoOut
    /\ UNCHANGED <<todo, avoid, work>>

-----------------------------------------------------------------------------
(* getmany, phase 1: reserve a slot for each member that needs a read.     *)

\* Mutant: duplicates in the batch are not noticed.
NeedsReadAgain(k) ==
    /\ k \in Records
    /\ slot_of[k] = NoSlot

NeedsRead(k) ==
    /\ k \in Records
    /\ slot_of[k] = NoSlot
    /\ \A w \in work : w.key # k

SkipMember ==
    /\ pc = "reserve" /\ todo # <<>>
    /\ ~NeedsRead(Head(todo))
    /\ todo' = Tail(todo)
    /\ UNCHANGED <<tables, pins, arena, pc, avoid, work, out>>

ReserveMember ==
    /\ pc = "reserve" /\ todo # <<>>
    /\ NeedsRead(Head(todo))
    /\ \E s \in Victims(avoid) : Reserve(s, Head(todo))
    /\ todo' = Tail(todo)
    /\ UNCHANGED <<pins, arena, pc, avoid, out>>

\* Mutant: try again for the same member instead of giving up.
AwaitVictim ==
    /\ pc = "reserve" /\ todo # <<>>
    /\ NeedsRead(Head(todo))
    /\ Victims(avoid) = {}
    /\ UNCHANGED vars

\* No victim: give up on the rest of the batch.
AbandonRest ==
    /\ pc = "reserve" /\ todo # <<>>
    /\ NeedsRead(Head(todo))
    /\ Victims(avoid) = {}
    /\ todo' = <<>>
    /\ UNCHANGED <<tables, pins, arena, pc, avoid, work, out>>

EndReserve ==
    /\ pc = "reserve" /\ todo = <<>>
    /\ pc' = IF work = {} THEN "idle" ELSE "read"
    /\ avoid' = IF work = {} THEN {} ELSE avoid
    /\ UNCHANGED <<tables, pins, arena, todo, work, out>>

(* Phase 2: the workers' positioned reads, each into its own slot.         *)

ReadBegin(w) ==
    /\ pc \in {"read", "load"} /\ w \in work
    /\ w.got = "wait"
    /\ Mark(w, "reading")
    /\ arena' = [arena EXCEPT ![w.slot] = Torn]
    /\ UNCHANGED <<tables, pins, pc, todo, avoid, out>>

ReadEnd(w) ==
    /\ pc \in {"read", "load"} /\ w \in work
    /\ w.got = "reading"
    /\ \/ Mark(w, "full") /\ arena' = [arena EXCEPT ![w.slot] = w.key]
       \/ Mark(w, "short") /\ UNCHANGED arena
    /\ UNCHANGED <<tables, pins, pc, todo, avoid, out>>

\* The barrier that ends the parallel loop.
JoinWorkers ==
    /\ pc = "read"
    /\ \A w \in work : w.got \in {"full", "short"}
    /\ pc' = "publish"
    /\ UNCHANGED <<tables, pins, arena, todo, avoid, work, out>>

(* Phase 3: publish in file order; only complete records become visible.   *)

Settled(w) == w.got \in {"published", "failed"}

Publish(w) ==
    /\ pc = "publish" /\ w \in work
    /\ ~Settled(w)
    /\ \A v \in work : ~Settled(v) => Offset[w.key] <= Offset[v.key]
    /\ \/ /\ Complete(w)
          /\ Fill(w)
          /\ clock' = clock + 1
          /\ used_at' = [used_at EXCEPT ![w.slot] = clock + 1]
          /\ last_use' = [last_use EXCEPT ![w.key] = clock + 1]
          /\ Mark(w, "published")
       \/ /\ w.got = "short"
          /\ Release(w)
          /\ record_of_slot' = [record_of_slot EXCEPT ![w.slot] = NoRecord]
          /\ Mark(w, "failed")
          /\ UNCHANGED <<slot_of, used_at, clock, last_use>>
    /\ UNCHANGED <<pins, arena, pc, todo, avoid, out>>

ReturnMany ==
    /\ pc = "publish"
    /\ \A w \in work : Settled(w)
    /\ pc' = "idle" /\ work' = {} /\ avoid' = {}
    /\ UNCHANGED <<tables, pins, arena, todo, out>>

-----------------------------------------------------------------------------
Members == Layers \X (Experts \cup {BadExpert})

Batches ==
    UNION {[1 .. n -> Members] : n \in 1 .. MaxBatch}

\* A batch names one layer: its members share their first component.
OneLayer(b) == \A i, j \in DOMAIN b : b[i][1] = b[j][1]

Call ==
    \/ \E l \in Layers, es \in SUBSET Experts : PinLayer(l, es)
    \/ \E k \in Members : GetHit(k) \/ GetMiss(k) \/ GetRefused(k)
    \/ \E b \in Batches : OneLayer(b) /\ GetMany(b)
    \/ Close

Worker == \E w \in work : ReadBegin(w) \/ ReadEnd(w)

Main ==
    \/ SkipMember \/ ReserveMember \/ AbandonRest \/ EndReserve
    \/ JoinWorkers
    \/ \E w \in work : Publish(w) \/ GetFinish(w)
    \/ ReturnMany

\* The process has exited, or the bound on calls is reached.
Halted ==
    /\ pc = "closed"
    /\ UNCHANGED vars

Next == Call \/ Worker \/ Main \/ Halted

Spec == Init /\ [][Next]_vars

\* The calling thread and the workers run: code between I/O does not block,
\* and pread returns.  Nothing obliges a caller to make another call.
FairSpec == Spec /\ WF_vars(Main) /\ WF_vars(Worker)

-----------------------------------------------------------------------------
(* Properties. *)

Held == {k \in Keys : slot_of[k] # NoSlot}

\* slot_of and key_of are each other's inverse at every step of every call,
\* so a hit can never be served from a slot that was reused (get, resident
\* and getmany all decide on slot_of alone or on both tables).
MapsInverse ==
    /\ \A k \in Keys : slot_of[k] # NoSlot => key_of[slot_of[k]] = k
    /\ \A s \in Slots : key_of[s] \in Keys => slot_of[key_of[s]] = s

\* A slot that names a key holds the complete bytes of that key's record and
\* its record pointer: no short or overlapping read is ever a hit.
ResidentExact ==
    \A s \in Slots :
        key_of[s] \in Keys => arena[s] = key_of[s] /\ record_of_slot[s] = key_of[s]

\* Between calls no slot is reserved: every path out of get and getmany,
\* failed reads included, gives its slots back.
NoLeakedSlot ==
    pc = "idle" => \A s \in Slots : key_of[s] # INFLIGHT

\* A key is dropped only when no slot was empty, never if it is pinned or
\* (with pins allocated) a member of the current batch, and only if every
\* other key that could have gone was used later (pick_victim).
EvictsOldest ==
    [][pc' # "closed" =>
        \A k \in Held : slot_of'[k] = NoSlot =>
            /\ \A s \in Slots : key_of[s] # EMPTY
            /\ k \notin pinned_of \cup avoid
            /\ \A j \in Held \ (pinned_of \cup avoid \cup {k}) :
                   last_use[k] < last_use[j]]_vars

\* What the invariants above rest on: who owns a slot, which keys are on their
\* way, what each phase has left of the work array, and that the stamps order
\* the residents.
Reserved ==
    \A s \in Slots :
        key_of[s] = INFLIGHT <=> \E w \in work : ~Settled(w) /\ w.slot = s

WorkDistinct ==
    \A v, w \in work : v.slot = w.slot \/ v.key = w.key => v = w

WorkAbsent ==
    \A w \in work : ~Settled(w) => slot_of[w.key] = NoSlot

WorkRead ==
    \A w \in work : w.got = "full" => arena[w.slot] = w.key

Phases ==
    /\ pc \in {"idle", "closed"} => work = {} /\ avoid = {}
    /\ pc \in {"reserve", "read", "load"} => \A w \in work : ~Settled(w)
    /\ pc = "publish" => \A w \in work : w.got \notin {"wait", "reading"}
    /\ pc = "load" => \A v, w \in work : v = w
    /\ pc = "load" => avoid = {}

Stamps ==
    /\ \A s \in Slots : used_at[s] <= clock
    /\ \A s, t \in Slots :
           /\ key_of[s] \in Keys /\ key_of[t] \in Keys
           /\ used_at[s] = used_at[t]
           => s = t
    /\ \A k \in Keys : slot_of[k] # NoSlot => last_use[k] = used_at[slot_of[k]]
    /\ pc = "load" => \A w \in work :
           /\ used_at[w.slot] = clock
           /\ \A t \in Slots \ {w.slot} : used_at[t] < clock

\* The inductive invariant.
CacheInv ==
    /\ TypeOK /\ MapsInverse /\ ResidentExact
    /\ Reserved /\ WorkDistinct /\ WorkAbsent /\ WorkRead
    /\ Phases /\ Stamps

\* The cache implements ExactCache: the keys the tables call resident, the
\* unsettled entries of the work array and the bytes behind the pointers that
\* get handed out behave as a bounded store that only serves exact records.
Exact == INSTANCE ExactCache WITH
    NoKey    <- NoRecord,
    resident <- Held,
    loading  <- {w.key : w \in {v \in work : ~Settled(v)}},
    pinned   <- pinned_of,
    served   <- IF out = NoOut THEN NoRecord ELSE arena[out.slot]

ImplementsExact == Exact!Spec

\* Every call returns: the barrier, a batch cut short and a failed read never
\* leave the calling thread inside the cache.
CallsReturn == (pc # "idle") ~> (pc \in {"idle", "closed"})
=============================================================================
