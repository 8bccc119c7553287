----------------------------- MODULE ExactCache -----------------------------
(***************************************************************************)
(* What the expert cache promises its callers, without slots, stamps or    *)
(* phases: at most NSlots records are resident or being loaded, only       *)
(* unpinned ones give way, only stored records are loaded, and the bytes   *)
(* served for a key are those of a resident record.                        *)
(***************************************************************************)
EXTENDS Naturals, FiniteSets

CONSTANTS Keys, Records, NSlots, NoKey

VARIABLES
    resident,   \* keys a call may be served from
    loading,    \* keys whose read is under way
    pinned,     \* keys that may not be dropped
    served      \* the key whose bytes the last get returned, or NoKey

vars == <<resident, loading, pinned, served>>

Init == resident = {} /\ loading = {} /\ pinned = {} /\ served = NoKey

Pin ==
    /\ pinned' \in SUBSET Keys
    /\ served' = NoKey
    /\ UNCHANGED <<resident, loading>>

Serve(k) ==
    /\ k \in resident
    /\ served' = k
    /\ UNCHANGED <<resident, loading, pinned>>

Decline ==
    /\ served' = NoKey
    /\ UNCHANGED <<resident, loading, pinned>>

\* Begin to load k, dropping at most one unpinned record to make room.
Load(k, dropped) ==
    /\ k \in Records \ (resident \cup loading)
    /\ dropped \subseteq resident \ pinned
    /\ Cardinality(dropped) <= 1
    /\ resident' = resident \ dropped
    /\ loading' = loading \cup {k}
    /\ Cardinality(resident') + Cardinality(loading') <= NSlots
    /\ served' = NoKey
    /\ UNCHANGED pinned

Arrive(k) ==
    /\ k \in loading
    /\ loading' = loading \ {k}
    /\ resident' = resident \cup {k}
    /\ served' \in {NoKey, k}
    /\ UNCHANGED pinned

Lose(k) ==
    /\ k \in loading
    /\ loading' = loading \ {k}
    /\ served' = NoKey
    /\ UNCHANGED <<resident, pinned>>

Close ==
    /\ loading = {}
    /\ resident' = {} /\ pinned' = {} /\ served' = NoKey
    /\ UNCHANGED loading

Next ==
    \/ Pin \/ Decline \/ Close
    \/ \E k \in Keys :
           \/ Serve(k) \/ Arrive(k) \/ Lose(k)
           \/ \E dropped \in SUBSET resident : Load(k, dropped)

Spec == Init /\ [][Next]_vars
=============================================================================
