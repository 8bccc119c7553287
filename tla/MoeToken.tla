------------------------------ MODULE MoeToken ------------------------------
(***************************************************************************)
(* One generation with the text generator (src/generate.c) of the GGUF Q8  *)
(* builds: the order in which it walks layers and tokens, the MoE step of  *)
(* src/gguf_q8_moe.c that it calls for each, and under that step the       *)
(* expert cache.  With layerpins the step also detects that decoding has   *)
(* begun and pins the layer's heaviest routes.                             *)
(*                                                                         *)
(* Every action on the cache is one of ExpertCache's, so this is a client  *)
(* of that module.  A route is what the router returns: distinct experts   *)
(* in the order of their biased scores, and their unbiased weights.        *)
(***************************************************************************)
EXTENDS ExpertCache

CONSTANTS
    LastLayer,      \* routed layers are 1 .. LastLayer; layer 0 is dense
    TopK,           \* experts a token is routed to
    PinCount,       \* LAYER_PIN_COUNT
    Routes,         \* what the router may return
    PromptLen,      \* prompt_n
    MaxNew          \* max_new

Positions == 1 .. TopK

ASSUME MoeAssumption ==
    /\ LastLayer \in Nat \ {0, 1}
    /\ Layers = 0 .. LastLayer
    /\ TopK \in Nat \ {0} /\ TopK <= MaxBatch
    /\ PinCount \in Nat \ {0}
    /\ PromptLen \in Nat \ {0} /\ MaxNew \in Nat \ {0}

ASSUME RoutesAssumption ==
    /\ Routes \subseteq [id : [Positions -> Experts], weight : [Positions -> Nat]]
    /\ \A rt \in Routes : \A i, j \in Positions : rt.id[i] = rt.id[j] => i = j

VARIABLES
    layerpins,      \* the layer-pin build, and
    hysteresis,     \* KVL_LAYERPIN_HYSTERESIS
    stage,          \* "prefill", "sample", "decode", "done" or "failed"
    layer, tok,     \* where the walk is
    generated,      \* tokens printed
    last_layer,     \* g_layerpin_last_layer
    step,           \* inside a MoE step: "route", "batch" or "gets"
    route, next,    \* the step's route; the position it will get next
    short           \* history: a read for this step came short

walk    == <<layerpins, hysteresis, stage, layer, tok, generated>>
moe     == <<last_layer, step, route, next, short>>
moevars == <<vars, walk, moe>>

NoRoute == [id |-> <<>>, weight |-> <<>>]

MoeTypeOK ==
    /\ layerpins \in BOOLEAN /\ hysteresis \in BOOLEAN
    /\ stage \in {"prefill", "sample", "decode", "done", "failed"}
    /\ layer \in 1 .. LastLayer /\ tok \in 1 .. PromptLen
    /\ generated \in 0 .. MaxNew
    /\ last_layer \in -1 .. LastLayer
    /\ step \in {"route", "batch", "gets"}
    /\ route \in Routes \cup {NoRoute}
    /\ next \in 1 .. TopK + 1
    /\ short \in BOOLEAN

MoeInit ==
    /\ Init
    /\ layerpins \in BOOLEAN /\ hysteresis \in (IF layerpins THEN BOOLEAN ELSE {FALSE})
    /\ stage = "prefill" /\ layer = 1 /\ tok = 1 /\ generated = 0
    /\ last_layer = -1
    /\ step = "route" /\ route = NoRoute /\ next = 1 /\ short = FALSE

Walking == stage \in {"prefill", "decode"}
Member(i) == <<layer, route.id[i]>>
Batch == [i \in Positions |-> Member(i)]

-----------------------------------------------------------------------------
(* Pins. *)

\* Mutant: the requirement forgets the batch that is not pinned.
NeededForPins == LastLayer * PinCount

\* needed_slots of pin_routes.
Needed == LastLayer * PinCount + TopK

\* Mutant: decoding is taken to begin at any call for layer 1.
AnyFirstLayer == layer = 1

\* layerpin_phase_update: the call for layer 1 that follows the last layer's.
DecodeBegins == last_layer = LastLayer /\ layer = 1

Pinning == layerpins /\ (pins_on \/ DecodeBegins)

\* The n heaviest of some positions of rt; ties go to the earlier position.
Heaviest(rt, some, n) ==
    LET heavier(i, j) == \/ rt.weight[i] > rt.weight[j]
                         \/ rt.weight[i] = rt.weight[j] /\ i < j
    IN  {i \in some : Cardinality({j \in some : heavier(j, i)}) < n}

PinMax == IF TopK < PinCount THEN TopK ELSE PinCount

\* Mutant: the layer's pins are cleared before they are looked at.
KeptNone(rt) == {}

\* With hysteresis, old pins of this layer that are routed again come first.
Kept(rt) ==
    LET old == {i \in Positions : <<layer, rt.id[i]>> \in pinned_of}
    IN  IF hysteresis /\ pins_on
        THEN {rt.id[i] : i \in Heaviest(rt, old, PinMax)} ELSE {}

\* The rest are the heaviest of the other routes.
PinSet(rt) ==
    LET others == {i \in Positions : rt.id[i] \notin Kept(rt)}
    IN  Kept(rt) \cup
        {rt.id[i] : i \in Heaviest(rt, others, PinMax - Cardinality(Kept(rt)))}

-----------------------------------------------------------------------------
(* The MoE step. *)

\* The phase detector, the router and pin_routes.
RouteToken(rt) ==
    /\ Walking /\ step = "route"
    /\ last_layer' = IF layerpins THEN layer ELSE last_layer
    /\ route' = rt /\ next' = 1 /\ short' = FALSE
    /\ \/ /\ ~Pinning
          /\ step' = "batch"
          /\ UNCHANGED <<vars, walk>>
       \/ /\ Pinning /\ NSlots >= Needed
          /\ PinLayer(layer, PinSet(rt))
          /\ step' = "batch"
          /\ UNCHANGED walk
       \/ /\ Pinning /\ NSlots < Needed
          /\ PinLayer(0, {})
          /\ stage' = "failed"
          /\ UNCHANGED <<step, layerpins, hysteresis, layer, tok, generated>>

\* getmany for the whole route; its result is ignored.
FetchBatch ==
    /\ Walking /\ step = "batch"
    /\ GetMany(Batch)
    /\ step' = "gets"
    /\ UNCHANGED <<walk, last_layer, route, next, short>>

\* Inside getmany, and the reads of both calls.
CacheRuns ==
    /\ \/ SkipMember \/ ReserveMember \/ AbandonRest \/ EndReserve
       \/ JoinWorkers \/ ReturnMany
       \/ Worker
       \/ \E w \in work : Publish(w)
    /\ short' = (short \/ \E w \in work' : w.got = "failed")
    /\ UNCHANGED <<walk, last_layer, step, route, next>>

\* get for one routed expert: served at once, ...
TakeHit ==
    /\ Walking /\ step = "gets" /\ next \in Positions
    /\ GetHit(Member(next))
    /\ next' = next + 1
    /\ UNCHANGED <<walk, last_layer, step, route, short>>

\* ... after a read, ...
TakeMiss ==
    /\ Walking /\ step = "gets" /\ next \in Positions
    /\ GetMiss(Member(next))
    /\ UNCHANGED <<walk, moe>>

Abort == stage' = "failed" /\ UNCHANGED <<layerpins, hysteresis, layer, tok, generated>>

TakeRead(w) ==
    /\ Walking /\ step = "gets"
    /\ GetFinish(w)
    /\ \/ Complete(w) /\ next' = next + 1 /\ UNCHANGED <<walk, short>>
       \/ ~Complete(w) /\ Abort /\ short' = TRUE /\ UNCHANGED next
    /\ UNCHANGED <<last_layer, step, route>>

\* ... or not at all.
TakeRefused ==
    /\ Walking /\ step = "gets" /\ next \in Positions
    /\ GetRefused(Member(next))
    /\ Abort
    /\ UNCHANGED moe

-----------------------------------------------------------------------------
(* The walk. *)

\* Mutant: the loop over the layers runs once too often.
OneLayerTooMany == layer <= LastLayer

MoreLayers == layer < LastLayer

\* prefill_prompt goes layer by layer over the prompt, forward_token over the
\* layers of one token; logits follow the last of either.
EndToken ==
    /\ Walking /\ step = "gets" /\ pc = "idle" /\ next = TopK + 1
    /\ step' = "route"
    /\ \/ /\ stage = "prefill" /\ tok < PromptLen
          /\ tok' = tok + 1 /\ UNCHANGED <<layer, stage>>
       \/ /\ stage = "decode" \/ tok = PromptLen
          /\ MoreLayers
          /\ layer' = layer + 1 /\ tok' = 1 /\ UNCHANGED stage
       \/ /\ stage = "decode" \/ tok = PromptLen
          /\ ~MoreLayers
          /\ stage' = "sample" /\ layer' = 1 /\ tok' = 1
    /\ UNCHANGED <<vars, layerpins, hysteresis, generated, last_layer, route, next, short>>

\* Print a token, which may be a stop token, and go on unless it is the last.
Sample ==
    /\ stage = "sample"
    /\ generated' = generated + 1
    /\ \/ stage' = "done"
       \/ generated + 1 < MaxNew /\ stage' = "decode"
    /\ UNCHANGED <<vars, layerpins, hysteresis, layer, tok, moe>>

\* What is not the cache's doing: a trunk tensor does not load, the attention
\* fails, or a record has not the sizes of the model's matrices.
StepFails ==
    /\ Walking /\ pc = "idle" /\ step # "batch"
    /\ Abort
    /\ UNCHANGED <<vars, moe>>

\* main closes the cache after the loop.
Leave ==
    /\ stage = "done"
    /\ Close
    /\ UNCHANGED <<walk, moe>>

Ended ==
    /\ stage = "failed" \/ pc = "closed"
    /\ UNCHANGED moevars

Proceed ==
    \/ \E rt \in Routes : RouteToken(rt)
    \/ FetchBatch \/ CacheRuns \/ TakeHit \/ TakeMiss \/ TakeRefused
    \/ \E w \in work : TakeRead(w)
    \/ EndToken \/ Sample \/ Leave

MoeNext == Proceed \/ StepFails \/ Ended

MoeSpec == MoeInit /\ [][MoeNext]_moevars

\* One thread that never waits but for its reads.
MoeFairSpec == MoeSpec /\ WF_moevars(Proceed)

-----------------------------------------------------------------------------
(* Properties. *)

\* A get for a stored expert is never refused for want of a slot, whatever the
\* size of the cache and whatever is pinned: pins are only set in a cache that
\* has the slots pin_routes asks for.
GetServed ==
    Walking /\ step = "gets" /\ pc = "idle" =>
        \A i \in next .. TopK :
            Member(i) \in Records => Resident(Member(i)) \/ Victims({}) # {}

\* With pins, a batch without a short read makes every following get a hit.
BatchHits ==
    pins_on /\ step = "gets" /\ pc = "idle" /\ ~short /\ Walking =>
        \A i \in next .. TopK : Member(i) \in Records => Resident(Member(i))

\* Pins are off in the whole prefill and on from the first batch of decoding:
\* the detector sees the one transition (the comment above it).
PinsFollowPhase ==
    /\ stage = "prefill" => ~pins_on
    /\ stage = "decode" /\ step # "route" => pins_on = layerpins

\* The step routes with pins on.
RoutesPinned == pins_on' /\ step = "route" /\ step' = "batch"

PinsOf(l) == {e \in Experts : <<l, e>> \in pinned_of}
Routed(rt) == {rt.id[i] : i \in Positions}

\* Once pins are on, every routing renews the pins of its own layer only, and
\* leaves it as many as can be, all of them routed now.  A new pin displaces an old one that is
\* still routed only without hysteresis, and never goes to a lighter expert
\* while a heavier one is left unpinned.
PinsReplaced ==
    [][pc' # "closed" /\ (pinned_of' # pinned_of \/ RoutesPinned) =>
        /\ \A l \in Layers \ {layer} : PinsOf(l)' = PinsOf(l)
        /\ PinsOf(layer)' \subseteq Routed(route')
        /\ Cardinality(PinsOf(layer)') = PinMax
        /\ hysteresis => PinsOf(layer) \cap Routed(route') \subseteq PinsOf(layer)'
        /\ \A i, j \in Positions :
               /\ route'.id[i] \in PinsOf(layer)' \ PinsOf(layer)
               /\ route'.id[j] \notin PinsOf(layer)'
               => route'.weight[i] >= route'.weight[j]]_moevars

\* The inductive invariant behind GetServed and PinsFollowPhase: where the walk
\* is when the cache is inside a call, what the detector has seen, and how many
\* pins there can be.
Calls ==
    /\ step # "route" => route \in Routes
    /\ pc \notin {"idle", "closed"} => Walking /\ step = "gets"
    /\ pc = "closed" => stage = "done"
    /\ pc = "load" => next \in Positions
    /\ Walking \/ stage = "sample" => generated < MaxNew

LastSeen ==
    IF step # "route" THEN layer
    ELSE IF stage = "prefill" /\ tok > 1 THEN layer
    ELSE IF layer > 1 THEN layer - 1
    ELSE IF stage = "prefill" THEN -1 ELSE LastLayer

Detector ==
    /\ stage = "prefill" => ~pins_on /\ generated = 0
    /\ stage = "decode" => generated > 0
    /\ stage = "decode" /\ (step # "route" \/ layer > 1) => pins_on = layerpins
    /\ stage = "sample" => step = "route" /\ layer = 1
    /\ stage = "sample" /\ generated > 0 => pins_on = layerpins
    /\ layerpins /\ stage \notin {"done", "failed"} => last_layer = LastSeen

PinsFit ==
    /\ pins_on => layerpins
    /\ ~pins_on => pinned_of = {}
    /\ PinsOf(0) = {}
    /\ \A l \in Layers : IsFiniteSet(PinsOf(l)) /\ Cardinality(PinsOf(l)) <= PinCount
    /\ pins_on /\ stage # "failed" => NSlots >= Needed

MoeInv == MoeTypeOK /\ Calls /\ Detector /\ PinsFit

\* A generation ends.
GenerationEnds == <>(stage = "failed" \/ pc = "closed")
=============================================================================
