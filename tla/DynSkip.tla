------------------------------- MODULE DynSkip -------------------------------
(***************************************************************************)
(* Dynamic expert skipping (src/moe_dynamic_skip.c) under the generator it *)
(* is linked into (src/generate.c, src/generate_vl.c).  The dispatcher is  *)
(* told a layer and nothing else: it infers the token of a call from the   *)
(* order of the calls and from the ids of the prompt, which it reads from  *)
(* a file of its own.                                                      *)
(*                                                                         *)
(* A token is what the classifier can tell of its id, and its owner: what  *)
(* the chat template put it there for.  A weight is a small integer; a     *)
(* threshold is a number of Unit-ths of the weights' sum.                  *)
(***************************************************************************)
EXTENDS Integers, Sequences, FiniteSets, SequencesExt

CONSTANTS
    Layers,         \* MoE layers, 1 .. Layers
    Answer,         \* tokens decoded after the prefill
    TopK, Weights,  \* routed experts of a token, and their weights
    Unit,
    Dialogues,      \* sequences of turns [role, body], body of "text" and "image"
    PolicyFiles     \* sequences of lines [family, layer, threshold, min_keep]

VARIABLES
    prompt,     \* what the generator prefills
    file, masked, \* KVL_MOE_DYNSKIP_POLICY, or <<>>; is KVL_MOE_MASK set
    ids,        \* KVL_MOE_DYNSKIP_PROMPT_IDS, or <<>> if there is no such file
    runtime,    \* g_runtime_state
    prefill,    \* g_prefill_layer, g_prefill_pos, g_prefill_active
    at,         \* token and layer of the next call; tokens beyond the prompt are decoded
    last,       \* the call before
    ended

vars == <<prompt, file, masked, ids, runtime, prefill, at, last, ended>>

\* What the proofs take of the constants: the router and its layers are those of
\* the model, a weight is not negative, and only a user shows an image.
Parameters ==
    /\ Layers \in Nat \ {0, 1} /\ TopK \in Nat \ {0} /\ Unit \in Nat \ {0}
    /\ Weights \subseteq Nat
    /\ Dialogues \subseteq Seq([role : {"system", "user", "assistant"},
                               body : Seq({"text", "image"})])
    /\ \A d \in Dialogues : \A i \in 1 .. Len(d) : \A j \in 1 .. Len(d[i].body) :
           d[i].body[j] = "image" => d[i].role = "user"
    /\ PolicyFiles \subseteq Seq([family : STRING, layer : Int, threshold : Int, min_keep : Int])

-----------------------------------------------------------------------------
(* The prompt: kimi_tokenizer.py and the image placeholders. *)

Token(id, owner) == [id |-> id, owner |-> owner]
Control(names)   == [i \in 1 .. Len(names) |-> Token(names[i], "control")]

Image == Control(<<"media_start", "other", "media_content">>)
         \o <<Token("pad", "media"), Token("pad", "media")>> \o Control(<<"media_end">>)

Body(turn) ==
    FlattenSeq([i \in 1 .. Len(turn.body) |->
        IF turn.body[i] = "image" THEN Image
        ELSE <<Token("other", IF turn.role = "user" THEN "content" ELSE "control")>>])

Header(role) == Control(<<role, "other", "middle">>)

Turn(turn) == Header(turn.role) \o Body(turn) \o Control(<<"end">>)

\* The turns, and the header of the answer.
PromptOf(dialogue) ==
    FlattenSeq([i \in 1 .. Len(dialogue) |-> Turn(dialogue[i])]) \o Header("assistant")

-----------------------------------------------------------------------------
(* kvl_moe_dynskip_classify_prompt: where the scan is after a token, and the *)
(* family of a token met there.                                              *)

After(where, id) ==
    IF id = "system" THEN "system"
    ELSE IF id = "user" /\ where # "system" THEN "header"
    ELSE CASE where = "system" /\ id = "end"         -> "outside"
           [] where = "header" /\ id = "middle"      -> "body"
           [] where = "body"   /\ id = "media_start" -> "media"
           [] where = "media"  /\ id = "media_end"   -> "body"
           [] where = "body"   /\ id = "end"         -> "outside"
           [] where = "outside" /\ id = "assistant"  -> "assistant"
           [] OTHER                                  -> where

\* Mutant: the tokens around an image are taken for the user's text.
WrapperIsContent(where, id) ==
    IF id = "pad" /\ where \in {"media", "body", "outside"} THEN "media"
    ELSE IF where = "body" /\ id \notin {"system", "user", "end"} THEN "content"
    ELSE "control"

FamilyAt(where, id) ==
    IF id = "pad" /\ where \in {"media", "body", "outside"} THEN "media"
    ELSE IF where = "body" /\ id \notin {"system", "user", "end", "media_start"} THEN "content"
    ELSE "control"

Families(tokens) ==
    LET where[i \in 0 .. Len(tokens)] ==
            IF i = 0 THEN "outside" ELSE After(where[i - 1], tokens[i].id)
    IN  [i \in 1 .. Len(tokens) |-> FamilyAt(where[i - 1], tokens[i].id)]

-----------------------------------------------------------------------------
(* The policy. *)

\* kvl_moe_dynskip_set_policy takes the line (its limits of 256 are left out).
Valid(line) ==
    /\ line.family \in {"content", "media"} /\ line.layer >= 1
    /\ line.threshold \in 0 .. Unit /\ line.min_keep >= 1

\* kvl_moe_dynskip_load_policy: every line is valid and one was active.
Loads == /\ \A i \in 1 .. Len(file) : Valid(file[i])
         /\ \E i \in 1 .. Len(file) : file[i].threshold > 0

\* The last line for a family and a layer counts.
Policy(family, layer) ==
    LET lines == {i \in 1 .. Len(file) : file[i].family = family /\ file[i].layer = layer}
    IN  IF lines = {} THEN [threshold |-> 0, min_keep |-> 0]
        ELSE [threshold |-> file[Max(lines)].threshold, min_keep |-> file[Max(lines)].min_keep]

Enabled == file # <<>>

Sum(w) ==
    LET sum[i \in 0 .. TopK] == IF i = 0 THEN 0 ELSE sum[i - 1] + w[i]
    IN  sum[TopK]

\* kvl_moe_dynskip_apply_policy: the routes that reach the threshold, and the
\* heaviest of the others up to min_keep, the first of equals.
Kept(family, layer, w) ==
    LET routes == 1 .. TopK
        policy == Policy(family, layer)
        heavy  == {i \in routes : w[i] * Unit >= policy.threshold * Sum(w)}
        before(i, j) == w[i] > w[j] \/ (w[i] = w[j] /\ i < j)
        rank(i) == Cardinality({j \in routes \ heavy : before(j, i)})
    IN  IF family = "control" \/ policy.threshold = 0 \/ Sum(w) = 0 THEN routes
        ELSE heavy \cup {i \in routes \ heavy : Cardinality(heavy) + rank(i) < policy.min_keep}

-----------------------------------------------------------------------------
Idle == [layer |-> 0, token |-> 0, family |-> "none", weights |-> <<>>, kept |-> 1 .. TopK]

Init ==
    /\ prompt \in {PromptOf(d) : d \in Dialogues}
    /\ ids \in {PromptOf(d) : d \in Dialogues} \cup {<<>>}
    /\ file \in PolicyFiles \cup {<<>>} /\ masked \in BOOLEAN
    /\ runtime = 0 /\ prefill = [layer |-> 0, pos |-> 0, active |-> FALSE]
    /\ at = [layer |-> 1, token |-> 1] /\ last = Idle /\ ended = "no"

\* runtime_init lets an active policy through.
Allowed == Loads /\ ~masked /\ ids # <<>>

\* runtime_init, at the first call.
Started ==
    IF runtime # 0 \/ ~Enabled THEN prefill ELSE [layer |-> 1, pos |-> 0, active |-> TRUE]

\* next_family expects the call.
Expected(p) == p.active => at.layer = p.layer

Advanced(p) ==
    IF ~p.active THEN p
    ELSE IF p.pos + 1 < Len(ids) THEN [p EXCEPT !.pos = @ + 1]
    ELSE [layer |-> p.layer + 1, pos |-> 0, active |-> p.layer + 1 <= Layers]

FamilyNow(p) == IF p.active THEN Families(ids)[p.pos + 1] ELSE "control"

Decoding == at.token > Len(prompt)

\* The prefill goes through the tokens of a layer, decoding through the layers
\* of a token.
Forward ==
    IF ~Decoding
    THEN IF at.token < Len(prompt) THEN [at EXCEPT !.token = @ + 1]
         ELSE IF at.layer < Layers THEN [layer |-> at.layer + 1, token |-> 1]
         ELSE [layer |-> 1, token |-> at.token + 1]
    ELSE IF at.layer < Layers THEN [at EXCEPT !.layer = @ + 1]
         ELSE [layer |-> 1, token |-> at.token + 1]

Running == ended = "no" /\ at.token <= Len(prompt) + Answer

\* kvl_moe_token_q8_dynskip_auto for a token whose routed experts are served.
Call ==
    /\ Running
    /\ Enabled => /\ runtime = 1 \/ Allowed
                  /\ Expected(Started)
    /\ \E w \in [1 .. TopK -> Weights] :
          last' = LET family == FamilyNow(Started)
                  IN  [layer |-> at.layer, token |-> at.token, family |-> family,
                       weights |-> w, kept |-> Kept(family, at.layer, w)]
    /\ runtime' = 1 /\ prefill' = Advanced(Started) /\ at' = Forward
    /\ UNCHANGED <<prompt, file, masked, ids, ended>>

\* The call is refused, or an expert cannot be read; the generator exits.
Fail ==
    /\ Running
    /\ ended' = IF Enabled /\ runtime = 0 /\ ~Allowed THEN "refused"
               ELSE IF Enabled /\ ~Expected(Started) THEN "order" ELSE "read"
    /\ runtime' = IF ended' = "refused" THEN 2 ELSE 1
    /\ UNCHANGED <<prompt, file, masked, ids, prefill, at, last>>

Next == Call \/ Fail

Spec == Init /\ [][Next]_vars

-----------------------------------------------------------------------------
(* Properties. *)

Owner == IF last.token <= Len(prompt) THEN prompt[last.token].owner ELSE "control"

Skipped == (1 .. TopK) \ last.kept

\* Skipping spares what the template protects and fails closed: told the prompt
\* that is run, the dispatcher never objects to the order of the calls and skips
\* for a call only under the family its token was written as, though it is
\* never told the token; told a prompt of another length, the prefill does not
\* end.  No route is skipped in favour of a lighter one, and as many as its
\* line asks for are kept (spec/KIMI_DYNAMIC_EXPERT_SKIP.md, "Runtime
\* semantics" and "Token families").
SkipsAsIntended ==
    /\ ids = prompt => /\ ended # "order"
                       /\ (Enabled /\ last # Idle) => last.family = Owner
    /\ Enabled /\ Len(ids) # Len(prompt) => ~Decoding
    /\ Skipped # {} =>
          /\ Enabled /\ (ids = prompt => Owner # "control")
          /\ \A i \in Skipped, j \in last.kept : last.weights[i] <= last.weights[j]
          /\ last.kept # {}
          /\ Cardinality(last.kept) >= Policy(last.family, last.layer).min_keep
=============================================================================
