------------------------------- MODULE Decode -------------------------------
(***************************************************************************)
(* Three programs that decode with the same model and the same compressed  *)
(* attention states (src/mla_compressed_state.c): the text generator       *)
(* (src/generate.c) at temperature zero, the block verifier                *)
(* (src/exact_block_verify.c) and the self-speculation lab                 *)
(* (src/self_spec_sweep.c).                                                *)
(*                                                                         *)
(* A state is the token each of its rows was computed from; a row depends  *)
(* on the rows before it, so two states agree when these tokens do.  The   *)
(* layers of the model advance together, or the program exits, and are one *)
(* state here.  The exact model is a choice of the best next token after a *)
(* text; what a draft proposes, from quantised states and with layers left *)
(* out, is any token.                                                      *)
(***************************************************************************)
EXTENDS Naturals, Sequences

CONSTANTS
    Tokens, Stops, None,    \* token ids; EOS_ID and IM_END_ID; a row not written
    Prompt,                 \* the ids of prompt.ids
    K,                      \* block_tokens, or max_new of the generator
    NMasks,                 \* draft masks the lab tries
    Models, Best(_, _)      \* exact models: the argmax of the logits after a text

Start == Len(Prompt)
Rows  == 1 .. Start + K + 1

ASSUME DecodeAssumption ==
    /\ Prompt \in Seq(Tokens) /\ Prompt # <<>> /\ None \notin Tokens /\ Stops \subseteq Tokens
    /\ K \in Nat \ {0} /\ NMasks \in Nat
    /\ \A m \in Models, n \in Rows : \A s \in [1 .. n -> Tokens] : Best(m, s) \in Tokens

VARIABLES
    program, model,
    stage,      \* what main does next
    exit,       \* why it ended: "no" while it runs
    base,       \* states after the prefill
    serial,     \* states of the baseline, or of the generator
    target,     \* states of the block that is verified
    drafted,    \* rows in the draft's quantised states
    best,       \* argmax of the baseline's last logits
    said,       \* the baseline's tokens, or those the generator printed
    draft,      \* the block
    next,       \* the best token after each token of the block
    accept,     \* tokens of it that were accepted
    mask,       \* masks tried so far
    differs     \* the block was seen to differ from the baseline

vars == <<program, model, stage, exit, base, serial, target, drafted, best, said, draft,
          next, accept, mask, differs>>

-----------------------------------------------------------------------------
(* Attention states. *)

\* The generator never writes the row of its last token.
Capacity(p) == IF p = "text" THEN Start + K ELSE Start + K + 1

Fresh == [row |-> [p \in Rows |-> None], len |-> 0]

\* Only the rows in use are copied.
Clone(s) == [row |-> [p \in Rows |-> IF p <= s.len THEN s.row[p] ELSE None], len |-> s.len]

\* The text the row before position n attends to.
Context(s, n) == [p \in 1 .. n |-> s.row[p]]
NextToken(s)  == Best(model, Context(s, s.len))

\* A block of n tokens is accepted at the end of the state, and if it has room.
Takes(len, position, n) == len = position /\ position + n <= Capacity(program)

Fed(s, block) ==
    [row |-> [p \in Rows |-> IF p > s.len /\ p <= s.len + Len(block)
                             THEN block[p - s.len] ELSE s.row[p]],
     len |-> s.len + Len(block)]

\* Rows beyond the new length stay where they are.
Truncated(s, n) == [s EXCEPT !.len = n]

Same(s, t) == s.len = t.len /\ \A p \in 1 .. s.len : s.row[p] = t.row[p]

-----------------------------------------------------------------------------
\* The labs refuse a block of one token.
Init ==
    /\ model \in Models
    /\ program \in {"text"} \union (IF K >= 2 THEN {"block", "spec"} ELSE {})
    /\ stage = "prefill" /\ exit = "no"
    /\ base = Fresh /\ serial = Fresh /\ target = Fresh /\ drafted = 0
    /\ best = None /\ said = <<>> /\ draft = <<>> /\ next = <<>>
    /\ accept = 0 /\ mask = 0 /\ differs = FALSE

Go(to) == stage' = to /\ UNCHANGED <<program, model, exit>>
Exit(why) == stage' = "exited" /\ exit' = why /\ UNCHANGED <<program, model>>

block == <<target, drafted, draft, next, accept, mask, differs>>

\* prefill_prompt over the whole prompt; the baseline gets a copy.
Prefill ==
    /\ stage = "prefill" /\ Takes(0, 0, Start)
    /\ base' = Fed(Fresh, Prompt) /\ serial' = Clone(base')
    /\ best' = NextToken(base')
    /\ Go("pick") /\ UNCHANGED <<said, block>>

\* The next token of the baseline; the generator prints it, and ends at a stop
\* token or its limit.
Pick ==
    /\ stage = "pick"
    /\ said' = Append(said, best)
    /\ IF program = "text" /\ (best \in Stops \/ Len(said) + 1 = K)
       THEN Exit("done") ELSE Go("feed")
    /\ UNCHANGED <<base, serial, best, block>>

\* forward_token; the lab's baseline is one token longer than the block.
Feed ==
    /\ stage = "feed" /\ Takes(serial.len, Start + Len(said) - 1, 1)
    /\ serial' = Fed(serial, <<said[Len(said)]>>)
    /\ best' = NextToken(serial')
    /\ Go(IF \/ program = "block" /\ Len(said) = K
             \/ program = "spec" /\ Len(said) = K + 1
          THEN "mask" ELSE "pick")
    /\ UNCHANGED <<base, said, block>>

\* What the model says after each token of the block that state s ends with.
NextIds(s) == [t \in 1 .. K |-> Best(model, Context(s, s.len - K + t))]

\* The verifier feeds the baseline's own tokens as a block and compares the next
\* tokens, the states, and the states without the last token.
VerifyBlock ==
    /\ stage = "mask" /\ program = "block" /\ Takes(base.len, Start, K)
    /\ draft' = said /\ target' = Fed(Clone(base), said)
    /\ next' = NextIds(target')
    /\ differs' = \/ next' # Tail(said) \o <<best>>
                  \/ ~Same(serial, target')
                  \/ ~Same(Truncated(serial, Start + K - 1), Truncated(target', Start + K - 1))
    /\ Exit(IF differs' THEN "FAIL" ELSE "done")
    /\ UNCHANGED <<base, serial, best, said, drafted, accept, mask>>

\* The lab starts a draft from the prefilled states.
NextMask ==
    /\ stage = "mask" /\ program = "spec" /\ mask < NMasks
    /\ target' = Clone(base) /\ drafted' = base.len
    /\ draft' = <<NextToken(base)>>
    /\ Go("draft")
    /\ UNCHANGED <<base, serial, best, said, next, accept, mask, differs>>

\* draft_forward_q8_lab, K - 1 times.
Draft ==
    /\ stage = "draft" /\ Takes(drafted, Start + Len(draft) - 1, 1)
    /\ drafted' = drafted + 1
    /\ \E token \in Tokens : draft' = Append(draft, token)
    /\ Go(IF Len(draft) + 1 = K THEN "verify" ELSE "draft")
    /\ UNCHANGED <<base, serial, best, said, target, next, accept, mask, differs>>

\* Mutant: a draft is compared with the token it was to be followed by.
AcceptedLate(a, block_, nexts) ==
    /\ \A t \in 2 .. a : block_[t] = nexts[t]
    /\ a < K => block_[a + 1] # nexts[a + 1]

\* The first a drafts, and no more, are what the model said after the one before.
Accepted(a, block_, nexts) ==
    /\ \A t \in 2 .. a : block_[t] = nexts[t - 1]
    /\ a < K => block_[a + 1] # nexts[a]

\* exact_block_lab over the draft, and what is rejected is taken back.
Verify ==
    /\ stage = "verify" /\ Takes(target.len, Start, K)
    /\ LET fed == Fed(target, draft)
       IN  /\ next' = NextIds(fed)
           /\ \E a \in 1 .. K :
                 /\ Accepted(a, draft, next') /\ accept' = a
                 /\ target' = IF a < K THEN Truncated(fed, Start + a) ELSE fed
    /\ Go("commit")
    /\ UNCHANGED <<base, serial, best, said, drafted, draft, mask, differs>>

\* Mutant: the draft that was rejected is kept.
DraftKept == draft[IF accept < K THEN accept + 1 ELSE K]

Correction == next[accept]

\* The model's own token is fed after the accepted ones; then the lab compares
\* with the tokens and the states of its baseline.
Commit ==
    /\ stage = "commit" /\ Takes(target.len, Start + accept, 1)
    /\ Start + accept + 1 <= serial.len
    /\ target' = Fed(target, <<Correction>>)
    /\ differs' = \/ differs
                  \/ \E t \in 1 .. accept : draft[t] # said[t]
                  \/ Correction # said[accept + 1]
                  \/ ~Same(target', Truncated(Clone(serial), Start + accept + 1))
    /\ mask' = mask + 1
    /\ Go("mask")
    /\ UNCHANGED <<base, serial, best, said, drafted, draft, next, accept>>

Conclude ==
    /\ stage = "mask" /\ program = "spec" /\ mask = NMasks
    /\ Exit(IF differs THEN "FAIL" ELSE "done")
    /\ UNCHANGED <<base, serial, best, said, block>>

\* A state refuses its block, or the baseline is too short to compare with.
Refused ==
    \/ stage = "prefill" /\ ~Takes(0, 0, Start)
    \/ stage = "feed" /\ ~Takes(serial.len, Start + Len(said) - 1, 1)
    \/ stage = "mask" /\ program = "block" /\ ~Takes(base.len, Start, K)
    \/ stage = "draft" /\ ~Takes(drafted, Start + Len(draft) - 1, 1)
    \/ stage = "verify" /\ ~Takes(target.len, Start, K)
    \/ stage = "commit" /\ ~( /\ Takes(target.len, Start + accept, 1)
                              /\ Start + accept + 1 <= serial.len )

\* What is called next fails: it refuses, or a read does.
Break ==
    /\ stage # "exited" /\ Exit(IF Refused THEN "refused" ELSE "broken")
    /\ UNCHANGED <<base, serial, best, said, block>>

Next ==
    \/ Prefill \/ Pick \/ Feed \/ VerifyBlock \/ NextMask \/ Draft \/ Verify \/ Commit
    \/ Conclude \/ Break

Spec == Init /\ [][Next]_vars

-----------------------------------------------------------------------------
(* Properties. *)

\* Serial decoding and speculation only ever write what the exact model likes
\* best: whatever is drafted, the states a program goes on from hold the prompt
\* and the tokens greedy decoding would have chosen, and none of a rejected
\* draft (the comparison at the end of self_spec_sweep.c).
Baseline == INSTANCE Greedy WITH text <- Context(serial, serial.len)
Verified == INSTANCE Greedy WITH text <- Context(target, target.len)

ImplementsGreedy == Baseline!Spec /\ Verified!Spec

\* Only a failed read makes a program fail: no state is refused its next token
\* or block for its position or room, and no comparison with the serial
\* baseline finds a difference (the FAIL lines of both labs).
FailsOnlyByRead == exit \in {"no", "done", "broken"}
=============================================================================
