------------------------------- MODULE Greedy -------------------------------
(***************************************************************************)
(* What every way of decoding promises: a text grows from the prompt by    *)
(* the tokens the exact model likes best, some at a time, and a new        *)
(* attempt begins with the prompt again.                                   *)
(***************************************************************************)
EXTENDS Naturals, Sequences

CONSTANTS Prompt, Best(_, _)

VARIABLES model, text

\* Every token of later beyond the first n is the best one after those before it.
GreedyFrom(m, n, later) ==
    \A p \in n + 1 .. Len(later) : later[p] = Best(m, [q \in 1 .. p - 1 |-> later[q]])

Extends(earlier, later) ==
    /\ Len(earlier) <= Len(later)
    /\ \A p \in 1 .. Len(earlier) : later[p] = earlier[p]

Init == text \in {<<>>, Prompt}

Grow ==
    /\ Extends(text, text') /\ Extends(Prompt, text')
    /\ GreedyFrom(model, Len(Prompt), text')

Again == text' = Prompt

Next == (Grow \/ Again) /\ UNCHANGED model

Spec == Init /\ [][Next]_<<model, text>>
=============================================================================
