------------------------------ MODULE MCDecode ------------------------------
(***************************************************************************)
(* The decoding programs, or the generator built with dynamic skipping.    *)
(***************************************************************************)
EXTENDS DecodeSkip, Integers

\* A model is a table: what it likes best depends on the length and the last token.
MCModels == [1 .. Len(Prompt) + K + 1 -> [Tokens -> Tokens]]
MCBest(m, s) == m[Len(s)][s[Len(s)]]
MCPrompt == <<1>>

Says(role, body) == [role |-> role, body |-> body]
MCDialogues ==
    { << Says("system", <<"text">>), Says("user", <<"text">>) >>,
      << Says("system", <<"text">>), Says("user", <<"image", "text">>) >>,
      << Says("system", <<>>), Says("user", <<"text">>),
         Says("assistant", <<"text">>), Says("user", <<"image">>) >> }

Line(family, layer, threshold, min_keep) ==
    [family |-> family, layer |-> layer, threshold |-> threshold, min_keep |-> min_keep]
MCPolicyFiles ==
    { << Line("media", 2, 2, 1) >>,                             \* half of the sum
      << Line("media", 1, 2, 2), Line("content", 1, 1, 1) >>,
      << Line("content", 2, 2, 1), Line("content", 2, 4, 2) >>, \* the last one counts
      << Line("content", 1, 3, 5) >>,                           \* more than are routed
      << Line("content", 1, 0, 1) >>,                           \* none active
      << Line("media", 1, 2, 1), Line("control", 1, 2, 1) >>,   \* each of the others is refused
      << Line("media", 1, 2, 0) >>, << Line("media", 1, -1, 1) >> }
MCWeights == 0 .. 2
=============================================================================
