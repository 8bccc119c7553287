----------------------------- MODULE MCAbGates -----------------------------
(***************************************************************************)
(* Every gate over two cases (the second starts with the other arm), every *)
(* effect its policy can have on each case, and five answers: right, wrong,*)
(* contradictory, concluded in words, and a wrong phrase before a right    *)
(* value.                                                                  *)
(***************************************************************************)
EXTENDS AbGates, TLC

Line(k, v) == [kind |-> k, value |-> v]

MCGates == {"trunk", "math", "diverse", "calibrate", "skip", "hard_vl",
            "store", "equal"}
Answers ==
    {<<Line("strict", "right")>>,
     <<Line("strict", "wrong")>>,
     <<Line("strict", "wrong"), Line("inline", "right")>>,
     <<Line("phrase", "right"), Line("prose", "wrong")>>,
     <<Line("phrase", "wrong"), Line("bare", "right")>>}

MCTexts == Answers \union {<<>>}

Silent  == [c \in Cases |-> <<>>]
Always(x) == [c \in Cases |-> x]

TriedEffects(g) ==
    CASE g \in {"math", "hard_vl"} -> {"none", "other"}
      [] g = "calibrate"           -> {"none"}
      [] g = "skip"                -> {"none", "other", "first"}
      [] g = "equal"               -> {"none", "cut", "other", "first", "route", "logits"}
      [] OTHER                     -> {"none", "cut", "other"}

\* The hard-VL gate starts again over every world, so its answers are three:
\* right, wrong and contradictory.
TriedAnswers(g) ==
    CASE g \in {"math", "calibrate"} -> Answers
      [] g = "hard_vl"                -> {a \in Answers : a[1].kind = "strict"}
      [] OTHER                        -> {<<>>}

TriedActs(g) ==
    IF g \in {"trunk", "calibrate"} THEN {"no", "yes"} ELSE ActsIn(g)

WorldsOf(g) ==
    {w \in [effect    : IF g \in {"trunk", "equal"}
                        THEN {Always(e) : e \in TriedEffects(g)}
                        ELSE [Cases -> TriedEffects(g)],
            acts      : TriedActs(g),
            maskTells : IF g \in {"skip", "equal"} THEN BOOLEAN ELSE {TRUE},
            saved     : CASE g = "diverse" -> [Cases -> -1 .. 1]
                          [] g = "trunk"   -> {Always(s) : s \in -1 .. 1}
                          [] OTHER         -> {Always(1)},
            spill     : IF g = "trunk" THEN BOOLEAN ELSE {FALSE},
            large     : IF g = "trunk" THEN BOOLEAN ELSE {TRUE},
            exact     : IF g = "skip" THEN BOOLEAN ELSE {TRUE},
            failed    : IF g \in Gguf
                        THEN {{}} \union {{x} : x \in Cases \X Arms} ELSE {{}},
            least     : IF g = "diverse" THEN {2, 3} ELSE {2},
            base      : [Cases -> TriedAnswers(g)],
            new       : IF g = "calibrate" THEN {Silent}
                        ELSE [Cases -> TriedAnswers(g)],
            auto      : IF g = "equal" THEN BOOLEAN ELSE {FALSE},
            sidecar   : IF g = "equal" THEN {"given", "other", "missing"}
                        ELSE {"given"}] :
        \A c \in Cases : w.effect[c] = "none" /\ g # "calibrate"
                             => w.new[c] = w.base[c]}

MCWorlds == [g \in Gates |-> WorldsOf(g)]
=============================================================================
