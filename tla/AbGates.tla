------------------------------ MODULE AbGates ------------------------------
(***************************************************************************)
(* The A/B gates of tools/: drivers that run the generator once per case   *)
(* and arm under an environment they prepare, read back what it printed,   *)
(* and decide whether the policy under test may be used.                   *)
(*                                                                         *)
(*   trunk      run_kimi_trunk_cache_ab             bounded trunk cache    *)
(*   math       run_kimi_layerpin_hyst_hard_math_gate       hysteresis     *)
(*   diverse    run_kimi_layerpin_hyst_diverse_gate         hysteresis     *)
(*   calibrate  run_kimi_hard_math_prompt_calibration       baseline only  *)
(*   skip       run_kimi_dynskip_vl_gate            dynamic skip, 1 token  *)
(*   hard_vl    run_kimi_dynskip_vl_intelligence    dynamic skip           *)
(*   store      run_kimi_store_ab                   Q5 store (reports)     *)
(*   equal      run_kimi_expert_store_equivalence   sparse store           *)
(*                                                                         *)
(* What the policy really does is "world", which a gate cannot see: only   *)
(* the rows it collects.  A correct gate tells the worlds apart.           *)
(***************************************************************************)
EXTENDS Integers, Sequences, FiniteSets

CONSTANTS
    NumCases,      \* the cases of a suite
    Gates,         \* the gates of this instance
    Texts,         \* the answers a run may print
    Worlds,        \* for each gate, what its policy and its files may be
    MaxReruns      \* bound: runs of a gate in one directory after the first

Cases == 1 .. NumCases
Arms  == {"base", "policy"}
Gguf  == {"trunk", "math", "diverse", "calibrate"}  \* binaries without masks
Skips == {"skip", "hard_vl"}
None  == <<>>

\* The cases a gate decides about.
Judged(g) == IF g \in {"trunk", "equal"} THEN {1} ELSE Cases

\* What a policy can do to the tokens of a case: nothing, end them early,
\* change the second or the first.  The other store may also route otherwise
\* or move the logits without changing a token.
Effects(g) ==
    {"none", "cut", "other", "first"} \union
        (IF g = "equal" THEN {"route", "logits"} ELSE {})

\* Whether the binary has the policy, it ever applies, and it applies where it
\* must not.  The stores and the layout are in force whatever the binary does.
ActsIn(g) ==
    CASE g \in Skips            -> {"no", "idle", "yes", "control"}
      [] g \in {"store", "equal"} -> {"yes"}
      [] OTHER                  -> {"no", "idle", "yes"}

\* The variables its binary reads that a driver may be started with; "profile"
\* is KVL_MOE_PROFILE_TRACE, which takes the place of the trace a driver names.
ReadBy(g) ==
    CASE g \in Gguf   -> {"hyst"}
      [] g = "equal"  -> {"mask", "profile"}
      [] OTHER        -> {"mask"}

WorldType(g) ==
    [effect    : [Cases -> Effects(g)],    \* on the tokens of each case
     acts      : ActsIn(g),
     maskTells : BOOLEAN,                  \* the mask changes the first token
     saved     : [Cases -> Int],           \* reads the policy saves
     spill     : BOOLEAN,                  \* it disturbs the expert cache
     large     : BOOLEAN,                  \* it keeps 1600 MiB of the trunk
     exact     : BOOLEAN,                  \* it skips as often as the suite says
     failed    : SUBSET (Cases \X Arms),   \* runs without direct I/O, or a bad read
     least     : Nat,                      \* --min-generated
     base      : [Cases -> Texts],         \* the answers without the policy
     new       : [Cases -> Texts],         \* and with an effect of it
     auto      : BOOLEAN,                  \* --sparse-auto-mask
     sidecar   : {"given", "other", "missing"}]

ASSUME GatesAssumption ==
    /\ NumCases \in Nat \ {0}
    /\ MaxReruns \in Nat
    /\ Gates \subseteq {"trunk", "math", "diverse", "calibrate", "skip",
                        "hard_vl", "store", "equal"}
    /\ \A g \in Gates : \A w \in Worlds[g] : w \in WorldType(g)

VARIABLES
    gate,      \* which driver runs
    world,     \* what the policy, the mask and the files really are
    ambient,   \* the variables set where the driver was started
    rows,      \* what the runs printed, in the order they ran
    trace,     \* the route trace of each arm, a file that is appended to
    stats,     \* what the skip statistics file of each case says, if there
    reruns,    \* earlier invocations in the same directory
    verdict,   \* "running", "pass", "fail", "refused", "died", "report"
    report     \* what the summary says beside the verdict

vars == <<gate, world, ambient, rows, trace, stats, reruns, verdict, report>>

----------------------------------------------------------------------------
(* Answers.  A text is a sequence of lines; a line is "strict" (the marker *)
(* alone), "inline" (the marker in a sentence), "phrase" (the answer is    *)
(* ...), "bare" (only a value) or "prose" (a value among words).           *)

Values(lines) == {l.value : l \in lines}
Elements(seq) == {seq[i] : i \in DOMAIN seq}
Marked(text)  == SelectSeq(text, LAMBDA l : l.kind \in {"strict", "inline"})

\* What a text concludes once no line bears the marker: the phrases of the
\* last three lines, and a last line that is a value and nothing else.
TailConclusions(text) ==
    LET n == Len(text)
    IN  {text[i].value : i \in {j \in DOMAIN text :
            \/ j > n - 3 /\ text[j].kind = "phrase"
            \/ j = n     /\ text[j].kind = "bare"}}

\* The rescorer: every conclusion must be the same one.
SemanticConclusions(text) ==
    IF Marked(text) # None THEN Values(Elements(Marked(text)))
    ELSE TailConclusions(text)

SemanticCorrect(text) == SemanticConclusions(text) = {"right"}

\* The hard-VL gate: the first line that is the marker alone.
StrictCorrect(text) ==
    LET s == SelectSeq(text, LAMBDA l : l.kind = "strict")
    IN  s # None /\ Head(s).value = "right"

\* The hard-math gate: the last marker, else the last value of the text.
MathCorrect(text) ==
    LET s == IF Marked(text) # None THEN Marked(text) ELSE text
    IN  s # None /\ s[Len(s)].value = "right"

----------------------------------------------------------------------------
(* The environment a driver hands to a run: the ambient one, with the      *)
(* variables of the arm set or removed.                                    *)

PinEnv(arm) ==
    IF arm = "policy" THEN ambient \union {"hyst"} ELSE ambient \ {"hyst"}

SkipEnv(arm) ==
    IF arm = "policy" THEN (ambient \ {"mask"}) \union {"skip"} ELSE ambient

HardVLEnv(arm) ==
    (ambient \ {"mask", "skip"}) \union (IF arm = "policy" THEN {"skip"} ELSE {})

VariantEnv(arm) ==
    (ambient \ {"mask"}) \union
        (IF arm = "base" \/ ~world.auto THEN {"given"} ELSE {})

(* What the generator does under an environment. *)

PolicyOn(env, arm) ==
    CASE gate \in {"math", "diverse", "calibrate"} -> "hyst" \in env
      [] gate \in Skips                            -> "skip" \in env
      [] OTHER                                     -> arm = "policy"

\* The static mask in force; a sparse store binds its sidecar when the
\* environment names none.
MaskOf(env, arm) ==
    IF gate \in Gguf THEN "none"
    ELSE IF "given" \in env THEN "given"
    ELSE IF "mask" \in env THEN "mask"
    ELSE IF gate = "equal" /\ arm = "policy" THEN world.sidecar
    ELSE "none"

\* A sparse store refuses to open without its sidecar, or under another mask.
Refuses(env, arm) ==
    /\ arm = "policy"
    /\ world.sidecar = "missing" \/ MaskOf(env, arm) # world.sidecar

Acts(env, arm) == PolicyOn(env, arm) /\ world.acts \in {"yes", "control"}

Effect(case, env, arm) ==
    IF Acts(env, arm) THEN world.effect[case] ELSE "none"

\* The experts the router chose, as a trace records them.
Routes(case, env, arm) ==
    IF Effect(case, env, arm) = "route" THEN "moved" ELSE "same"

\* Greedy tokens: two of them, the first told apart by the mask.
Tokens(case, env, arm) ==
    LET mask  == MaskOf(env, arm)
        first == IF mask = "other" THEN 3
                 ELSE IF mask # "none" /\ world.maskTells THEN 2 ELSE 1
        all   == CASE Effect(case, env, arm) = "cut"   -> <<first>>
                   [] Effect(case, env, arm) = "other" -> <<first, 2>>
                   [] Effect(case, env, arm) = "first" -> <<2, 1>>
                   [] OTHER -> <<first, 1>>
    IN  IF gate = "skip" THEN <<Head(all)>> ELSE all

Text(case, env, arm) ==
    IF Effect(case, env, arm) = "none" THEN world.base[case]
    ELSE world.new[case]

Marker(env) ==
    IF gate \notin Gguf \/ world.acts = "no" THEN "none"
    ELSE IF "hyst" \in env THEN "hysteresis" ELSE "topweight"

\* A run as a driver reads it back from the two streams of the process.
Row(case, arm, env) ==
    [case    |-> case,
     arm     |-> arm,
     ids     |-> Tokens(case, env, arm),
     text    |-> Text(case, env, arm),
     marker  |-> Marker(env),
     acted   |-> Acts(env, arm),
     control |-> Acts(env, arm) /\ world.acts = "control",
     exact   |-> world.exact,
     large   |-> Acts(env, arm) /\ world.large,
     logits  |-> Effect(case, env, arm) \in {"none", "route"},
     reads   |-> 5 - (IF Acts(env, arm) THEN world.saved[case] ELSE 0),
     experts |-> IF Acts(env, arm) /\ world.spill THEN 4 ELSE 5,
     clean   |-> <<case, arm>> \notin world.failed]

----------------------------------------------------------------------------
(* The runs of a gate, in order. *)

Of(case, arm) == [case |-> case, arm |-> arm]

\* The runs of the trunk gate, and the positions of those it compares: the
\* first streamed with the first cached one, the second with the second.
TrunkPairs == {<<1, 2>>, <<4, 3>>}
TrunkOrder == <<Of(1, "base"), Of(1, "policy"), Of(1, "policy"), Of(1, "base")>>

\* The arm that goes first alternates from case to case.
Alternating == [i \in 1 .. 2 * NumCases |->
    LET case == (i + 1) \div 2
    IN  Of(case, IF (i % 2 = 1) = (case % 2 = 1) THEN "base" ELSE "policy")]

BaseFirst == [i \in 1 .. 2 * NumCases |->
    Of((i + 1) \div 2, IF i % 2 = 1 THEN "base" ELSE "policy")]

Steps ==
    CASE gate = "trunk"              -> TrunkOrder
      [] gate \in {"math", "diverse"} -> Alternating
      [] gate = "calibrate"          -> [i \in Cases |-> Of(i, "base")]
      [] gate = "equal"              -> <<Of(1, "base"), Of(1, "policy")>>
      [] OTHER                       -> BaseFirst

Running  == verdict = "running" /\ Len(rows) < Len(Steps)
Finished == verdict = "running" /\ Len(rows) = Len(Steps)
Step     == Steps[Len(rows) + 1]

----------------------------------------------------------------------------
(* The decisions.  rows holds every run when they are taken. *)

RowOf(case, arm) ==
    CHOOSE r \in Elements(rows) : r.case = case /\ r.arm = arm

\* Mutant: only the common prefix is compared.
PrefixDivergence(a, b) ==
    LET at == {i \in (DOMAIN a) \intersect (DOMAIN b) : a[i] # b[i]}
    IN  IF at # {} THEN <<CHOOSE i \in at : \A j \in at : i <= j>> ELSE None

FirstDivergence(a, b) ==
    LET at == {i \in (DOMAIN a) \union (DOMAIN b) :
                  \/ i > Len(a) \/ i > Len(b)
                  \/ i <= Len(a) /\ i <= Len(b) /\ a[i] # b[i]}
    IN  IF at # {} THEN <<CHOOSE i \in at : \A j \in at : i <= j>> ELSE None

TrunkFails ==
    \/ \E i \in DOMAIN rows :
           \/ rows[i].ids # rows[1].ids
           \/ ~rows[i].clean
           \/ Len(rows[i].ids) # Len(rows[1].ids)
           \/ rows[i].experts # rows[1].experts
    \/ \E i \in DOMAIN rows : rows[i].acted # (rows[i].arm = "policy")
    \/ \E i \in DOMAIN rows : rows[i].arm = "policy" /\ ~rows[i].large
    \/ \E p \in TrunkPairs : rows[p[2]].reads >= rows[p[1]].reads

\* Mutant: the markers are enough, whether or not a pin was retained.
MarkersOnly(u, h) ==
    \/ ~u.clean \/ ~h.clean
    \/ u.marker # "topweight"
    \/ h.marker # "hysteresis"

HystFails(u, h) ==
    \/ ~u.clean \/ ~h.clean
    \/ u.marker # "topweight"
    \/ h.marker # "hysteresis"
    \/ ~h.acted

\* The cases an arm answered, by the reading of each scorer.
Strict(arm)   == {c \in Cases : StrictCorrect(RowOf(c, arm).text)}
Math(arm)     == {c \in Cases : MathCorrect(RowOf(c, arm).text)}
Semantic(arm) == {c \in Cases : SemanticCorrect(RowOf(c, arm).text)}

\* Mutant: the scores are compared, not the cases.
FewerCorrect(was, now) == IF Cardinality(now) < Cardinality(was) THEN was ELSE {}

Regressions(was, now) == was \ now

MathFails ==
    \/ Regressions(Math("base"), Math("policy")) # {}
    \/ \E c \in Cases :
           LET u == RowOf(c, "base")
               h == RowOf(c, "policy")
           IN  u.ids # h.ids \/ Len(u.ids) # Len(h.ids) \/ HystFails(u, h)

Reads(arm) ==
    LET total[n \in 0 .. NumCases] ==
            IF n = 0 THEN 0 ELSE total[n - 1] + RowOf(n, arm).reads
    IN  total[NumCases]

DiverseFails(minGenerated) ==
    \/ Reads("policy") >= Reads("base")
    \/ \E c \in Cases :
           LET u == RowOf(c, "base")
               h == RowOf(c, "policy")
           IN  \/ u.ids # h.ids \/ Len(u.ids) # Len(h.ids)
               \/ Len(u.ids) < minGenerated \/ Len(h.ids) < minGenerated
               \/ HystFails(u, h)

SkipFails ==
    \/ \E c \in Cases : RowOf(c, "base").ids # RowOf(c, "policy").ids
    \/ \E c \in Cases : ~RowOf(c, "policy").exact
    \/ \E c \in Cases : RowOf(c, "policy").control
    \/ \A c \in Cases : ~RowOf(c, "policy").acted

HardVLFails ==
    \/ Regressions(Strict("base"), Strict("policy")) # {}
    \/ \E c \in Cases : RowOf(c, "policy").control

ExactCases ==
    {c \in Cases : FirstDivergence(RowOf(c, "base").ids,
                                   RowOf(c, "policy").ids) = None}

\* Tokens, route trace and logits, byte for byte.
Equivalent ==
    /\ RowOf(1, "base").ids = RowOf(1, "policy").ids
    /\ RowOf(1, "base").logits = RowOf(1, "policy").logits
    /\ trace["base"] = trace["policy"]

----------------------------------------------------------------------------
Init ==
    /\ gate \in Gates
    /\ world \in Worlds[gate]
    /\ ambient \in SUBSET ReadBy(gate)
    /\ rows = <<>>
    /\ trace = [arm \in Arms |-> <<>>]
    /\ stats = [c \in Cases |-> [says |-> "absent", exact |-> FALSE]]
    /\ reruns = 0
    /\ verdict = "running"
    /\ report = None

Keep == UNCHANGED <<gate, world, ambient, reruns>>

\* A run that ends well becomes a row.
Run(env) ==
    /\ Running
    /\ rows' = Append(rows, Row(Step.case, Step.arm, env))
    /\ Keep
    /\ UNCHANGED <<trace, stats, verdict, report>>

RunTrunk   == gate = "trunk"   /\ Run(ambient \union {"hyst"})
RunMath    == gate = "math"    /\ Run(PinEnv(Step.arm))
RunDiverse == gate = "diverse" /\ Run(PinEnv(Step.arm))
RunStore   == gate = "store"   /\ Run(ambient \ {"mask"})

\* The candidate of a skip gate writes its statistics when it ends, unless it
\* is a generator without the skip; the driver reads the file that is there.
RunSkipping(env) ==
    LET written == IF Step.arm = "base" \/ world.acts = "no" THEN stats
                   ELSE [stats EXCEPT ![Step.case] =
                            [says |-> world.acts, exact |-> world.exact]]
        file    == written[Step.case]
        plain   == Row(Step.case, Step.arm, env)
    IN  /\ Running
        /\ stats' = written
        /\ \/ /\ Step.arm = "policy" /\ file.says = "absent"
              /\ verdict' = "refused"
              /\ UNCHANGED rows
           \/ /\ Step.arm = "policy" /\ file.says # "absent"
              /\ rows' = Append(rows,
                     [plain EXCEPT !.acted = file.says # "idle",
                                   !.control = file.says = "control",
                                   !.exact = file.exact])
              /\ UNCHANGED verdict
           \/ /\ Step.arm = "base"
              /\ rows' = Append(rows, plain)
              /\ UNCHANGED verdict
        /\ Keep
        /\ UNCHANGED <<trace, report>>

RunSkip   == gate = "skip"    /\ RunSkipping(SkipEnv(Step.arm))
RunHardVL == gate = "hard_vl" /\ RunSkipping(HardVLEnv(Step.arm))

\* The calibration stops at the first run that is not a sound baseline.
RunCalibration ==
    /\ gate = "calibrate"
    /\ Running
    /\ Keep
    /\ UNCHANGED <<trace, stats, report>>
    /\ LET row == Row(Step.case, "base", ambient \ {"hyst"})
       IN  IF row.clean /\ row.marker = "topweight"
           THEN rows' = Append(rows, row) /\ UNCHANGED verdict
           ELSE verdict' = "refused" /\ UNCHANGED rows

\* The generator appends its routes to the trace the variant names, unless the
\* profile takes its place; the driver wants a trace there, whoever wrote it.
RunVariant ==
    /\ gate = "equal"
    /\ Running
    /\ world.auto => world.sidecar # "missing"
    /\ Keep
    /\ UNCHANGED <<stats, report>>
    /\ LET env   == VariantEnv(Step.arm)
           row   == Row(1, Step.arm, env)
           entry == <<row.ids, Routes(1, env, Step.arm)>>
           now   == IF "profile" \in ambient THEN trace
                    ELSE [trace EXCEPT ![Step.arm] = Append(@, entry)]
       IN  \/ /\ Refuses(env, Step.arm)
              /\ verdict' = "refused"
              /\ UNCHANGED <<rows, trace>>
           \/ /\ ~Refuses(env, Step.arm)
              /\ now[Step.arm] = <<>>
              /\ verdict' = "refused"
              /\ UNCHANGED <<rows, trace>>
           \/ /\ ~Refuses(env, Step.arm)
              /\ now[Step.arm] # <<>>
              /\ rows' = Append(rows, row)
              /\ trace' = now
              /\ UNCHANGED verdict

RefuseEquivalence ==
    /\ gate = "equal"
    /\ Running
    /\ rows = <<>> /\ world.auto /\ world.sidecar = "missing"
    /\ verdict' = "refused"
    /\ Keep
    /\ UNCHANGED <<rows, trace, stats, report>>

Judge(g, fails, said) ==
    /\ gate = g
    /\ Finished
    /\ verdict' = IF fails THEN "fail" ELSE "pass"
    /\ report' = said
    /\ Keep
    /\ UNCHANGED <<rows, trace, stats>>

JudgeTrunk   == Judge("trunk", TrunkFails, None)
JudgeMath    == Judge("math", MathFails, None)
JudgeDiverse == Judge("diverse", DiverseFails(world.least), None)
JudgeSkip    == Judge("skip", SkipFails, None)
JudgeHardVL  == Judge("hard_vl", HardVLFails, None)
JudgeEquivalence == Judge("equal", ~Equivalent, None)

\* Two drivers only report.
ReportStore ==
    /\ gate = "store"
    /\ Finished
    /\ verdict' = "report"
    /\ report' = <<ExactCases>>
    /\ Keep
    /\ UNCHANGED <<rows, trace, stats>>

ReportCalibration ==
    /\ gate = "calibrate"
    /\ Finished
    /\ verdict' = "report"
    /\ report' = <<Math("base")>>
    /\ Keep
    /\ UNCHANGED <<rows, trace, stats>>

\* The rescorer reads the answers of a finished hard-VL run again.
Rescore ==
    /\ gate = "hard_vl"
    /\ verdict \in {"pass", "fail"}
    /\ report = None
    /\ report' = <<Regressions(Semantic("base"), Semantic("policy")),
                   Semantic("policy")>>
    /\ Keep
    /\ UNCHANGED <<rows, trace, stats, verdict>>

\* A run fails or is killed; what the generator had appended stays.
RunDies ==
    /\ Running
    /\ verdict' = "died"
    /\ \/ UNCHANGED trace
       \/ /\ gate = "equal"
          /\ "profile" \notin ambient
          /\ trace' = [trace EXCEPT ![Step.arm] = Append(@, <<"part">>)]
    /\ Keep
    /\ UNCHANGED <<rows, stats, report>>

\* A gate again in the same directory, over another build or other stores and
\* from another environment.  These may read what an earlier invocation left;
\* the others overwrite every file they read.
Rerun ==
    /\ gate \in {"equal"} \union Skips
    /\ verdict # "running"
    /\ reruns < MaxReruns
    /\ reruns' = reruns + 1
    /\ world' \in Worlds[gate]
    /\ ambient' \in SUBSET ReadBy(gate)
    /\ rows' = <<>>
    /\ verdict' = "running"
    /\ report' = None
    /\ UNCHANGED <<gate, trace, stats>>

Next ==
    \/ RunTrunk \/ RunMath \/ RunDiverse \/ RunSkip \/ RunHardVL \/ RunStore
    \/ RunCalibration \/ RunVariant \/ RefuseEquivalence
    \/ JudgeTrunk \/ JudgeMath \/ JudgeDiverse \/ JudgeSkip \/ JudgeHardVL
    \/ JudgeEquivalence \/ ReportStore \/ ReportCalibration \/ Rescore
    \/ RunDies \/ Rerun

Spec == Init /\ [][Next]_vars

----------------------------------------------------------------------------
(* Properties *)

\* The statistics the two skip gates read are their own only in a new
\* directory: after an earlier run, a generator that writes none is judged by
\* the old ones (run_kimi_dynskip_vl_gate.py:243, _vl_intelligence.py:435).
SoundStatistics == gate \in Skips => reruns = 0

\* The dynamic-skip gate removes KVL_MOE_MASK for its candidate only
\* (run_kimi_dynskip_vl_gate.py:225): started with one, it compares a masked
\* baseline, and what it decides says nothing.
SoundBaseline == gate = "skip" => "mask" \notin ambient

\* A gate that promises equal tokens passes no policy that changes a token it
\* generated, in any case, at any length and whatever variables it was started
\* with; the store equivalence also sees the logits, and the routes unless a
\* profile trace took their place; the store report counts as exact the
\* prompts the candidate left alone.
PassKeepsTokens ==
    /\ verdict = "pass" /\ gate \in {"trunk", "math", "diverse"} =>
           \A c \in Judged(gate) : world.effect[c] = "none"
    /\ verdict = "pass" /\ gate = "equal" =>
           \/ world.effect[1] = "none"
           \/ world.effect[1] = "route" /\ "profile" \in ambient
    /\ verdict = "pass" /\ gate = "skip" /\ SoundBaseline /\ SoundStatistics =>
           \A c \in Cases : world.effect[c] # "first"
    /\ verdict = "report" /\ gate = "store" =>
           report[1] = {c \in Cases : world.effect[c] = "none"}

\* What a pass shows of the policy, gate by gate.  The trunk cache and the
\* hysteresis were in force and did something, and no run of either arm lost
\* direct I/O or a read; the trunk cache became resident, saved trunk reads and
\* left the experts alone; the hysteresis saved a read in some case of a suite
\* long enough; the dynamic skip skipped, as often as the suite says and no
\* control token; the sparse store ran under its own sidecar.  The hard-VL gate
\* passes a policy that never skips: it only rules out that it skipped a
\* control token (run_kimi_dynskip_vl_intelligence.py:515).
PassTestsPolicy ==
    verdict = "pass" =>
        /\ gate \in {"trunk", "math", "diverse"} =>
               /\ world.acts = "yes"
               /\ \A c \in Judged(gate), a \in Arms : <<c, a>> \notin world.failed
        /\ gate = "trunk" => world.large /\ world.saved[1] > 0 /\ ~world.spill
        /\ gate = "diverse" =>
               world.least <= 2 /\ \E c \in Cases : world.saved[c] > 0
        /\ gate = "skip" /\ SoundStatistics => world.acts = "yes" /\ world.exact
        /\ gate = "hard_vl" /\ SoundStatistics => world.acts \in {"idle", "yes"}
        /\ gate = "equal" => world.sidecar = "given"

\* The hard-VL gate passes no candidate that loses an answer of the baseline,
\* also when another case improved by it and whatever statistics it read.
RegressionNeverPasses ==
    verdict = "pass" /\ gate = "hard_vl" /\ world.acts \in {"yes", "control"} =>
        \A c \in Cases : world.effect[c] # "none" /\ StrictCorrect(world.base[c])
                             => StrictCorrect(world.new[c])
=============================================================================
