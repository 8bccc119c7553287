--------------------------- MODULE AbGates_proofs ---------------------------
(***************************************************************************)
(* What a pass of the A/B gates means, for every number of cases, every    *)
(* suite of answers, every effect of the policy and every failed run.      *)
(*                                                                         *)
(* The argument: the rows are, position by position, the runs of the plan  *)
(* (Collected), each under the environment its arm is due; the traces and  *)
(* the statistics of a new directory are those of these rows (Appended,    *)
(* Written).  A verdict is a function of the rows, so what it lets pass is *)
(* a statement about the policy itself (Sound).                            *)
(***************************************************************************)
EXTENDS AbGates, WellFoundedInduction, TLAPS

----------------------------------------------------------------------------
(* The inductive invariant. *)

\* The environment of a run, whichever gate prepares it.
EnvOf(arm) ==
    CASE gate = "trunk"               -> ambient \union {"hyst"}
      [] gate \in {"math", "diverse"} -> PinEnv(arm)
      [] gate = "calibrate"           -> ambient \ {"hyst"}
      [] gate = "skip"                -> SkipEnv(arm)
      [] gate = "hard_vl"             -> HardVLEnv(arm)
      [] gate = "store"               -> ambient \ {"mask"}
      [] OTHER                        -> VariantEnv(arm)

EffectNames == {"none", "cut", "other", "first", "route", "logits"}
RowType ==
    [case : Cases, arm : Arms, ids : Seq(1 .. 3), text : Texts,
     marker : {"none", "hysteresis", "topweight"}, acted : BOOLEAN,
     control : BOOLEAN, exact : BOOLEAN, large : BOOLEAN, logits : BOOLEAN,
     reads : Int, experts : {4, 5}, clean : BOOLEAN]
TraceEntry == (Seq(1 .. 3) \X {"same", "moved"}) \union {<<"part">>}
StatsType  == [says : {"absent", "idle", "yes", "control"}, exact : BOOLEAN]

Typed ==
    /\ gate \in Gates
    /\ world \in Worlds[gate]
    /\ ambient \in SUBSET ReadBy(gate)
    /\ rows \in Seq(RowType)
    /\ trace \in [Arms -> Seq(TraceEntry)]
    /\ stats \in [Cases -> StatsType]
    /\ reruns \in Nat
    /\ verdict \in {"running", "pass", "fail", "refused", "died", "report"}

\* What a row says is what its run did.  A skip gate takes from the file of
\* statistics whether the policy acted: true of a new directory.
Faithful(r) ==
    LET row == Row(r.case, r.arm, EnvOf(r.arm))
    IN  IF gate \in Skips
        THEN /\ r.ids = row.ids /\ r.text = row.text
             /\ r.arm = "policy" /\ SoundStatistics =>
                    /\ world.acts # "no"
                    /\ r.acted = (world.acts # "idle")
                    /\ r.control = (world.acts = "control")
                    /\ r.exact = world.exact
        ELSE /\ r = row
             /\ gate = "equal" => ~Refuses(EnvOf(r.arm), r.arm)

\* The rows are the first runs of the plan, each as it was.
Collected ==
    /\ Len(rows) <= Len(Steps)
    /\ \A i \in 1 .. Len(rows) :
           /\ rows[i].case = Steps[i].case
           /\ rows[i].arm = Steps[i].arm
           /\ Faithful(rows[i])

\* Unless a profile takes its place, a trace ends with what the last run of
\* its arm appended.
Appended ==
    gate = "equal" /\ "profile" \notin ambient =>
        /\ Len(rows) >= 1 =>
               /\ trace["base"] # <<>>
               /\ trace["base"][Len(trace["base"])] = <<rows[1].ids, "same">>
        /\ Len(rows) = 2 =>
               /\ trace["policy"] # <<>>
               /\ trace["policy"][Len(trace["policy"])] =
                      <<rows[2].ids, IF world.effect[1] = "route"
                                     THEN "moved" ELSE "same">>

\* In a new directory the statistics are those of this candidate.
Written ==
    gate \in Skips /\ SoundStatistics =>
        \A c \in Cases : stats[c].says # "absent" =>
            /\ stats[c].says = world.acts /\ world.acts # "no"
            /\ stats[c].exact = world.exact

\* What a pass has to mean: nothing here but the policy and the surroundings.
Sound ==
    /\ gate \in {"trunk", "math", "diverse"} =>
           /\ \A c \in Judged(gate) : world.effect[c] = "none"
           /\ world.acts = "yes"
           /\ \A c \in Judged(gate), a \in Arms : <<c, a>> \notin world.failed
    /\ gate = "trunk" => world.large /\ world.saved[1] > 0 /\ ~world.spill
    /\ gate = "diverse" => world.least <= 2 /\ \E c \in Cases : world.saved[c] > 0
    /\ gate = "equal" =>
           /\ world.effect[1] = "none" \/ (world.effect[1] = "route" /\ "profile" \in ambient)
           /\ world.sidecar = "given"
    /\ gate = "skip" /\ SoundStatistics =>
           /\ world.acts = "yes" /\ world.exact
           /\ SoundBaseline => \A c \in Cases : world.effect[c] # "first"
    /\ gate = "hard_vl" =>
           /\ SoundStatistics => world.acts \in {"idle", "yes"}
           /\ world.acts \in {"yes", "control"} =>
                  \A c \in Cases : world.effect[c] # "none"
                          /\ StrictCorrect(world.base[c]) => StrictCorrect(world.new[c])

Concluded ==
    /\ verdict = "pass" => Sound
    /\ verdict = "report" /\ gate = "store" =>
           report = <<{c \in Cases : world.effect[c] = "none"}>>

GatesInv == Typed /\ Collected /\ Appended /\ Written /\ Concluded

----------------------------------------------------------------------------
(* The plan of a gate and what its runs print. *)

LEMMA FirstCase == 1 \in Cases
<1> QED
    BY GatesAssumption DEF Cases

\* The plan is a sequence of runs of this suite.
LEMMA PlanTyped ==
    ASSUME Typed
    PROVE  /\ Steps \in Seq([case : Cases, arm : Arms])
           /\ gate = "equal" => Steps = <<Of(1, "base"), Of(1, "policy")>>
           /\ gate = "trunk" => Steps = TrunkOrder /\ Len(Steps) = 4
           /\ gate = "calibrate" => \A i \in 1 .. Len(Steps) : Steps[i].arm = "base"
<1> USE GatesAssumption, FirstCase
<1> DEFINE R == [case : Cases, arm : Arms]
<1>1. \A c \in Cases, a \in Arms : Of(c, a) \in R
    BY DEF Of
<1>2. TrunkOrder \in Seq(R) /\ Len(TrunkOrder) = 4
    BY <1>1 DEF TrunkOrder, Arms
<1>3. Alternating \in Seq(R)
    <2> DEFINE f == [i \in 1 .. 2 * NumCases |->
            LET case == (i + 1) \div 2
            IN  Of(case, IF (i % 2 = 1) = (case % 2 = 1) THEN "base" ELSE "policy")]
    <2>1. 2 * NumCases \in Nat
        OBVIOUS
    <2>2. f \in [1 .. 2 * NumCases -> R]
        <3> SUFFICES ASSUME NEW i \in 1 .. 2 * NumCases
                     PROVE  f[i] \in R
            OBVIOUS
        <3> DEFINE k == (i + 1) \div 2
                   a == IF (i % 2 = 1) = (k % 2 = 1) THEN "base" ELSE "policy"
        <3>1. k \in Cases /\ a \in Arms
            BY DEF Cases, Arms
        <3> QED
            BY <3>1, <1>1
    <2> QED
        BY <2>1, <2>2 DEF Alternating
<1>4. BaseFirst \in Seq(R)
    <2> DEFINE f == [i \in 1 .. 2 * NumCases |->
            Of((i + 1) \div 2, IF i % 2 = 1 THEN "base" ELSE "policy")]
    <2>1. 2 * NumCases \in Nat
        OBVIOUS
    <2>2. f \in [1 .. 2 * NumCases -> R]
        BY <1>1 DEF Arms, Cases
    <2> QED
        BY <2>1, <2>2 DEF BaseFirst
<1>5. CASE gate = "calibrate"
    <2> DEFINE f == [i \in 1 .. NumCases |-> Of(i, "base")]
    <2>1. f \in [1 .. NumCases -> R] /\ NumCases \in Nat
        BY <1>1 DEF Arms, Cases
    <2>2. \A i \in 1 .. NumCases : f[i].arm = "base"
        BY DEF Of, Cases
    <2>3. Steps = f
        BY <1>5 DEF Steps, Cases
    <2> HIDE DEF f
    <2>4. f \in Seq(R) /\ Len(f) = NumCases
        <3> HIDE DEF R
        <3> QED
            BY <2>1
    <2> QED
        BY <1>5, <2>2, <2>3, <2>4
<1>6. CASE gate = "trunk"
    BY <1>2, <1>6 DEF Steps
<1>7. CASE gate = "equal"
    BY <1>1, <1>7 DEF Steps, Arms
<1>8. CASE gate \notin {"calibrate", "trunk", "equal"}
    BY <1>3, <1>4, <1>8 DEF Steps
<1> QED
    BY <1>5, <1>6, <1>7, <1>8

\* Every case is in the plan, in each arm it has.
LEMMA PlanCoversCases ==
    ASSUME Typed, gate \notin {"trunk", "equal"},
           NEW c \in Cases, NEW a \in Arms, gate = "calibrate" => a = "base"
    PROVE  \E i \in 1 .. Len(Steps) : Steps[i] = Of(c, a)
<1> USE GatesAssumption DEF Cases, Arms
<1>1. CASE gate = "calibrate"
    BY <1>1 DEF Steps
<1>2. CASE gate \in {"math", "diverse"}
    <2>1. Steps = Alternating /\ Len(Steps) = 2 * NumCases
        BY <1>2 DEF Steps, Alternating
    <2> DEFINE i == IF (c % 2 = 1) = (a = "base") THEN 2 * c - 1 ELSE 2 * c
    <2>2. i \in 1 .. 2 * NumCases /\ (i + 1) \div 2 = c
        OBVIOUS
    <2>3. (i % 2 = 1) <=> ((c % 2 = 1) = (a = "base"))
        OBVIOUS
    <2> HIDE DEF i
    <2>4. Alternating[i] = Of(c, a)
        BY <2>2, <2>3 DEF Alternating
    <2> QED
        BY <2>1, <2>2, <2>4
<1>3. CASE gate \notin {"calibrate", "math", "diverse"}
    <2>1. Steps = BaseFirst /\ Len(Steps) = 2 * NumCases
        BY <1>3 DEF Steps, BaseFirst
    <2> DEFINE i == IF a = "base" THEN 2 * c - 1 ELSE 2 * c
    <2>2. i \in 1 .. 2 * NumCases /\ (i + 1) \div 2 = c /\ (i % 2 = 1 <=> a = "base")
        OBVIOUS
    <2> HIDE DEF i
    <2>4. BaseFirst[i] = Of(c, a)
        BY <2>2 DEF BaseFirst
    <2> QED
        BY <2>1, <2>2, <2>4
<1> QED
    BY <1>1, <1>2, <1>3

\* What the gates read of a run.
LEMMA RowTyped ==
    ASSUME Typed, NEW c \in Cases, NEW a \in Arms, NEW env
    PROVE  /\ Row(c, a, env) \in RowType
           /\ Effect(c, env, a) \in EffectNames
<1> USE GatesAssumption
<1>1. world \in WorldType(gate)
    BY DEF Typed
<1>2. Effect(c, env, a) \in EffectNames
    BY <1>1 DEF Effect, WorldType, Effects, EffectNames
<1>3. Tokens(c, env, a) \in Seq(1 .. 3)
    <2> DEFINE mask == MaskOf(env, a)
               first == IF mask = "other" THEN 3
                        ELSE IF mask # "none" /\ world.maskTells THEN 2 ELSE 1
               all == CASE Effect(c, env, a) = "cut"   -> <<first>>
                        [] Effect(c, env, a) = "other" -> <<first, 2>>
                        [] Effect(c, env, a) = "first" -> <<2, 1>>
                        [] OTHER -> <<first, 1>>
    <2>1. first \in 1 .. 3
        OBVIOUS
    <2> HIDE DEF first
    <2> DEFINE T == 1 .. 3
    <2>a. first \in T /\ 1 \in T /\ 2 \in T
        BY <2>1
    <2> HIDE DEF T
    <2>b. <<first>> \in Seq(T) /\ <<first, 2>> \in Seq(T)
          /\ <<2, 1>> \in Seq(T) /\ <<first, 1>> \in Seq(T)
        BY <2>a
    <2>2. all \in Seq(T) /\ all # <<>>
        BY <2>b
    <2>3. Head(all) \in T /\ <<Head(all)>> \in Seq(T)
        <3> HIDE DEF all
        <3> QED
            BY <2>2
    <2>4. Tokens(c, env, a) = IF gate = "skip" THEN <<Head(all)>> ELSE all
        BY DEF Tokens, first
    <2> HIDE DEF all
    <2> QED
        BY <2>2, <2>3, <2>4 DEF T
<1>4. Text(c, env, a) \in Texts
    BY <1>1 DEF Text, WorldType
<1>5. Marker(env) \in {"none", "hysteresis", "topweight"}
    BY DEF Marker
<1>6. Acts(env, a) \in BOOLEAN
    BY DEF Acts
<1>7. world.saved[c] \in Int /\ world.exact \in BOOLEAN /\ world.large \in BOOLEAN
      /\ world.spill \in BOOLEAN
    BY <1>1 DEF WorldType
<1> QED
    BY <1>2, <1>3, <1>4, <1>5, <1>6, <1>7 DEF Row, RowType

\* When every run is in, the row of a case is the row of that case.
LEMMA RowOfCase ==
    ASSUME Typed, Collected, Len(rows) = Len(Steps), gate # "trunk",
           NEW c \in Cases, NEW a \in Arms,
           gate = "equal" => c = 1, gate = "calibrate" => a = "base"
    PROVE  /\ RowOf(c, a) \in RowType
           /\ RowOf(c, a).case = c /\ RowOf(c, a).arm = a
           /\ Faithful(RowOf(c, a))
<1>1. \E i \in 1 .. Len(Steps) : Steps[i] = Of(c, a)
    <2>1. CASE gate = "equal"
        <3>1. Steps = <<Of(1, "base"), Of(1, "policy")>>
            BY <2>1, PlanTyped
        <3>2. CASE a = "base"
            BY <2>1, <3>1, <3>2
        <3>3. CASE a = "policy"
            BY <2>1, <3>1, <3>3
        <3> QED
            BY <3>2, <3>3 DEF Arms
    <2>2. CASE gate # "equal"
        BY <2>2, PlanCoversCases
    <2> QED
        BY <2>1, <2>2
<1>2. PICK i \in 1 .. Len(Steps) : Steps[i] = Of(c, a)
    BY <1>1
<1>3. rows \in Seq(RowType)
    BY DEF Typed
<1>4. rows[i] \in Elements(rows) /\ rows[i].case = c /\ rows[i].arm = a
    BY <1>2, <1>3 DEF Collected, Elements, Of
<1>5. RowOf(c, a) \in Elements(rows) /\ RowOf(c, a).case = c /\ RowOf(c, a).arm = a
    BY <1>4 DEF RowOf
<1>6. \A r \in Elements(rows) : r \in RowType /\ Faithful(r)
    BY <1>3 DEF Collected, Elements
<1> QED
    BY <1>5, <1>6

\* The policy is in force in the candidate's runs and nowhere else.
LEMMA ArmsDiffer ==
    ASSUME Typed
    PROVE  /\ ~PolicyOn(EnvOf("base"), "base")
           /\ gate # "calibrate" => PolicyOn(EnvOf("policy"), "policy")
<1>1. ambient \subseteq {"hyst", "mask", "profile"} /\ gate \in Gates
      /\ ambient \subseteq ReadBy(gate)
    BY DEF Typed, ReadBy
<1>2. CASE gate = "trunk"
    BY <1>2 DEF PolicyOn, Skips
<1>3. CASE gate \in {"math", "diverse"}
    <2>1. EnvOf("base") = PinEnv("base") /\ EnvOf("policy") = PinEnv("policy")
        BY <1>3 DEF EnvOf
    <2>2. \A env, a : PolicyOn(env, a) <=> "hyst" \in env
        BY <1>3 DEF PolicyOn, Skips
    <2> QED
        BY <1>3, <2>1, <2>2 DEF PinEnv
<1>4. CASE gate = "calibrate"
    <2>1. EnvOf("base") = ambient \ {"hyst"}
        BY <1>4 DEF EnvOf
    <2>2. \A env, a : PolicyOn(env, a) <=> "hyst" \in env
        BY <1>4 DEF PolicyOn, Skips
    <2> QED
        BY <1>4, <2>1, <2>2
<1>5. CASE gate = "skip"
    BY <1>1, <1>5 DEF PolicyOn, EnvOf, SkipEnv, Skips
<1>6. CASE gate = "hard_vl"
    BY <1>1, <1>6 DEF PolicyOn, EnvOf, HardVLEnv, Skips
<1>7. CASE gate \in {"store", "equal"}
    BY <1>7 DEF PolicyOn, Skips
<1> QED
    BY <1>1, <1>2, <1>3, <1>4, <1>5, <1>6, <1>7, GatesAssumption

LEMMA EffectOfArm ==
    ASSUME Typed, NEW c \in Cases
    PROVE  /\ Effect(c, EnvOf("base"), "base") = "none"
           /\ ~Acts(EnvOf("base"), "base")
           /\ gate # "calibrate" =>
                /\ Acts(EnvOf("policy"), "policy") <=> world.acts \in {"yes", "control"}
                /\ world.acts \in {"yes", "control"} =>
                       Effect(c, EnvOf("policy"), "policy") = world.effect[c]
                /\ world.acts \notin {"yes", "control"} =>
                       Effect(c, EnvOf("policy"), "policy") = "none"
<1> QED
    BY ArmsDiffer DEF Effect, Acts

\* Without a mask the first token is the one of the full model.
LEMMA UnmaskedTokens ==
    ASSUME Typed, NEW c \in Cases, NEW a \in Arms, NEW env, MaskOf(env, a) = "none"
    PROVE  /\ gate = "skip" =>
                  Tokens(c, env, a) = <<IF Effect(c, env, a) = "first" THEN 2 ELSE 1>>
           /\ gate # "skip" =>
                  Tokens(c, env, a) =
                      CASE Effect(c, env, a) = "cut"   -> <<1>>
                        [] Effect(c, env, a) = "other" -> <<1, 2>>
                        [] Effect(c, env, a) = "first" -> <<2, 1>>
                        [] OTHER -> <<1, 1>>
<1> DEFINE e == Effect(c, env, a)
           all == CASE e = "cut"   -> <<1>>
                    [] e = "other" -> <<1, 2>>
                    [] e = "first" -> <<2, 1>>
                    [] OTHER -> <<1, 1>>
<1>1. Tokens(c, env, a) = IF gate = "skip" THEN <<Head(all)>> ELSE all
    BY DEF Tokens
<1>2. Head(all) = IF e = "first" THEN 2 ELSE 1
    <2>1. Head(<<1>>) = 1 /\ Head(<<1, 2>>) = 1 /\ Head(<<2, 1>>) = 2 /\ Head(<<1, 1>>) = 1
        OBVIOUS
    <2> HIDE DEF e
    <2> QED
        BY <2>1
<1> QED
    BY <1>1, <1>2

LEMMA Unmasked ==
    ASSUME Typed, NEW a \in Arms, gate \notin {"hard_vl", "equal"},
           gate = "skip" => SoundBaseline
    PROVE  MaskOf(EnvOf(a), a) = "none"
<1>1. ambient \subseteq ReadBy(gate) /\ gate \in Gates
    BY DEF Typed
<1>2. CASE gate \in Gguf
    BY <1>2 DEF MaskOf
<1>3. CASE gate = "skip"
    BY <1>1, <1>3 DEF MaskOf, EnvOf, SkipEnv, SoundBaseline, ReadBy, Gguf
<1>4. CASE gate = "store"
    BY <1>1, <1>4 DEF MaskOf, EnvOf, ReadBy, Gguf
<1> QED
    BY <1>1, <1>2, <1>3, <1>4, GatesAssumption DEF Gguf

\* The rows of the two arms of an unmasked case agree on the tokens exactly
\* when the policy left the case alone.
LEMMA TokensTell ==
    ASSUME Typed, NEW c \in Cases, gate \in {"trunk", "math", "diverse", "store"},
           world.acts = "yes"
    PROVE  /\ Tokens(c, EnvOf("base"), "base") = <<1, 1>>
           /\ Tokens(c, EnvOf("policy"), "policy") = <<1, 1>> <=> world.effect[c] = "none"
<1>1. MaskOf(EnvOf("base"), "base") = "none" /\ MaskOf(EnvOf("policy"), "policy") = "none"
    BY Unmasked DEF Arms
<1>2. Effect(c, EnvOf("base"), "base") = "none"
      /\ Effect(c, EnvOf("policy"), "policy") = world.effect[c]
    BY EffectOfArm
<1>3. world.effect[c] \in {"none", "cut", "other", "first"}
    BY GatesAssumption DEF Typed, WorldType, Effects
<1>4. Tokens(c, EnvOf("base"), "base") = <<1, 1>>
    BY <1>1, <1>2, UnmaskedTokens DEF Arms
<1>5. Tokens(c, EnvOf("policy"), "policy") =
          CASE world.effect[c] = "cut"   -> <<1>>
            [] world.effect[c] = "other" -> <<1, 2>>
            [] world.effect[c] = "first" -> <<2, 1>>
            [] OTHER -> <<1, 1>>
    BY <1>1, <1>2, UnmaskedTokens DEF Arms
<1>6. <<1>> # <<1, 1>> /\ <<1, 2>> # <<1, 1>> /\ <<2, 1>> # <<1, 1>>
    OBVIOUS
<1> QED
    BY <1>3, <1>4, <1>5, <1>6

----------------------------------------------------------------------------
(* The verdicts. *)

\* The marker of the generator tells the two policies of the pins apart.
LEMMA Markers ==
    ASSUME Typed, gate \in {"math", "diverse"}
    PROVE  /\ Marker(EnvOf("base")) = (IF world.acts = "no" THEN "none" ELSE "topweight")
           /\ Marker(EnvOf("policy")) = (IF world.acts = "no" THEN "none" ELSE "hysteresis")
<1>1. EnvOf("base") = PinEnv("base") /\ EnvOf("policy") = PinEnv("policy")
    BY DEF EnvOf
<1> QED
    BY <1>1 DEF PinEnv, Marker, Gguf

\* What a row says, for the gates that read it from the run itself.
LEMMA RowSays ==
    ASSUME Typed, gate \in {"trunk", "math", "diverse", "store", "equal"},
           NEW r \in RowType, Faithful(r)
    PROVE  /\ world.acts \in {"no", "idle", "yes"}
           /\ r.arm = "base" =>
                  /\ r.ids = Tokens(r.case, EnvOf("base"), "base")
                  /\ r.text = world.base[r.case]
                  /\ ~r.acted /\ r.reads = 5 /\ r.experts = 5 /\ r.logits
                  /\ r.clean = (<<r.case, "base">> \notin world.failed)
                  /\ r.marker = Marker(EnvOf("base"))
           /\ r.arm = "policy" =>
                  /\ r.ids = Tokens(r.case, EnvOf("policy"), "policy")
                  /\ r.text = (IF world.acts = "yes" /\ world.effect[r.case] # "none"
                               THEN world.new[r.case] ELSE world.base[r.case])
                  /\ r.acted = (world.acts = "yes")
                  /\ r.reads = 5 - (IF world.acts = "yes" THEN world.saved[r.case] ELSE 0)
                  /\ r.experts = (IF world.acts = "yes" /\ world.spill THEN 4 ELSE 5)
                  /\ r.large = (world.acts = "yes" /\ world.large)
                  /\ r.logits = (world.acts = "yes" =>
                                    world.effect[r.case] \in {"none", "route"})
                  /\ r.clean = (<<r.case, "policy">> \notin world.failed)
                  /\ r.marker = Marker(EnvOf("policy"))
<1>1. world.acts \in {"no", "idle", "yes"}
    BY GatesAssumption DEF Typed, WorldType, ActsIn, Skips
<1>2. r = Row(r.case, r.arm, EnvOf(r.arm)) /\ r.case \in Cases /\ r.acted \in BOOLEAN
    BY DEF Faithful, RowType, Skips
<1>3. CASE r.arm = "base"
    <2>1. Effect(r.case, EnvOf("base"), "base") = "none" /\ Acts(EnvOf("base"), "base") = FALSE
        BY <1>2, EffectOfArm
    <2>2. r = Row(r.case, "base", EnvOf("base"))
        BY <1>2, <1>3
    <2>3. /\ r.ids = Tokens(r.case, EnvOf("base"), "base")
          /\ r.text = Text(r.case, EnvOf("base"), "base")
          /\ r.acted = Acts(EnvOf("base"), "base")
          /\ r.reads = 5 - (IF Acts(EnvOf("base"), "base") THEN world.saved[r.case] ELSE 0)
          /\ r.experts = (IF Acts(EnvOf("base"), "base") /\ world.spill THEN 4 ELSE 5)
          /\ r.logits = (Effect(r.case, EnvOf("base"), "base") \in {"none", "route"})
          /\ r.clean = (<<r.case, "base">> \notin world.failed)
          /\ r.marker = Marker(EnvOf("base"))
        <3> DEFINE k == r.case
                   row == Row(k, "base", EnvOf("base"))
        <3>1. /\ row.ids = Tokens(k, EnvOf("base"), "base")
              /\ row.text = Text(k, EnvOf("base"), "base")
              /\ row.acted = Acts(EnvOf("base"), "base")
              /\ row.reads = 5 - (IF Acts(EnvOf("base"), "base") THEN world.saved[k] ELSE 0)
              /\ row.experts = (IF Acts(EnvOf("base"), "base") /\ world.spill THEN 4 ELSE 5)
              /\ row.logits = (Effect(k, EnvOf("base"), "base") \in {"none", "route"})
              /\ row.clean = (<<k, "base">> \notin world.failed)
              /\ row.marker = Marker(EnvOf("base"))
            BY DEF Row
        <3>2. r = row
            BY <2>2
        <3> HIDE DEF row
        <3> QED
            BY <3>1, <3>2
    <2>4. Text(r.case, EnvOf("base"), "base") = world.base[r.case]
        BY <2>1 DEF Text
    <2>5. ~r.acted /\ r.reads = 5 /\ r.experts = 5 /\ r.logits
        <3>1. r.acted = FALSE /\ r.logits = TRUE
            BY <2>1, <2>3
        <3>2. r.reads = 5 - 0 /\ r.experts = 5
            BY <2>1, <2>3
        <3> QED
            BY <3>1, <3>2
    <2>6. r.ids = Tokens(r.case, EnvOf("base"), "base") /\ r.text = world.base[r.case]
          /\ r.marker = Marker(EnvOf("base"))
          /\ r.clean = (<<r.case, "base">> \notin world.failed)
        BY <2>3, <2>4
    <2> QED
        BY <1>1, <1>3, <2>5, <2>6
<1>4. CASE r.arm = "policy"
    <2> DEFINE env == EnvOf("policy")
    <2>1. /\ Acts(env, "policy") = (world.acts = "yes")
          /\ Effect(r.case, env, "policy") =
                 IF world.acts = "yes" THEN world.effect[r.case] ELSE "none"
        BY <1>1, <1>2, EffectOfArm DEF Acts
    <2>2. r = Row(r.case, "policy", env)
        BY <1>2, <1>4
    <2> HIDE DEF env
    <2>3. /\ r.ids = Tokens(r.case, env, "policy")
          /\ r.text = Text(r.case, env, "policy")
          /\ r.acted = Acts(env, "policy")
          /\ r.reads = 5 - (IF Acts(env, "policy") THEN world.saved[r.case] ELSE 0)
          /\ r.experts = (IF Acts(env, "policy") /\ world.spill THEN 4 ELSE 5)
          /\ r.large = (Acts(env, "policy") /\ world.large)
          /\ r.logits = (Effect(r.case, env, "policy") \in {"none", "route"})
          /\ r.clean = (<<r.case, "policy">> \notin world.failed)
          /\ r.marker = Marker(env)
        <3> DEFINE k == r.case
                   row == Row(k, "policy", env)
        <3>1. /\ row.ids = Tokens(k, env, "policy")
              /\ row.text = Text(k, env, "policy")
              /\ row.acted = Acts(env, "policy")
              /\ row.reads = 5 - (IF Acts(env, "policy") THEN world.saved[k] ELSE 0)
              /\ row.experts = (IF Acts(env, "policy") /\ world.spill THEN 4 ELSE 5)
              /\ row.large = (Acts(env, "policy") /\ world.large)
              /\ row.logits = (Effect(k, env, "policy") \in {"none", "route"})
              /\ row.clean = (<<k, "policy">> \notin world.failed)
              /\ row.marker = Marker(env)
            BY DEF Row
        <3>2. r = row
            BY <2>2
        <3> HIDE DEF row
        <3> QED
            BY <3>1, <3>2
    <2>4. r.logits = (world.acts = "yes" => world.effect[r.case] \in {"none", "route"})
        BY <2>1, <2>3
    <2>5. r.large = (world.acts = "yes" /\ world.large)
        BY <2>1, <2>3
    <2>6. r.text = (IF world.acts = "yes" /\ world.effect[r.case] # "none"
                    THEN world.new[r.case] ELSE world.base[r.case])
        BY <2>1, <2>3 DEF Text
    <2>7. /\ r.acted = (world.acts = "yes")
          /\ r.reads = 5 - (IF world.acts = "yes" THEN world.saved[r.case] ELSE 0)
          /\ r.experts = (IF world.acts = "yes" /\ world.spill THEN 4 ELSE 5)
        BY <2>1, <2>3
    <2> QED
        BY <1>1, <1>4, <2>3, <2>4, <2>5, <2>6, <2>7 DEF env
<1> QED
    BY <1>1, <1>2, <1>3, <1>4 DEF RowType, Arms

LEMMA TrunkVerdict ==
    ASSUME Typed, Collected, gate = "trunk", Len(rows) = Len(Steps), ~TrunkFails
    PROVE  Sound
<1>1. Len(rows) = 4 /\ Steps = TrunkOrder /\ rows \in Seq(RowType)
    BY PlanTyped DEF Typed
<1>2. \A i \in 1 .. 4 :
          /\ rows[i] \in RowType /\ Faithful(rows[i]) /\ rows[i].case = 1
          /\ rows[i].arm = IF i \in {1, 4} THEN "base" ELSE "policy"
    <2> SUFFICES ASSUME NEW i \in 1 .. 4
                 PROVE  /\ rows[i] \in RowType /\ Faithful(rows[i])
                        /\ rows[i].case = 1
                        /\ rows[i].arm = IF i \in {1, 4} THEN "base" ELSE "policy"
        OBVIOUS
    <2>1. rows[i] \in RowType /\ Faithful(rows[i])
          /\ rows[i].case = TrunkOrder[i].case /\ rows[i].arm = TrunkOrder[i].arm
        <3>1. i \in 1 .. Len(rows)
            BY <1>1
        <3>2. rows[i] \in RowType
            <4> DEFINE T == RowType
            <4>1. rows \in Seq(T)
                BY <1>1
            <4> HIDE DEF T
            <4> QED
                BY <3>1, <4>1 DEF T
        <3> QED
            BY <1>1, <3>1, <3>2 DEF Collected
    <2>2. /\ TrunkOrder[1] = Of(1, "base") /\ TrunkOrder[2] = Of(1, "policy")
          /\ TrunkOrder[3] = Of(1, "policy") /\ TrunkOrder[4] = Of(1, "base")
        BY DEF TrunkOrder
    <2> QED
        BY <2>1, <2>2 DEF Of
<1>3. /\ world.acts \in {"no", "idle", "yes"} /\ world.saved[1] \in Int
      /\ world.spill \in BOOLEAN /\ world.large \in BOOLEAN
    <2>1. world \in WorldType(gate)
        BY GatesAssumption DEF Typed
    <2>2. ActsIn(gate) = {"no", "idle", "yes"}
        BY DEF ActsIn, Skips
    <2> QED
        BY <2>1, <2>2, FirstCase DEF WorldType
<1> DEFINE on == world.acts = "yes"
           T == Tokens(1, EnvOf("policy"), "policy")
<1>4. \A i \in {1, 4} :
          /\ rows[i].ids = Tokens(1, EnvOf("base"), "base")
          /\ rows[i].acted = FALSE /\ rows[i].reads = 5 /\ rows[i].experts = 5
          /\ rows[i].clean = (<<1, "base">> \notin world.failed)
    <2> SUFFICES ASSUME NEW i \in {1, 4}
                 PROVE  /\ rows[i].ids = Tokens(1, EnvOf("base"), "base")
                        /\ rows[i].acted = FALSE /\ rows[i].reads = 5
                        /\ rows[i].experts = 5
                        /\ rows[i].clean = (<<1, "base">> \notin world.failed)
        OBVIOUS
    <2>1. rows[i] \in RowType /\ Faithful(rows[i]) /\ rows[i].case = 1
          /\ rows[i].arm = "base"
        BY <1>2
    <2> QED
        BY <2>1, RowSays DEF RowType
<1>5. \A i \in {2, 3} :
          /\ rows[i].ids = T /\ rows[i].acted = on
          /\ rows[i].reads = 5 - (IF on THEN world.saved[1] ELSE 0)
          /\ rows[i].experts = (IF on /\ world.spill THEN 4 ELSE 5)
          /\ rows[i].large = (on /\ world.large)
          /\ rows[i].clean = (<<1, "policy">> \notin world.failed)
    <2> SUFFICES ASSUME NEW i \in {2, 3}
                 PROVE  /\ rows[i].ids = T /\ rows[i].acted = on
                        /\ rows[i].reads = 5 - (IF on THEN world.saved[1] ELSE 0)
                        /\ rows[i].experts = (IF on /\ world.spill THEN 4 ELSE 5)
                        /\ rows[i].large = (on /\ world.large)
                        /\ rows[i].clean = (<<1, "policy">> \notin world.failed)
        OBVIOUS
    <2>1. rows[i] \in RowType /\ Faithful(rows[i]) /\ rows[i].case = 1
          /\ rows[i].arm = "policy"
        BY <1>2
    <2> QED
        BY <2>1, RowSays
<1>6. on => /\ Tokens(1, EnvOf("base"), "base") = <<1, 1>>
            /\ T = <<1, 1>> <=> world.effect[1] = "none"
    BY FirstCase, TokensTell
<1>7. /\ rows[2].ids = rows[1].ids /\ rows[1].clean /\ rows[2].clean
      /\ rows[2].experts = rows[1].experts
      /\ rows[2].acted = (rows[2].arm = "policy")
      /\ rows[2].arm = "policy" /\ rows[2].large
    BY <1>1, <1>2 DEF TrunkFails
<1>8. ~(rows[2].reads >= rows[1].reads)
    BY <1>1 DEF TrunkFails, TrunkPairs
<1>9. on
    BY <1>5, <1>7
<1>10. world.effect[1] = "none"
    BY <1>4, <1>5, <1>6, <1>7, <1>9
<1>11. world.large /\ ~world.spill
    BY <1>3, <1>4, <1>5, <1>7, <1>9
<1>12. \A a \in Arms : <<1, a>> \notin world.failed
    BY <1>4, <1>5, <1>7 DEF Arms
<1>13. world.saved[1] > 0
    <2>1. rows[2].reads = 5 - world.saved[1] /\ rows[1].reads = 5
        BY <1>4, <1>5, <1>9
    <2> QED
        BY <1>3, <1>8, <2>1
<1> QED
    BY <1>9, <1>10, <1>11, <1>12, <1>13 DEF Sound, Judged

\* The two rows of a case, as the gates of the hysteresis read them.
LEMMA HystRows ==
    ASSUME Typed, Collected, Len(rows) = Len(Steps), gate \in {"math", "diverse"},
           NEW c \in Cases, NEW u, NEW h,
           u = RowOf(c, "base"), h = RowOf(c, "policy")
    PROVE  /\ HystFails(u, h) <=>
                  world.acts # "yes" \/ \E a \in Arms : <<c, a>> \in world.failed
           /\ world.acts = "yes" => /\ u.ids = <<1, 1>>
                                    /\ h.ids = <<1, 1>> <=> world.effect[c] = "none"
                                    /\ h.reads = 5 - world.saved[c]
           /\ u.text = world.base[c]
           /\ h.text = (IF world.acts = "yes" /\ world.effect[c] # "none"
                        THEN world.new[c] ELSE world.base[c])
           /\ u.reads = 5 /\ u.reads \in Int /\ h.reads \in Int
<1>1. /\ u \in RowType /\ u.case = c /\ u.arm = "base" /\ Faithful(u)
      /\ h \in RowType /\ h.case = c /\ h.arm = "policy" /\ Faithful(h)
    BY RowOfCase DEF Arms
<1>2. /\ world.acts \in {"no", "idle", "yes"}
      /\ u.ids = Tokens(c, EnvOf("base"), "base") /\ u.text = world.base[c]
      /\ u.reads = 5 /\ u.clean = (<<c, "base">> \notin world.failed)
      /\ u.marker = Marker(EnvOf("base"))
    BY <1>1, RowSays
<1>3. /\ h.ids = Tokens(c, EnvOf("policy"), "policy")
      /\ h.text = (IF world.acts = "yes" /\ world.effect[c] # "none"
                   THEN world.new[c] ELSE world.base[c])
      /\ h.acted = (world.acts = "yes")
      /\ h.reads = 5 - (IF world.acts = "yes" THEN world.saved[c] ELSE 0)
      /\ h.clean = (<<c, "policy">> \notin world.failed)
      /\ h.marker = Marker(EnvOf("policy"))
    BY <1>1, RowSays
<1>4. HystFails(u, h) <=>
          world.acts # "yes" \/ \E a \in Arms : <<c, a>> \in world.failed
    <2>1. u.marker = (IF world.acts = "no" THEN "none" ELSE "topweight")
          /\ h.marker = (IF world.acts = "no" THEN "none" ELSE "hysteresis")
        BY <1>2, <1>3, Markers
    <2> QED
        BY <1>2, <1>3, <2>1 DEF HystFails, Arms
<1>5. world.acts = "yes" => /\ u.ids = <<1, 1>>
                            /\ h.ids = <<1, 1>> <=> world.effect[c] = "none"
    BY <1>2, <1>3, TokensTell
<1>6. u.reads \in Int /\ h.reads \in Int
    BY <1>1 DEF RowType
<1>7. world.acts = "yes" => h.reads = 5 - world.saved[c]
    BY <1>3
<1> QED
    BY <1>2, <1>3, <1>4, <1>5, <1>6, <1>7

\* A hysteresis gate that finds no case at fault.
LEMMA HystSound ==
    ASSUME Typed, Collected, Len(rows) = Len(Steps), gate \in {"math", "diverse"},
           \A c \in Cases : /\ RowOf(c, "base").ids = RowOf(c, "policy").ids
                            /\ ~HystFails(RowOf(c, "base"), RowOf(c, "policy"))
    PROVE  /\ \A c \in Cases : world.effect[c] = "none"
           /\ world.acts = "yes"
           /\ \A c \in Cases, a \in Arms : <<c, a>> \notin world.failed
<1>1. \A c \in Cases :
          LET u == RowOf(c, "base")
              h == RowOf(c, "policy")
          IN  /\ HystFails(u, h) <=>
                     world.acts # "yes" \/ \E a \in Arms : <<c, a>> \in world.failed
              /\ world.acts = "yes" => /\ u.ids = <<1, 1>>
                                       /\ h.ids = <<1, 1>> <=> world.effect[c] = "none"
    BY HystRows
<1>2. world.acts = "yes" /\ \A c \in Cases, a \in Arms : <<c, a>> \notin world.failed
    BY <1>1, FirstCase
<1>3. \A c \in Cases : world.effect[c] = "none"
    BY <1>1, <1>2
<1> QED
    BY <1>2, <1>3

LEMMA MathVerdict ==
    ASSUME Typed, Collected, gate = "math", Len(rows) = Len(Steps), ~MathFails
    PROVE  Sound
<1>1. \A c \in Cases : /\ RowOf(c, "base").ids = RowOf(c, "policy").ids
                       /\ ~HystFails(RowOf(c, "base"), RowOf(c, "policy"))
    BY DEF MathFails
<1> QED
    BY <1>1, HystSound DEF Sound, Judged

LEMMA HardVLVerdict ==
    ASSUME Typed, Collected, gate = "hard_vl", Len(rows) = Len(Steps), ~HardVLFails
    PROVE  Sound
<1>1. world.acts \in {"no", "idle", "yes", "control"}
    <2>1. world \in WorldType(gate)
        BY GatesAssumption DEF Typed
    <2>2. ActsIn(gate) = {"no", "idle", "yes", "control"}
        BY DEF ActsIn, Skips
    <2> QED
        BY <2>1, <2>2 DEF WorldType
<1>2. \A c \in Cases :
          /\ SoundStatistics => /\ world.acts # "no"
                                /\ RowOf(c, "policy").control = (world.acts = "control")
          /\ RowOf(c, "base").text = world.base[c]
          /\ RowOf(c, "policy").text =
                 (IF world.acts \in {"yes", "control"} /\ world.effect[c] # "none"
                  THEN world.new[c] ELSE world.base[c])
    <2> SUFFICES ASSUME NEW c \in Cases
                 PROVE  /\ SoundStatistics =>
                             /\ world.acts # "no"
                             /\ RowOf(c, "policy").control = (world.acts = "control")
                        /\ RowOf(c, "base").text = world.base[c]
                        /\ RowOf(c, "policy").text =
                             (IF world.acts \in {"yes", "control"} /\ world.effect[c] # "none"
                              THEN world.new[c] ELSE world.base[c])
        OBVIOUS
    <2>1. PICK u : u = RowOf(c, "base") /\ u.case = c /\ u.arm = "base" /\ Faithful(u)
        BY RowOfCase DEF Arms
    <2>2. PICK h : h = RowOf(c, "policy") /\ h.case = c /\ h.arm = "policy" /\ Faithful(h)
        BY RowOfCase DEF Arms
    <2>3. u.text = Text(c, EnvOf("base"), "base")
        BY <2>1 DEF Faithful, Skips, Row
    <2>4. /\ h.text = Text(c, EnvOf("policy"), "policy")
          /\ SoundStatistics => world.acts # "no" /\ h.control = (world.acts = "control")
        BY <2>2 DEF Faithful, Skips, Row
    <2>5. u.text = world.base[c]
        BY <2>3, EffectOfArm DEF Text
    <2>6. h.text = (IF world.acts \in {"yes", "control"} /\ world.effect[c] # "none"
                    THEN world.new[c] ELSE world.base[c])
        BY <2>4, EffectOfArm DEF Text
    <2> QED
        BY <2>1, <2>2, <2>4, <2>5, <2>6
<1>3. Strict("base") = {c \in Cases : StrictCorrect(world.base[c])}
    BY <1>2 DEF Strict
<1>4. Strict("policy") = {c \in Cases :
          StrictCorrect(IF world.acts \in {"yes", "control"} /\ world.effect[c] # "none"
                        THEN world.new[c] ELSE world.base[c])}
    BY <1>2 DEF Strict
<1>5. SoundStatistics => world.acts \in {"idle", "yes"}
    BY <1>1, <1>2, FirstCase DEF HardVLFails
<1>6. \A c \in Strict("base") : c \in Strict("policy")
    BY DEF HardVLFails, Regressions
<1>7. world.acts \in {"yes", "control"} =>
          \A c \in Cases : world.effect[c] # "none" /\ StrictCorrect(world.base[c])
                               => StrictCorrect(world.new[c])
    BY <1>3, <1>4, <1>6
<1> QED
    BY <1>5, <1>7 DEF Sound

LEMMA SkipVerdict ==
    ASSUME Typed, Collected, gate = "skip", Len(rows) = Len(Steps), ~SkipFails
    PROVE  Sound
<1>1. \A c \in Cases :
          /\ SoundStatistics =>
                 /\ world.acts # "no"
                 /\ RowOf(c, "policy").acted = (world.acts # "idle")
                 /\ RowOf(c, "policy").control = (world.acts = "control")
                 /\ RowOf(c, "policy").exact = world.exact
          /\ SoundBaseline =>
                 /\ RowOf(c, "base").ids = <<1>>
                 /\ RowOf(c, "policy").ids =
                        <<IF world.acts \in {"yes", "control"} /\ world.effect[c] = "first"
                          THEN 2 ELSE 1>>
    <2> SUFFICES ASSUME NEW c \in Cases
                 PROVE  /\ SoundStatistics =>
                             /\ world.acts # "no"
                             /\ RowOf(c, "policy").acted = (world.acts # "idle")
                             /\ RowOf(c, "policy").control = (world.acts = "control")
                             /\ RowOf(c, "policy").exact = world.exact
                        /\ SoundBaseline =>
                             /\ RowOf(c, "base").ids = <<1>>
                             /\ RowOf(c, "policy").ids =
                                  <<IF world.acts \in {"yes", "control"}
                                       /\ world.effect[c] = "first" THEN 2 ELSE 1>>
        OBVIOUS
    <2>1. PICK u : u = RowOf(c, "base") /\ u.case = c /\ u.arm = "base" /\ Faithful(u)
        BY RowOfCase DEF Arms
    <2>2. PICK h : h = RowOf(c, "policy") /\ h.case = c /\ h.arm = "policy" /\ Faithful(h)
        BY RowOfCase DEF Arms
    <2>3. u.ids = Tokens(c, EnvOf("base"), "base")
        BY <2>1 DEF Faithful, Skips, Row
    <2>4. /\ h.ids = Tokens(c, EnvOf("policy"), "policy")
          /\ SoundStatistics => /\ world.acts # "no" /\ h.acted = (world.acts # "idle")
                                /\ h.control = (world.acts = "control")
                                /\ h.exact = world.exact
        BY <2>2 DEF Faithful, Skips, Row
    <2>5. ASSUME SoundBaseline
          PROVE  /\ u.ids = <<1>>
                 /\ h.ids = <<IF world.acts \in {"yes", "control"}
                                 /\ world.effect[c] = "first" THEN 2 ELSE 1>>
        <3>1. MaskOf(EnvOf("base"), "base") = "none"
              /\ MaskOf(EnvOf("policy"), "policy") = "none"
            BY <2>5, Unmasked DEF Arms
        <3>2. u.ids = <<IF Effect(c, EnvOf("base"), "base") = "first" THEN 2 ELSE 1>>
            BY <2>3, <3>1, UnmaskedTokens DEF Arms
        <3>3. h.ids = <<IF Effect(c, EnvOf("policy"), "policy") = "first" THEN 2 ELSE 1>>
            BY <2>4, <3>1, UnmaskedTokens DEF Arms
        <3> QED
            BY <3>2, <3>3, EffectOfArm
    <2> QED
        BY <2>1, <2>2, <2>4, <2>5
<1>2. ASSUME SoundStatistics
      PROVE  world.acts = "yes" /\ world.exact
    <2>1. world.acts \in {"no", "idle", "yes", "control"} /\ world.exact \in BOOLEAN
        <3>1. world \in WorldType(gate)
            BY GatesAssumption DEF Typed
        <3>2. ActsIn(gate) = {"no", "idle", "yes", "control"}
            BY DEF ActsIn, Skips
        <3> QED
            BY <3>1, <3>2 DEF WorldType
    <2> QED
        BY <1>1, <1>2, <2>1, FirstCase DEF SkipFails
<1>3. ASSUME SoundStatistics, SoundBaseline, NEW c \in Cases
      PROVE  world.effect[c] # "first"
    <2>1. RowOf(c, "base").ids = RowOf(c, "policy").ids
        BY DEF SkipFails
    <2> QED
        BY <1>1, <1>2, <1>3, <2>1
<1> QED
    BY <1>2, <1>3 DEF Sound

\* The two stores are read under the same mask, unless the sidecar differs.
LEMMA VariantMasks ==
    ASSUME Typed, gate = "equal"
    PROVE  /\ MaskOf(EnvOf("base"), "base") = "given"
           /\ ~Refuses(EnvOf("policy"), "policy") =>
                  /\ world.sidecar \in {"given", "other"}
                  /\ MaskOf(EnvOf("policy"), "policy") = world.sidecar
<1>1. EnvOf("base") = VariantEnv("base") /\ EnvOf("policy") = VariantEnv("policy")
    BY DEF EnvOf
<1>2. world.sidecar \in {"given", "other", "missing"}
    BY GatesAssumption DEF Typed, WorldType
<1>3. MaskOf(EnvOf("base"), "base") = "given"
    BY <1>1 DEF VariantEnv, MaskOf, Gguf
<1> QED
    BY <1>2, <1>3 DEF Refuses

LEMMA VariantTokens ==
    ASSUME Typed, gate = "equal"
    PROVE  /\ Tokens(1, EnvOf("base"), "base") \in {<<1, 1>>, <<2, 1>>}
           /\ /\ ~Refuses(EnvOf("policy"), "policy")
              /\ world.effect[1] \in {"none", "route"}
              /\ world.sidecar = "other"
              => Tokens(1, EnvOf("policy"), "policy") = <<3, 1>>
<1>1. Effect(1, EnvOf("base"), "base") = "none"
    BY EffectOfArm, FirstCase
<1>2. Tokens(1, EnvOf("base"), "base") = <<IF world.maskTells THEN 2 ELSE 1, 1>>
    BY <1>1, VariantMasks DEF Tokens
<1>3. ASSUME ~Refuses(EnvOf("policy"), "policy"), world.sidecar = "other",
             world.effect[1] \in {"none", "route"}
      PROVE  Tokens(1, EnvOf("policy"), "policy") = <<3, 1>>
    <2>1. Effect(1, EnvOf("policy"), "policy") \in {"none", "route"}
        BY <1>3, EffectOfArm, FirstCase
    <2>2. MaskOf(EnvOf("policy"), "policy") = world.sidecar /\ world.sidecar # "none"
        BY <1>3, VariantMasks
    <2> DEFINE e == Effect(1, EnvOf("policy"), "policy")
    <2>3. MaskOf(EnvOf("policy"), "policy") = "other" /\ e \in {"none", "route"}
        BY <1>3, <2>1, <2>2
    <2>4. e # "cut" /\ e # "other" /\ e # "first"
        BY <2>3
    <2> QED
        BY <2>3, <2>4 DEF Tokens
<1>4. Tokens(1, EnvOf("base"), "base") \in {<<1, 1>>, <<2, 1>>}
    BY <1>2
<1> QED
    BY <1>3, <1>4

LEMMA EqualVerdict ==
    ASSUME Typed, Collected, Appended, verdict = "running", gate = "equal",
           Len(rows) = Len(Steps), Equivalent
    PROVE  Sound
<1>1. Len(rows) = 2 /\ Steps[1] = Of(1, "base") /\ Steps[2] = Of(1, "policy")
    <2>1. Steps = <<Of(1, "base"), Of(1, "policy")>>
        BY PlanTyped
    <2> QED
        BY <2>1
<1>2. rows \in Seq(RowType) /\ Faithful(rows[1]) /\ Faithful(rows[2])
    BY <1>1 DEF Typed, Collected
<1>3. rows[1].case = 1 /\ rows[1].arm = "base" /\ rows[2].case = 1
      /\ rows[2].arm = "policy"
    BY <1>1 DEF Collected, Of
<1> DEFINE B == Tokens(1, EnvOf("base"), "base")
           P == Tokens(1, EnvOf("policy"), "policy")
<1>4. rows[1].ids = B /\ rows[2].ids = P
    <2>1. rows[1] \in RowType /\ rows[2] \in RowType
        BY <1>1, <1>2
    <2> QED
        BY <1>2, <1>3, <2>1, RowSays
<1>5. world.acts = "yes"
    BY GatesAssumption DEF Typed, WorldType, ActsIn, Skips
<1>6. /\ RowOf(1, "base").ids = B /\ RowOf(1, "policy").ids = P
      /\ RowOf(1, "base").logits
      /\ RowOf(1, "policy").logits = (world.effect[1] \in {"none", "route"})
    <2>1. PICK u : u = RowOf(1, "base") /\ u \in RowType /\ u.case = 1
                   /\ u.arm = "base" /\ Faithful(u)
        BY RowOfCase, FirstCase DEF Arms
    <2>2. PICK h : h = RowOf(1, "policy") /\ h \in RowType /\ h.case = 1
                   /\ h.arm = "policy" /\ Faithful(h)
        BY RowOfCase, FirstCase DEF Arms
    <2>3. u.ids = B /\ u.logits
        BY <2>1, RowSays
    <2>4. h.ids = P /\ h.logits = (world.effect[1] \in {"none", "route"})
        <3>1. /\ h.ids = Tokens(h.case, EnvOf("policy"), "policy")
              /\ h.logits = (world.acts = "yes" =>
                                world.effect[h.case] \in {"none", "route"})
            BY <2>2, RowSays
        <3>2. h.case = 1
            BY <2>2
        <3> QED
            BY <1>5, <3>1, <3>2
    <2> QED
        BY <2>1, <2>2, <2>3, <2>4
<1>7. ~Refuses(EnvOf("policy"), "policy") /\ world.sidecar \in {"given", "other"}
    <2>1. ~Refuses(EnvOf("policy"), "policy")
        BY <1>2, <1>3 DEF Faithful, Skips
    <2> QED
        BY <2>1, VariantMasks
<1>8. /\ B = P /\ trace["base"] = trace["policy"]
      /\ world.effect[1] \in {"none", "route"}
    <2>1. RowOf(1, "policy").logits = TRUE
        <3>1. RowOf(1, "policy") \in RowType /\ RowOf(1, "base") \in RowType
            BY RowOfCase, FirstCase DEF Arms
        <3>2. RowOf(1, "policy").logits \in BOOLEAN /\ RowOf(1, "base").logits \in BOOLEAN
            BY <3>1 DEF RowType
        <3> QED
            BY <1>6, <3>2 DEF Equivalent
    <2> QED
        BY <1>6, <2>1 DEF Equivalent
<1>9. world.sidecar = "given"
    <2>1. B \in {<<1, 1>>, <<2, 1>>} /\ (world.sidecar = "other" => P = <<3, 1>>)
        BY <1>7, <1>8, VariantTokens
    <2>2. <<3, 1>> # <<1, 1>> /\ <<3, 1>> # <<2, 1>>
        OBVIOUS
    <2> HIDE DEF B, P
    <2> QED
        BY <1>7, <1>8, <2>1, <2>2
<1>10. world.effect[1] = "none" \/ "profile" \in ambient
    <2> SUFFICES ASSUME "profile" \notin ambient
                 PROVE  world.effect[1] = "none"
        OBVIOUS
    <2> DEFINE routed == IF world.effect[1] = "route" THEN "moved" ELSE "same"
    <2>1. /\ trace["base"][Len(trace["base"])] = <<B, "same">>
          /\ trace["policy"][Len(trace["policy"])] = <<P, routed>>
        BY <1>1, <1>4 DEF Appended
    <2>2. <<B, "same">> = <<P, routed>>
        <3> HIDE DEF B, P, routed
        <3> QED
            BY <1>8, <2>1
    <2>3. routed = "same"
        <3> HIDE DEF B, P, routed
        <3> QED
            BY <2>2
    <2> QED
        BY <1>8, <2>3
<1> QED
    BY <1>8, <1>9, <1>10 DEF Sound

\* The report of the store gate finds a difference exactly where there is one.
LEMMA DivergenceIsDifference ==
    ASSUME NEW a \in Seq(1 .. 3), NEW b \in Seq(1 .. 3)
    PROVE  FirstDivergence(a, b) = None <=> a = b
<1> DEFINE at == {i \in (DOMAIN a) \union (DOMAIN b) :
                     \/ i > Len(a) \/ i > Len(b)
                     \/ i <= Len(a) /\ i <= Len(b) /\ a[i] # b[i]}
<1>1. FirstDivergence(a, b) = None <=> at = {}
    <2> DEFINE k == CHOOSE i \in at : \A j \in at : i <= j
    <2>1. FirstDivergence(a, b) = IF at # {} THEN <<k>> ELSE None
        BY DEF FirstDivergence
    <2>2. <<k>> # None
        BY DEF None
    <2> HIDE DEF at, k
    <2> QED
        BY <2>1, <2>2
<1>2. ASSUME at = {}
      PROVE  a = b
    <2>1. \A i \in (1 .. Len(a)) \union (1 .. Len(b)) :
              i <= Len(a) /\ i <= Len(b) /\ a[i] = b[i]
        BY <1>2
    <2>2. Len(a) = Len(b)
        <3>1. Len(a) > 0 => Len(a) <= Len(b)
            BY <2>1
        <3>2. Len(b) > 0 => Len(b) <= Len(a)
            BY <2>1
        <3> QED
            BY <3>1, <3>2
    <2> QED
        BY <2>1, <2>2
<1>3. a = b => at = {}
    OBVIOUS
<1> QED
    BY <1>1, <1>2, <1>3

LEMMA StoreVerdict ==
    ASSUME Typed, Collected, gate = "store", Len(rows) = Len(Steps)
    PROVE  ExactCases = {c \in Cases : world.effect[c] = "none"}
<1>1. world.acts = "yes"
    BY GatesAssumption DEF Typed, WorldType, ActsIn, Skips
<1> SUFFICES ASSUME NEW c \in Cases
             PROVE  FirstDivergence(RowOf(c, "base").ids, RowOf(c, "policy").ids) = None
                        <=> world.effect[c] = "none"
    BY DEF ExactCases
<1>2. PICK u : u = RowOf(c, "base") /\ u \in RowType /\ u.case = c
               /\ u.arm = "base" /\ Faithful(u)
    BY RowOfCase DEF Arms
<1>3. PICK h : h = RowOf(c, "policy") /\ h \in RowType /\ h.case = c
               /\ h.arm = "policy" /\ Faithful(h)
    BY RowOfCase DEF Arms
<1>4. u.ids = Tokens(c, EnvOf("base"), "base") /\ h.ids = Tokens(c, EnvOf("policy"), "policy")
    BY <1>2, <1>3, RowSays
<1>5. u.ids = <<1, 1>> /\ (h.ids = <<1, 1>> <=> world.effect[c] = "none")
    BY <1>1, <1>4, TokensTell
<1>6. u.ids \in Seq(1 .. 3) /\ h.ids \in Seq(1 .. 3)
    BY <1>2, <1>3 DEF RowType
<1> QED
    BY <1>2, <1>3, <1>5, <1>6, DivergenceIsDifference

\* A set of naturals that is not empty has a least element.
LEMMA LeastNatural ==
    ASSUME NEW S \in SUBSET Nat, S # {}
    PROVE  \E m \in S : \A k \in S : m <= k
<1>1. IsWellFoundedOn(OpToRel(<, Nat), Nat)
    BY NatLessThanWellFounded, Zenon
<1>2. PICK m \in S : \A k \in S : ~(<<k, m>> \in OpToRel(<, Nat))
    BY <1>1, WFMin, Zenon
<1>3. \A k \in S : ~(k < m)
    BY <1>2 DEF OpToRel
<1> QED
    BY <1>3

\* The recursive total of a sequence of numbers exists.
LEMMA TotalExists ==
    ASSUME NEW n \in Nat, NEW g \in [1 .. n -> Int]
    PROVE  \E f : f = [k \in 0 .. n |-> IF k = 0 THEN 0 ELSE f[k - 1] + g[k]]
<1> DEFINE Total(m) == \E f : f = [k \in 0 .. m |-> IF k = 0 THEN 0 ELSE f[k - 1] + g[k]]
           S == {m \in Nat : ~Total(m)}
<1>1. SUFFICES S = {}
    BY <1>1
<1>2. SUFFICES ASSUME S # {}
               PROVE  FALSE
    OBVIOUS
<1>3. PICK m \in S : \A k \in S : m <= k
    <2> HIDE DEF S
    <2>1. S \in SUBSET Nat
        BY DEF S
    <2> QED
        BY <1>2, <2>1, LeastNatural
<1>4. CASE m = 0
    <2> DEFINE f == [k \in 0 .. 0 |-> 0]
    <2>1. f = [k \in 0 .. 0 |-> IF k = 0 THEN 0 ELSE f[k - 1] + g[k]]
        OBVIOUS
    <2>2. Total(0)
        BY <2>1
    <2> QED
        BY <1>4, <2>2
<1>5. CASE m # 0
    <2>0. m \in Nat /\ \A k \in S : m <= k
        BY <1>3
    <2>1. m \in Nat /\ m - 1 \in Nat /\ m - 1 \notin S
        <3> HIDE DEF S
        <3> QED
            BY <2>0, <1>5
    <2>2. PICK f : f = [k \in 0 .. m - 1 |-> IF k = 0 THEN 0 ELSE f[k - 1] + g[k]]
        BY <2>1
    <2> DEFINE h == [k \in 0 .. m |-> IF k = 0 THEN 0 ELSE f[k - 1] + g[k]]
    <2>3. \A k \in 0 .. m - 1 : f[k] = IF k = 0 THEN 0 ELSE f[k - 1] + g[k]
        BY <2>2
    <2>4. \A k \in 0 .. m - 1 : h[k] = f[k]
        BY <2>1, <2>3
    <2>5. h = [k \in 0 .. m |-> IF k = 0 THEN 0 ELSE h[k - 1] + g[k]]
        <3>1. \A k \in 0 .. m : k # 0 => k - 1 \in 0 .. m - 1
            BY <2>1
        <3>2. \A k \in 0 .. m : k # 0 => h[k - 1] = f[k - 1]
            BY <2>4, <3>1
        <3> QED
            BY <3>2
    <2>6. Total(m)
        <3> HIDE DEF h
        <3> QED
            BY <2>5
    <2> QED
        BY <1>3, <2>6
<1> QED
    BY <1>4, <1>5

LEMMA ReadsTotal ==
    ASSUME NEW a, \A c \in Cases : RowOf(c, a).reads \in Int
    PROVE  \E f \in [0 .. NumCases -> Int] :
               /\ f[0] = 0
               /\ \A k \in 1 .. NumCases : f[k] = f[k - 1] + RowOf(k, a).reads
               /\ Reads(a) = f[NumCases]
<1> USE GatesAssumption
<1> DEFINE g == [k \in 1 .. NumCases |-> RowOf(k, a).reads]
           F == CHOOSE f : f = [k \in 0 .. NumCases |->
                    IF k = 0 THEN 0 ELSE f[k - 1] + RowOf(k, a).reads]
<1>1. g \in [1 .. NumCases -> Int]
    BY DEF Cases
<1>2. \E f : f = [k \in 0 .. NumCases |-> IF k = 0 THEN 0 ELSE f[k - 1] + g[k]]
    <2> HIDE DEF g
    <2> QED
        BY <1>1, TotalExists
<1>3. PICK f0 : f0 = [k \in 0 .. NumCases |-> IF k = 0 THEN 0 ELSE f0[k - 1] + g[k]]
    BY <1>2
<1>4. f0 = [k \in 0 .. NumCases |-> IF k = 0 THEN 0 ELSE f0[k - 1] + RowOf(k, a).reads]
    <2>1. \A k \in 0 .. NumCases : k # 0 => g[k] = RowOf(k, a).reads
        OBVIOUS
    <2> HIDE DEF g
    <2> QED
        BY <1>3, <2>1
<1>5. F = [k \in 0 .. NumCases |-> IF k = 0 THEN 0 ELSE F[k - 1] + RowOf(k, a).reads]
    BY <1>4
<1>6. Reads(a) = F[NumCases]
    BY DEF Reads
<1> HIDE DEF F
<1>7. F[0] = 0 /\ \A k \in 1 .. NumCases : F[k] = F[k - 1] + RowOf(k, a).reads
    BY <1>5
<1>8. \A k \in 0 .. NumCases : F[k] \in Int
    <2> DEFINE S == {k \in 0 .. NumCases : F[k] \notin Int}
    <2> SUFFICES ASSUME S # {}
                 PROVE  FALSE
        OBVIOUS
    <2>1. PICK m \in S : \A k \in S : m <= k
        <3>1. S \in SUBSET Nat
            OBVIOUS
        <3> HIDE DEF S
        <3> QED
            BY <3>1, LeastNatural
    <2>2. m # 0 /\ m - 1 \in 0 .. NumCases /\ m - 1 \notin S
        BY <1>7, <2>1
    <2>3. F[m - 1] \in Int /\ RowOf(m, a).reads \in Int /\ m \in 1 .. NumCases
        BY <2>1, <2>2 DEF Cases
    <2> QED
        BY <1>7, <2>1, <2>3
<1>9. F \in [0 .. NumCases -> Int]
    BY <1>5, <1>8
<1> QED
    BY <1>6, <1>7, <1>9

\* A suite in which no case saves a read saves none.
LEMMA SavesNowhere ==
    ASSUME \A c \in Cases : /\ RowOf(c, "base").reads \in Int
                            /\ RowOf(c, "policy").reads \in Int
                            /\ RowOf(c, "policy").reads >= RowOf(c, "base").reads
    PROVE  Reads("policy") >= Reads("base")
<1> USE GatesAssumption
<1>1. PICK b \in [0 .. NumCases -> Int] :
          /\ b[0] = 0
          /\ \A k \in 1 .. NumCases : b[k] = b[k - 1] + RowOf(k, "base").reads
          /\ Reads("base") = b[NumCases]
    BY ReadsTotal
<1>2. PICK p \in [0 .. NumCases -> Int] :
          /\ p[0] = 0
          /\ \A k \in 1 .. NumCases : p[k] = p[k - 1] + RowOf(k, "policy").reads
          /\ Reads("policy") = p[NumCases]
    BY ReadsTotal
<1> DEFINE S == {k \in 1 .. NumCases : ~(p[k] >= b[k])}
<1>3. S = {}
    <2> SUFFICES ASSUME S # {}
                 PROVE  FALSE
        OBVIOUS
    <2>1. PICK m \in S : \A k \in S : m <= k
        <3>1. S \in SUBSET Nat
            OBVIOUS
        <3> HIDE DEF S
        <3> QED
            BY <3>1, LeastNatural
    <2>2. p[m - 1] >= b[m - 1]
        <3>1. CASE m = 1
            BY <1>1, <1>2, <3>1
        <3>2. CASE m # 1
            <4>1. m - 1 \in 1 .. NumCases /\ m - 1 \notin S
                BY <2>1, <3>2
            <4>2. p[m - 1] >= b[m - 1]
                BY <4>1
            <4>3. p[m - 1] \in Int /\ b[m - 1] \in Int
                BY <1>1, <1>2, <4>1
            <4> QED
                BY <4>2, <4>3
        <3> QED
            BY <3>1, <3>2
    <2>3. /\ p[m] = p[m - 1] + RowOf(m, "policy").reads
          /\ b[m] = b[m - 1] + RowOf(m, "base").reads
        BY <1>1, <1>2, <2>1
    <2>4. /\ p[m - 1] \in Int /\ b[m - 1] \in Int
          /\ RowOf(m, "policy").reads \in Int /\ RowOf(m, "base").reads \in Int
          /\ RowOf(m, "policy").reads >= RowOf(m, "base").reads
        BY <1>1, <1>2, <2>1 DEF Cases
    <2>5. p[m] >= b[m]
        BY <2>2, <2>3, <2>4
    <2> QED
        BY <2>1, <2>5
<1>4. NumCases \in 1 .. NumCases
    OBVIOUS
<1>5. p[NumCases] >= b[NumCases]
    BY <1>3, <1>4
<1> QED
    BY <1>1, <1>2, <1>5

LEMMA DiverseVerdict ==
    ASSUME Typed, Collected, gate = "diverse", Len(rows) = Len(Steps),
           ~DiverseFails(world.least)
    PROVE  Sound
<1>1. \A c \in Cases : /\ RowOf(c, "base").ids = RowOf(c, "policy").ids
                       /\ ~HystFails(RowOf(c, "base"), RowOf(c, "policy"))
                       /\ ~(Len(RowOf(c, "base").ids) < world.least)
    BY DEF DiverseFails
<1>2. /\ \A c \in Cases : world.effect[c] = "none"
      /\ world.acts = "yes"
      /\ \A c \in Cases, a \in Arms : <<c, a>> \notin world.failed
    BY <1>1, HystSound
<1>3. \A c \in Cases :
          LET u == RowOf(c, "base")
              h == RowOf(c, "policy")
          IN  /\ u.ids = <<1, 1>> /\ h.reads = 5 - world.saved[c]
              /\ u.reads = 5 /\ u.reads \in Int /\ h.reads \in Int
    BY <1>2, HystRows
<1>4. world.saved \in [Cases -> Int] /\ world.least \in Nat
    BY GatesAssumption DEF Typed, WorldType
<1>5. world.least <= 2
    <2>1. Len(RowOf(1, "base").ids) = 2
        <3>1. RowOf(1, "base").ids = <<1, 1>>
            BY <1>3, FirstCase
        <3>2. Len(<<1, 1>>) = 2
            OBVIOUS
        <3> QED
            BY <3>1, <3>2
    <2>2. ~(2 < world.least)
        BY <1>1, <2>1, FirstCase
    <2> QED
        BY <1>4, <2>2
<1>6. \E c \in Cases : world.saved[c] > 0
    <2> SUFFICES ASSUME \A c \in Cases : ~(world.saved[c] > 0)
                 PROVE  FALSE
        OBVIOUS
    <2>1. \A c \in Cases : RowOf(c, "policy").reads >= RowOf(c, "base").reads
        <3> SUFFICES ASSUME NEW c \in Cases
                     PROVE  RowOf(c, "policy").reads >= RowOf(c, "base").reads
            OBVIOUS
        <3>1. RowOf(c, "policy").reads = 5 - world.saved[c] /\ RowOf(c, "base").reads = 5
            BY <1>3
        <3>2. world.saved[c] \in Int /\ ~(world.saved[c] > 0)
            BY <1>4
        <3> QED
            BY <3>1, <3>2
    <2>2. Reads("policy") >= Reads("base")
        BY <1>3, <2>1, SavesNowhere
    <2> QED
        BY <2>2 DEF DiverseFails
<1> QED
    BY <1>2, <1>5, <1>6 DEF Sound, Judged

----------------------------------------------------------------------------
(* The invariant is inductive. *)

\* Within one invocation the surroundings stand, and with them all that is
\* said about a row, a pass or a refusal.
LEMMA Unmoved ==
    ASSUME UNCHANGED <<gate, world, ambient, reruns>>
    PROVE  /\ Steps' = Steps
           /\ \A r : Faithful(r)' <=> Faithful(r)
           /\ Sound' <=> Sound
           /\ SoundStatistics' <=> SoundStatistics
<1>1. Steps' = Steps
    BY DEF Steps, TrunkOrder, Alternating, BaseFirst, Of
<1>2. \A a : EnvOf(a)' = EnvOf(a)
    BY DEF EnvOf, PinEnv, SkipEnv, HardVLEnv, VariantEnv
<1>3. \A env, a : /\ PolicyOn(env, a)' = PolicyOn(env, a)
                  /\ MaskOf(env, a)' = MaskOf(env, a)
                  /\ Refuses(env, a)' = Refuses(env, a)
    BY DEF PolicyOn, MaskOf, Refuses
<1>4. \A env, a : Acts(env, a)' = Acts(env, a)
    BY <1>3 DEF Acts
<1>5. \A c, env, a : Effect(c, env, a)' = Effect(c, env, a)
    BY <1>4 DEF Effect
<1>6. \A c, env, a : Tokens(c, env, a)' = Tokens(c, env, a)
    BY <1>3, <1>5 DEF Tokens
<1>7. \A c, env, a : Text(c, env, a)' = Text(c, env, a)
    BY <1>5 DEF Text
<1>8. \A env : Marker(env)' = Marker(env)
    BY DEF Marker
<1>9. \A c, a, env : Row(c, a, env)' = Row(c, a, env)
    BY <1>4, <1>5, <1>6, <1>7, <1>8 DEF Row
<1>10. SoundStatistics' <=> SoundStatistics
    BY DEF SoundStatistics
<1>11. SoundBaseline' <=> SoundBaseline
    BY DEF SoundBaseline
<1>12. \A r : Faithful(r)' <=> Faithful(r)
    BY <1>2, <1>3, <1>9, <1>10 DEF Faithful
<1>13. Sound' <=> Sound
    BY <1>10, <1>11 DEF Sound
<1> QED
    BY <1>1, <1>10, <1>12, <1>13

\* A faithful row of the next run extends the collection.
LEMMA RowCollected ==
    ASSUME Typed, Collected, Running, UNCHANGED <<gate, world, ambient, reruns>>,
           NEW row \in RowType, row.case = Step.case, row.arm = Step.arm,
           Faithful(row), rows' = Append(rows, row)
    PROVE  rows' \in Seq(RowType) /\ Collected'
<1> DEFINE n == Len(rows)
<1>1. rows \in Seq(RowType) /\ n \in Nat
    BY DEF Typed
<1>2. Steps \in Seq([case : Cases, arm : Arms]) /\ Len(Steps) \in Nat /\ n < Len(Steps)
    <2>1. Steps \in Seq([case : Cases, arm : Arms])
        BY PlanTyped
    <2> DEFINE R == [case : Cases, arm : Arms]
    <2>2. Len(Steps) \in Nat
        <3> HIDE DEF R
        <3> QED
            BY <2>1 DEF R
    <2> QED
        BY <2>1, <2>2 DEF Running
<1>3. /\ rows' \in Seq(RowType) /\ Len(rows') = n + 1
      /\ \A i \in 1 .. n : rows'[i] = rows[i]
      /\ rows'[n + 1] = row
    BY <1>1
<1>4. \A i \in 1 .. Len(rows') : /\ rows'[i].case = Steps[i].case
                                 /\ rows'[i].arm = Steps[i].arm
                                 /\ Faithful(rows'[i])
    <2> SUFFICES ASSUME NEW i \in 1 .. n + 1
                 PROVE  /\ rows'[i].case = Steps[i].case
                        /\ rows'[i].arm = Steps[i].arm
                        /\ Faithful(rows'[i])
        BY <1>3
    <2>1. CASE i = n + 1
        BY <1>3, <2>1 DEF Step
    <2>2. CASE i # n + 1
        <3>1. i \in 1 .. n
            BY <1>1, <2>2
        <3> QED
            BY <1>3, <3>1 DEF Collected
    <2> QED
        BY <2>1, <2>2
<1>5. Len(rows') <= Len(Steps)
    BY <1>1, <1>2, <1>3
<1>6. Collected'
    <2>1. Steps' = Steps /\ \A r : Faithful(r)' <=> Faithful(r)
        BY Unmoved
    <2> QED
        BY <1>4, <1>5, <2>1 DEF Collected
<1> QED
    BY <1>3, <1>6

\* The next run belongs to the suite.
LEMMA StepTyped ==
    ASSUME Typed, Running
    PROVE  /\ Step.case \in Cases /\ Step.arm \in Arms
           /\ Len(rows) \in Nat /\ Len(rows) + 1 \in 1 .. Len(Steps)
<1> DEFINE R == [case : Cases, arm : Arms]
<1>1. Steps \in Seq(R)
    BY PlanTyped
<1>2. Len(rows) \in Nat /\ Len(rows) < Len(Steps)
    BY DEF Typed, Running
<1>3. Steps[Len(rows) + 1] \in R /\ Len(rows) + 1 \in 1 .. Len(Steps)
    <2> HIDE DEF R
    <2> QED
        BY <1>1, <1>2
<1> QED
    BY <1>2, <1>3 DEF Step

\* The steps that leave the traces, and the gate of the traces, alone.
LEMMA OtherGate ==
    ASSUME Appended, gate # "equal", gate' = gate
    PROVE  Appended'
<1> QED
    BY DEF Appended

LEMMA RunStep ==
    ASSUME GatesInv, gate \in {"trunk", "math", "diverse", "store"},
           Run(EnvOf(Step.arm))
    PROVE  GatesInv'
<1> DEFINE row == Row(Step.case, Step.arm, EnvOf(Step.arm))
<1>1. Typed /\ Collected /\ Running /\ rows' = Append(rows, row)
      /\ UNCHANGED <<gate, world, ambient, reruns, trace, stats, verdict, report>>
    BY DEF GatesInv, Run, Keep
<1>2. row \in RowType
    BY <1>1, StepTyped, RowTyped
<1>3. row.case = Step.case /\ row.arm = Step.arm /\ Faithful(row)
    <2>1. row.case = Step.case /\ row.arm = Step.arm
        BY DEF Row
    <2> HIDE DEF row
    <2>2. row = Row(row.case, row.arm, EnvOf(row.arm))
        BY <2>1 DEF row
    <2> QED
        BY <2>1, <2>2 DEF Faithful, Skips
<1>4. rows' \in Seq(RowType) /\ Collected'
    <2> HIDE DEF row
    <2> QED
        BY <1>1, <1>2, <1>3, RowCollected
<1>5. Typed'
    BY <1>1, <1>4 DEF Typed
<1>6. Appended'
    BY <1>1, OtherGate DEF GatesInv
<1>7. Written'
    BY <1>1 DEF Written, Skips
<1>8. Concluded'
    BY <1>1 DEF Concluded, Running
<1> QED
    BY <1>4, <1>5, <1>6, <1>7, <1>8 DEF GatesInv

LEMMA SkippingStep ==
    ASSUME GatesInv, gate \in Skips, RunSkipping(EnvOf(Step.arm))
    PROVE  GatesInv'
<1> DEFINE env == EnvOf(Step.arm)
           plain == Row(Step.case, Step.arm, env)
           own == [says |-> world.acts, exact |-> world.exact]
           written == IF Step.arm = "base" \/ world.acts = "no" THEN stats
                      ELSE [stats EXCEPT ![Step.case] = own]
           file == written[Step.case]
           read == [plain EXCEPT !.acted = file.says # "idle",
                                 !.control = file.says = "control",
                                 !.exact = file.exact]
           row == IF Step.arm = "base" THEN plain ELSE read
<1>1. /\ Typed /\ Collected /\ Running /\ stats' = written
      /\ UNCHANGED <<gate, world, ambient, reruns, trace, report>>
      /\ \/ verdict' = "refused" /\ UNCHANGED rows
         \/ /\ Step.arm = "policy" => file.says # "absent"
            /\ rows' = Append(rows, row) /\ UNCHANGED verdict
    <2>1. "policy" # "base"
        OBVIOUS
    <2> QED
        BY <2>1 DEF GatesInv, RunSkipping, Keep
<1>2. Step.case \in Cases /\ Step.arm \in Arms
    BY <1>1, StepTyped
<1>3. world.acts \in {"no", "idle", "yes", "control"} /\ world.exact \in BOOLEAN
    <2>1. world \in WorldType(gate)
        BY <1>1, GatesAssumption DEF Typed
    <2>2. ActsIn(gate) = {"no", "idle", "yes", "control"}
        BY DEF ActsIn, Skips
    <2> QED
        BY <2>1, <2>2 DEF WorldType
<1>4. stats \in [Cases -> StatsType]
    BY <1>1 DEF Typed
<1>5. written \in [Cases -> StatsType]
    <2>1. world.acts # "no" => own \in StatsType
        BY <1>3 DEF StatsType
    <2> HIDE DEF own
    <2> QED
        BY <1>2, <1>4, <2>1
<1>6. SoundStatistics => \A c \in Cases : written[c].says # "absent" =>
          /\ written[c].says = world.acts /\ world.acts # "no"
          /\ written[c].exact = world.exact
    <2>1. SoundStatistics => \A c \in Cases : stats[c].says # "absent" =>
              /\ stats[c].says = world.acts /\ world.acts # "no"
              /\ stats[c].exact = world.exact
        BY DEF GatesInv, Written
    <2>2. own.says = world.acts /\ own.exact = world.exact
        OBVIOUS
    <2> HIDE DEF own
    <2> QED
        BY <1>2, <1>4, <2>1, <2>2
<1>7. Written'
    <2>1. SoundStatistics' <=> SoundStatistics
        BY <1>1, Unmoved
    <2> QED
        BY <1>1, <1>6, <2>1 DEF Written
<1>8. Appended'
    BY <1>1, OtherGate DEF GatesInv, Skips
<1>9. CASE verdict' = "refused" /\ UNCHANGED rows
    <2>1. Collected'
        <3>1. Steps' = Steps /\ \A r : Faithful(r)' <=> Faithful(r)
            BY <1>1, Unmoved
        <3> QED
            BY <1>1, <1>9, <3>1 DEF Collected
    <2>2. Typed'
        BY <1>1, <1>5, <1>9 DEF Typed
    <2>3. Concluded'
        BY <1>9 DEF Concluded
    <2> QED
        BY <1>7, <1>8, <2>1, <2>2, <2>3 DEF GatesInv
<1>10. CASE /\ Step.arm = "policy" => file.says # "absent"
            /\ rows' = Append(rows, row) /\ UNCHANGED verdict
    <2>1. plain \in RowType /\ plain.case = Step.case /\ plain.arm = Step.arm
        BY <1>1, <1>2, RowTyped DEF Row
    <2>2. file \in StatsType
        BY <1>2, <1>5
    <2>3. /\ row \in RowType /\ row.case = Step.case /\ row.arm = Step.arm
          /\ row.ids = plain.ids /\ row.text = plain.text
          /\ Step.arm = "policy" =>
                 /\ row.acted = (file.says # "idle") /\ row.control = (file.says = "control")
                 /\ row.exact = file.exact
        <3> HIDE DEF plain, file
        <3> QED
            BY <2>1, <2>2 DEF RowType, StatsType
    <2>4. Step.arm = "policy" /\ SoundStatistics =>
              /\ file.says = world.acts /\ world.acts # "no"
              /\ file.exact = world.exact
        <3> HIDE DEF row, written
        <3> QED
            BY <1>2, <1>6, <1>10
    <2>5. Faithful(row)
        <3> HIDE DEF row
        <3>1. plain = Row(row.case, row.arm, EnvOf(row.arm))
            BY <2>3
        <3> HIDE DEF plain, file
        <3> QED
            BY <2>3, <2>4, <3>1 DEF Faithful
    <2>6. rows' \in Seq(RowType) /\ Collected'
        <3> HIDE DEF row
        <3> QED
            BY <1>1, <1>10, <2>3, <2>5, RowCollected
    <2>7. Typed'
        BY <1>1, <1>5, <1>10, <2>6 DEF Typed
    <2>8. Concluded'
        BY <1>1, <1>10 DEF Concluded, Running
    <2> QED
        BY <1>7, <1>8, <2>6, <2>7, <2>8 DEF GatesInv
<1> QED
    BY <1>1, <1>9, <1>10

LEMMA CalibrationStep ==
    ASSUME GatesInv, RunCalibration
    PROVE  GatesInv'
<1> DEFINE env == ambient \ {"hyst"}
           row == Row(Step.case, "base", env)
<1>1. /\ gate = "calibrate" /\ Typed /\ Collected /\ Running
      /\ UNCHANGED <<gate, world, ambient, reruns, trace, stats, report>>
      /\ \/ rows' = Append(rows, row) /\ UNCHANGED verdict
         \/ /\ ~(row.clean /\ row.marker = "topweight")
            /\ verdict' = "refused" /\ UNCHANGED rows
    BY DEF GatesInv, RunCalibration, Keep
<1>2. Step.arm = "base" /\ Step.case \in Cases
    BY <1>1, StepTyped, PlanTyped DEF Step
<1>3. EnvOf("base") = env
    BY <1>1 DEF EnvOf
<1>4. Appended'
    BY <1>1, OtherGate DEF GatesInv
<1>5. Written'
    BY <1>1 DEF Written, Skips
<1>6. CASE rows' = Append(rows, row) /\ UNCHANGED verdict
    <2>1. row \in RowType /\ row.case = Step.case /\ row.arm = Step.arm
        BY <1>1, <1>2, RowTyped DEF Row, Arms
    <2>2. Faithful(row)
        <3> HIDE DEF row
        <3>1. row = Row(row.case, row.arm, EnvOf(row.arm))
            BY <1>2, <1>3, <2>1 DEF row
        <3> QED
            BY <1>1, <3>1 DEF Faithful, Skips
    <2>3. rows' \in Seq(RowType) /\ Collected'
        <3> HIDE DEF row
        <3> QED
            BY <1>1, <1>6, <2>1, <2>2, RowCollected
    <2>4. Typed'
        BY <1>1, <1>6, <2>3 DEF Typed
    <2>5. Concluded'
        BY <1>1, <1>6 DEF Concluded, Running
    <2> QED
        BY <1>4, <1>5, <2>3, <2>4, <2>5 DEF GatesInv
<1>7. CASE /\ ~(row.clean /\ row.marker = "topweight")
           /\ verdict' = "refused" /\ UNCHANGED rows
    <2>1. Collected'
        <3>1. Steps' = Steps /\ \A r : Faithful(r)' <=> Faithful(r)
            BY <1>1, Unmoved
        <3> QED
            BY <1>1, <1>7, <3>1 DEF Collected
    <2>2. Typed'
        BY <1>1, <1>7 DEF Typed
    <2>3. Concluded'
        BY <1>7 DEF Concluded
    <2> QED
        BY <1>4, <1>5, <2>1, <2>2, <2>3 DEF GatesInv
<1> QED
    BY <1>1, <1>6, <1>7

LEMMA VariantStep ==
    ASSUME GatesInv, RunVariant
    PROVE  GatesInv'
<1> DEFINE env == VariantEnv(Step.arm)
           row == Row(1, Step.arm, env)
           entry == <<row.ids, Routes(1, env, Step.arm)>>
           now == IF "profile" \in ambient THEN trace
                  ELSE [trace EXCEPT ![Step.arm] = Append(trace[Step.arm], entry)]
<1>1. /\ gate = "equal" /\ Typed /\ Collected /\ Appended /\ Running
      /\ UNCHANGED <<gate, world, ambient, reruns, stats, report>>
      /\ \/ verdict' = "refused" /\ UNCHANGED <<rows, trace>>
         \/ /\ ~Refuses(env, Step.arm) /\ rows' = Append(rows, row)
            /\ trace' = now /\ UNCHANGED verdict
    BY DEF GatesInv, RunVariant, Keep
<1>2. Step.case = 1 /\ Step.arm \in Arms /\ 1 \in Cases
    <2>1. Steps = <<Of(1, "base"), Of(1, "policy")>>
        BY <1>1, PlanTyped
    <2>2. Len(rows) + 1 \in 1 .. 2
        BY <1>1, <2>1, StepTyped
    <2> QED
        BY <1>1, <2>1, <2>2, StepTyped, FirstCase DEF Step, Of
<1>3. EnvOf(Step.arm) = env
    BY <1>1 DEF EnvOf
<1>4. Written'
    BY <1>1 DEF Written, Skips
<1>5. CASE verdict' = "refused" /\ UNCHANGED <<rows, trace>>
    <2>1. Collected'
        <3>1. Steps' = Steps /\ \A r : Faithful(r)' <=> Faithful(r)
            BY <1>1, Unmoved
        <3> QED
            BY <1>1, <1>5, <3>1 DEF Collected
    <2>2. Appended'
        BY <1>1, <1>5 DEF Appended
    <2>3. Typed'
        BY <1>1, <1>5 DEF Typed
    <2>4. Concluded'
        BY <1>5 DEF Concluded
    <2> QED
        BY <1>4, <2>1, <2>2, <2>3, <2>4 DEF GatesInv
<1>6. CASE /\ ~Refuses(env, Step.arm) /\ rows' = Append(rows, row)
           /\ trace' = now /\ UNCHANGED verdict
    <2>1. row \in RowType /\ row.case = 1 /\ row.arm = Step.arm
        BY <1>1, <1>2, RowTyped DEF Row
    <2>2. Faithful(row)
        <3> HIDE DEF row
        <3>1. row = Row(row.case, row.arm, EnvOf(row.arm))
            BY <1>3, <2>1 DEF row
        <3> QED
            BY <1>1, <1>3, <1>6, <2>1, <3>1 DEF Faithful, Skips
    <2>3. rows' \in Seq(RowType) /\ Collected'
        <3> HIDE DEF row
        <3> QED
            BY <1>1, <1>2, <1>6, <2>1, <2>2, RowCollected
    <2>4. entry \in TraceEntry
        <3>1. row.ids \in Seq(1 .. 3) /\ Routes(1, env, Step.arm) \in {"same", "moved"}
            BY <2>1 DEF RowType, Routes
        <3> HIDE DEF row, env
        <3> QED
            BY <3>1 DEF TraceEntry
    <2>5. trace \in [Arms -> Seq(TraceEntry)]
        BY <1>1 DEF Typed
    <2>6. trace' \in [Arms -> Seq(TraceEntry)]
        <3> HIDE DEF entry
        <3>1. Append(trace[Step.arm], entry) \in Seq(TraceEntry)
            BY <1>2, <2>4, <2>5
        <3>2. [trace EXCEPT ![Step.arm] = Append(trace[Step.arm], entry)]
                  \in [Arms -> Seq(TraceEntry)]
            BY <1>2, <2>5, <3>1
        <3> QED
            BY <1>6, <2>5, <3>2
    <2>7. Typed'
        BY <1>1, <1>6, <2>3, <2>6 DEF Typed
    <2>8. Concluded'
        BY <1>1, <1>6 DEF Concluded, Running
    <2>9. ASSUME "profile" \notin ambient
          PROVE  Appended'
        <3>0. trace' = [trace EXCEPT ![Step.arm] = Append(trace[Step.arm], entry)]
            BY <1>6, <2>9
        <3>1. Steps[1] = Of(1, "base") /\ Steps[2] = Of(1, "policy") /\ Len(Steps) = 2
            <4>1. Steps = <<Of(1, "base"), Of(1, "policy")>>
                BY <1>1, PlanTyped
            <4> QED
                BY <4>1
        <3>2. rows \in Seq(RowType) /\ Len(rows) \in {0, 1} /\ verdict = "running"
            <4>1. rows \in Seq(RowType) /\ verdict = "running"
                BY <1>1 DEF Typed, Running
            <4>2. Len(rows) \in Nat
                BY <4>1
            <4>3. Len(rows) < Len(Steps)
                BY <1>1 DEF Running
            <4>4. Len(rows) \in {0, 1}
                <5> DEFINE n == Len(rows)
                           m == Len(Steps)
                <5>1. m = 2 /\ n \in Nat /\ n < m
                    BY <3>1, <4>2, <4>3
                <5> HIDE DEF n, m
                <5>2. n \in {0, 1}
                    BY <5>1
                <5> QED
                    BY <5>2 DEF n
            <4> QED
                BY <4>1, <4>4
        <3>3. /\ trace["base"] \in Seq(TraceEntry) /\ trace["policy"] \in Seq(TraceEntry)
            BY <2>5 DEF Arms
        <3>4. CASE Len(rows) = 0
            <4>1. Step.arm = "base"
                BY <3>1, <3>4 DEF Step, Of
            <4>2. entry = <<row.ids, "same">>
                <5>1. Effect(1, env, Step.arm) = "none"
                    BY <1>1, <1>2, <1>3, <4>1, EffectOfArm
                <5> HIDE DEF row, env
                <5> QED
                    BY <5>1 DEF Routes
            <4>3. Len(rows') = 1 /\ rows'[1] = row
                <5> HIDE DEF row
                <5> QED
                    BY <1>6, <2>1, <3>2, <3>4
            <4>4. trace'["base"] = Append(trace["base"], entry) /\ trace'["policy"] = trace["policy"]
                <5> HIDE DEF entry
                <5> QED
                    BY <3>0, <2>5, <4>1 DEF Arms
            <4>5. /\ trace'["base"] # <<>> /\ Len(trace'["base"]) = Len(trace["base"]) + 1
                  /\ trace'["base"][Len(trace'["base"])] = entry
                <5> HIDE DEF entry
                <5> QED
                    BY <2>4, <3>3, <4>4
            <4> HIDE DEF entry, row
            <4> QED
                BY <1>1, <4>2, <4>3, <4>4, <4>5 DEF Appended
        <3>5. CASE Len(rows) = 1
            <4>1. Step.arm = "policy"
                BY <3>1, <3>5 DEF Step, Of
            <4>2. entry = <<row.ids, IF world.effect[1] = "route"
                                     THEN "moved" ELSE "same">>
                <5>1. world.acts = "yes"
                    BY <1>1, GatesAssumption DEF Typed, WorldType, ActsIn, Skips
                <5>2. Effect(1, env, Step.arm) = world.effect[1]
                    BY <1>1, <1>2, <1>3, <4>1, <5>1, EffectOfArm
                <5> HIDE DEF row, env
                <5> QED
                    BY <5>2 DEF Routes
            <4>3. Len(rows') = 2 /\ rows'[1] = rows[1] /\ rows'[2] = row
                <5> HIDE DEF row
                <5>1. Len(rows') = Len(rows) + 1 /\ rows'[Len(rows) + 1] = row
                      /\ \A i \in 1 .. Len(rows) : rows'[i] = rows[i]
                    BY <1>6, <2>1, <3>2
                <5> QED
                    BY <3>5, <5>1
            <4>4. trace'["policy"] = Append(trace["policy"], entry) /\ trace'["base"] = trace["base"]
                <5> HIDE DEF entry
                <5> QED
                    BY <3>0, <2>5, <4>1 DEF Arms
            <4>5. /\ trace'["policy"] # <<>>
                  /\ Len(trace'["policy"]) = Len(trace["policy"]) + 1
                  /\ trace'["policy"][Len(trace'["policy"])] = entry
                <5> HIDE DEF entry
                <5> QED
                    BY <2>4, <3>3, <4>4
            <4>6. /\ trace["base"] # <<>>
                  /\ trace["base"][Len(trace["base"])] = <<rows[1].ids, "same">>
                BY <1>1, <2>9, <3>5 DEF Appended
            <4> HIDE DEF entry, row
            <4> QED
                BY <1>1, <4>2, <4>3, <4>4, <4>5, <4>6 DEF Appended
        <3> QED
            BY <3>2, <3>4, <3>5
    <2>10. Appended'
        BY <1>1, <2>9 DEF Appended
    <2> QED
        BY <1>4, <2>3, <2>7, <2>8, <2>10 DEF GatesInv
<1> QED
    BY <1>1, <1>5, <1>6

\* A step that leaves the rows and the two kinds of files keeps all but what
\* is concluded.
LEMMA OnlyTheVerdict ==
    ASSUME GatesInv, Keep, UNCHANGED <<rows, trace, stats>>,
           verdict' \in {"pass", "fail", "refused", "died", "report"}
    PROVE  Typed' /\ Collected' /\ Appended' /\ Written'
<1>1. UNCHANGED <<gate, world, ambient, reruns>>
    BY DEF Keep
<1>2. Steps' = Steps /\ (\A r : Faithful(r)' <=> Faithful(r))
      /\ (SoundStatistics' <=> SoundStatistics)
    BY <1>1, Unmoved
<1>3. Typed'
    BY <1>1 DEF GatesInv, Typed
<1>4. Collected'
    BY <1>2 DEF GatesInv, Collected
<1>5. Appended'
    BY <1>1 DEF GatesInv, Appended
<1>6. Written'
    BY <1>1, <1>2 DEF GatesInv, Written
<1> QED
    BY <1>3, <1>4, <1>5, <1>6

LEMMA JudgeStep ==
    ASSUME GatesInv, NEW g, NEW fails \in BOOLEAN, NEW said, Judge(g, fails, said),
           ~fails => Sound
    PROVE  GatesInv'
<1>1. /\ Keep /\ UNCHANGED <<rows, trace, stats>> /\ verdict = "running"
      /\ verdict' = IF fails THEN "fail" ELSE "pass"
    BY DEF Judge, Finished
<1>2. Sound' <=> Sound
    BY <1>1, Unmoved DEF Keep
<1>3. Concluded'
    BY <1>1, <1>2 DEF Concluded
<1> QED
    BY <1>1, <1>3, OnlyTheVerdict DEF GatesInv

LEMMA ReportStep ==
    ASSUME GatesInv, ReportStore \/ ReportCalibration
    PROVE  GatesInv'
<1>1. /\ Keep /\ UNCHANGED <<rows, trace, stats>> /\ verdict = "running"
      /\ verdict' = "report" /\ Len(rows) = Len(Steps)
    BY DEF ReportStore, ReportCalibration, Finished
<1>2. gate = "store" => report' = <<{c \in Cases : world.effect[c] = "none"}>>
    <2>1. ASSUME gate = "store"
          PROVE  report' = <<ExactCases>>
        BY <2>1 DEF ReportStore, ReportCalibration
    <2>2. ASSUME gate = "store"
          PROVE  ExactCases = {c \in Cases : world.effect[c] = "none"}
        BY <1>1, <2>2, StoreVerdict DEF GatesInv
    <2> QED
        BY <2>1, <2>2
<1>3. Concluded'
    BY <1>1, <1>2 DEF Concluded, Keep
<1> QED
    BY <1>1, <1>3, OnlyTheVerdict DEF GatesInv

LEMMA RescoreStep ==
    ASSUME GatesInv, Rescore
    PROVE  GatesInv'
<1>1. /\ Keep /\ UNCHANGED <<rows, trace, stats, verdict>>
      /\ verdict \in {"pass", "fail"}
    BY DEF Rescore
<1>2. Sound' <=> Sound
    BY <1>1, Unmoved DEF Keep
<1>3. Concluded'
    BY <1>1, <1>2 DEF Concluded, GatesInv
<1> QED
    BY <1>1, <1>3, OnlyTheVerdict DEF GatesInv

LEMMA RefuseStep ==
    ASSUME GatesInv, RefuseEquivalence
    PROVE  GatesInv'
<1>1. /\ Keep /\ UNCHANGED <<rows, trace, stats>> /\ verdict = "running"
      /\ verdict' = "refused"
    BY DEF RefuseEquivalence, Running
<1>2. Concluded'
    BY <1>1 DEF Concluded
<1> QED
    BY <1>1, <1>2, OnlyTheVerdict DEF GatesInv

\* A death may leave half a run in the trace, after what earlier runs of this
\* invocation appended to the other one.
LEMMA DeathStep ==
    ASSUME GatesInv, RunDies
    PROVE  GatesInv'
<1>1. /\ Keep /\ UNCHANGED <<rows, stats, report>> /\ Running
      /\ verdict = "running" /\ verdict' = "died"
    BY DEF RunDies, Running
<1>2. Concluded'
    BY <1>1 DEF Concluded
<1>3. CASE UNCHANGED trace
    BY <1>1, <1>2, <1>3, OnlyTheVerdict DEF GatesInv
<1>4. CASE /\ gate = "equal" /\ "profile" \notin ambient
           /\ trace' = [trace EXCEPT ![Step.arm] = Append(trace[Step.arm], <<"part">>)]
    <2>1. Steps' = Steps /\ \A r : Faithful(r)' <=> Faithful(r)
        BY <1>1, Unmoved DEF Keep
    <2>2. Collected'
        BY <1>1, <2>1 DEF GatesInv, Collected
    <2>3. Written'
        BY <1>1, <1>4 DEF Written, Skips, Keep
    <2>4. Typed /\ trace \in [Arms -> Seq(TraceEntry)] /\ Step.arm \in Arms
          /\ trace[Step.arm] \in Seq(TraceEntry)
        BY <1>1, StepTyped DEF GatesInv, Typed
    <2>5. trace' \in [Arms -> Seq(TraceEntry)]
        <3>1. <<"part">> \in TraceEntry
            BY DEF TraceEntry
        <3>2. Append(trace[Step.arm], <<"part">>) \in Seq(TraceEntry)
            BY <2>4, <3>1
        <3> QED
            BY <1>4, <2>4, <3>2
    <2>6. Typed'
        BY <1>1, <2>5 DEF GatesInv, Typed, Keep
    <2>7. Appended'
        <3>1. Steps[1] = Of(1, "base") /\ Steps[2] = Of(1, "policy") /\ Len(Steps) = 2
            <4>1. Steps = <<Of(1, "base"), Of(1, "policy")>>
                BY <1>4, <2>4, PlanTyped
            <4> QED
                BY <4>1
        <3>2. Len(rows) \in {0, 1}
            <4>1. Len(rows) \in Nat /\ Len(rows) < Len(Steps)
                BY <1>1, <2>4 DEF Typed, Running
            <4> QED
                BY <3>1, <4>1
        <3>3. Len(rows) = 1 => trace'["base"] = trace["base"]
            <4>1. Len(rows) = 1 => Step.arm = "policy"
                BY <3>1 DEF Step, Of
            <4> QED
                BY <1>4, <2>4, <4>1 DEF Arms
        <3>4. Appended /\ rows' = rows
            BY <1>1 DEF GatesInv
        <3> QED
            <4>0. Len(rows) >= 1 =>
                      /\ trace["base"] # <<>>
                      /\ trace["base"][Len(trace["base"])] = <<rows[1].ids, "same">>
                BY <1>4, <3>4 DEF Appended
            <4>1. /\ Len(rows) >= 1 =>
                         /\ trace'["base"] # <<>>
                         /\ trace'["base"][Len(trace'["base"])] = <<rows[1].ids, "same">>
                  /\ Len(rows) # 2
                <5>1. Len(rows) >= 1 => Len(rows) = 1
                    BY <3>2
                <5>2. Len(rows) # 2
                    BY <3>2
                <5> QED
                    BY <3>3, <4>0, <5>1, <5>2
            <4> QED
                BY <1>1, <3>4, <4>1 DEF Appended
    <2> QED
        BY <1>2, <2>2, <2>3, <2>6, <2>7 DEF GatesInv
<1> QED
    BY <1>3, <1>4 DEF RunDies

LEMMA RerunStep ==
    ASSUME GatesInv, Rerun
    PROVE  GatesInv'
<1>1. /\ reruns' = reruns + 1
      /\ world' \in Worlds[gate] /\ ambient' \in SUBSET ReadBy(gate)
      /\ rows' = <<>> /\ verdict' = "running"
      /\ UNCHANGED <<gate, trace, stats>>
    BY DEF Rerun
<1>2. reruns \in Nat /\ reruns' \in Nat /\ reruns' # 0
    BY <1>1 DEF GatesInv, Typed
<1>3. Typed'
    <2>1. ReadBy(gate)' = ReadBy(gate)
        BY <1>1 DEF ReadBy
    <2> QED
        BY <1>1, <1>2, <2>1 DEF GatesInv, Typed
<1>4. Collected'
    <2>1. Steps' \in Seq([case : Cases, arm : Arms])
        <3>1. (Steps \in Seq([case : Cases, arm : Arms]) /\ gate' = gate) => Steps' = Steps
            BY DEF Steps, TrunkOrder, Alternating, BaseFirst, Of
        <3> QED
            BY <1>1, <3>1, PlanTyped DEF GatesInv
    <2>2. Len(Steps') >= 0
        <3> DEFINE R == [case : Cases, arm : Arms]
        <3>1. Steps' \in Seq(R)
            BY <2>1
        <3> HIDE DEF R
        <3> QED
            BY <3>1
    <2>3. Len(rows') = 0
        BY <1>1
    <2> QED
        BY <2>2, <2>3 DEF Collected
<1>5. Appended'
    BY <1>1, <1>2 DEF Appended
<1>6. Written'
    BY <1>1, <1>2 DEF Written, SoundStatistics, Skips
<1>7. Concluded'
    BY <1>1 DEF Concluded
<1> QED
    BY <1>3, <1>4, <1>5, <1>6, <1>7 DEF GatesInv

LEMMA InitGates ==
    ASSUME Init
    PROVE  GatesInv
<1>1. Typed
    <2>1. [says |-> "absent", exact |-> FALSE] \in StatsType
        BY DEF StatsType
    <2>2. stats \in [Cases -> StatsType]
        BY <2>1 DEF Init
    <2> QED
        BY <2>2 DEF Init, Typed, Arms
<1>2. Collected
    <2> DEFINE R == [case : Cases, arm : Arms]
    <2>1. Steps \in Seq(R)
        BY <1>1, PlanTyped
    <2>2. Len(Steps) >= 0
        <3> HIDE DEF R
        <3> QED
            BY <2>1
    <2>3. Len(rows) = 0
        BY DEF Init
    <2> QED
        BY <2>2, <2>3 DEF Collected
<1>3. Appended
    BY DEF Init, Appended, Arms
<1>4. Written
    BY DEF Init, Written
<1>5. Concluded
    BY DEF Init, Concluded
<1> QED
    BY <1>1, <1>2, <1>3, <1>4, <1>5 DEF GatesInv

LEMMA NextGates ==
    ASSUME GatesInv, [Next]_vars
    PROVE  GatesInv'
<1>0. Typed /\ Collected /\ Appended
    BY DEF GatesInv
<1>1. CASE RunTrunk
    <2>1. EnvOf(Step.arm) = ambient \union {"hyst"}
        BY <1>1 DEF RunTrunk, EnvOf
    <2> QED
        BY <1>1, <2>1, RunStep DEF RunTrunk
<1>2. CASE RunMath \/ RunDiverse
    <2>1. EnvOf(Step.arm) = PinEnv(Step.arm)
        BY <1>2 DEF RunMath, RunDiverse, EnvOf
    <2> QED
        BY <1>2, <2>1, RunStep DEF RunMath, RunDiverse
<1>3. CASE RunStore
    <2>1. EnvOf(Step.arm) = ambient \ {"mask"}
        BY <1>3 DEF RunStore, EnvOf
    <2> QED
        BY <1>3, <2>1, RunStep DEF RunStore
<1>4. CASE RunSkip
    <2>1. EnvOf(Step.arm) = SkipEnv(Step.arm)
        BY <1>4 DEF RunSkip, EnvOf
    <2> QED
        BY <1>4, <2>1, SkippingStep DEF RunSkip, Skips
<1>5. CASE RunHardVL
    <2>1. EnvOf(Step.arm) = HardVLEnv(Step.arm)
        BY <1>5 DEF RunHardVL, EnvOf
    <2> QED
        BY <1>5, <2>1, SkippingStep DEF RunHardVL, Skips
<1>6. CASE RunCalibration
    BY <1>6, CalibrationStep
<1>7. CASE RunVariant
    BY <1>7, VariantStep
<1>8. CASE RefuseEquivalence
    BY <1>8, RefuseStep
<1>9. CASE JudgeTrunk
    <2>1. TrunkFails \in BOOLEAN
        BY DEF TrunkFails
    <2> QED
        BY <1>0, <1>9, <2>1, TrunkVerdict, JudgeStep DEF JudgeTrunk, Judge, Finished
<1>10. CASE JudgeMath
    <2>1. MathFails \in BOOLEAN
        BY DEF MathFails
    <2> QED
        BY <1>0, <1>10, <2>1, MathVerdict, JudgeStep DEF JudgeMath, Judge, Finished
<1>11. CASE JudgeDiverse
    <2>1. DiverseFails(world.least) \in BOOLEAN
        BY DEF DiverseFails
    <2> QED
        BY <1>0, <1>11, <2>1, DiverseVerdict, JudgeStep DEF JudgeDiverse, Judge, Finished
<1>12. CASE JudgeSkip
    <2>1. SkipFails \in BOOLEAN
        BY DEF SkipFails
    <2> QED
        BY <1>0, <1>12, <2>1, SkipVerdict, JudgeStep DEF JudgeSkip, Judge, Finished
<1>13. CASE JudgeHardVL
    <2>1. HardVLFails \in BOOLEAN
        BY DEF HardVLFails
    <2> QED
        BY <1>0, <1>13, <2>1, HardVLVerdict, JudgeStep DEF JudgeHardVL, Judge, Finished
<1>14. CASE JudgeEquivalence
    <2>1. (~Equivalent) \in BOOLEAN
        OBVIOUS
    <2> QED
        BY <1>0, <1>14, <2>1, EqualVerdict, JudgeStep DEF JudgeEquivalence, Judge, Finished
<1>15. CASE ReportStore \/ ReportCalibration
    BY <1>15, ReportStep
<1>16. CASE Rescore
    BY <1>16, RescoreStep
<1>17. CASE RunDies
    BY <1>17, DeathStep
<1>18. CASE Rerun
    BY <1>18, RerunStep
<1>19. CASE UNCHANGED vars
    <2>1. UNCHANGED <<gate, world, ambient, rows, trace, stats, reruns, verdict, report>>
        BY <1>19 DEF vars
    <2>2. /\ Steps' = Steps /\ \A r : Faithful(r)' <=> Faithful(r)
          /\ (Sound' <=> Sound)
          /\ (SoundStatistics' <=> SoundStatistics)
        BY <2>1, Unmoved
    <2>3. Typed'
        BY <2>1 DEF GatesInv, Typed
    <2>4. Collected'
        BY <2>1, <2>2 DEF GatesInv, Collected
    <2>5. Appended'
        BY <2>1 DEF GatesInv, Appended
    <2>6. Written'
        BY <2>1, <2>2 DEF GatesInv, Written
    <2>7. Concluded'
        BY <2>1, <2>2 DEF GatesInv, Concluded
    <2> QED
        BY <2>3, <2>4, <2>5, <2>6, <2>7 DEF GatesInv
<1> QED
    BY <1>1, <1>2, <1>3, <1>4, <1>5, <1>6, <1>7, <1>8, <1>9, <1>10, <1>11, <1>12,
       <1>13, <1>14, <1>15, <1>16, <1>17, <1>18, <1>19 DEF Next

----------------------------------------------------------------------------
(* The theorems. *)

\* Rows, traces and statistics are those of the runs of the plan, and what a
\* pass or a report says follows from them, in every state of every gate.
THEOREM GatesInvariant == Spec => []GatesInv
<1>1. Init => GatesInv
    BY InitGates
<1>2. GatesInv /\ [Next]_vars => GatesInv'
    BY NextGates
<1> QED
    BY <1>1, <1>2, PTL DEF Spec

\* No gate that promises equal tokens passes a policy that changes a token, in
\* any suite, whatever its driver was started with; the store report counts
\* exactly the prompts left alone (the pass of each run_kimi_* gate).
THEOREM EqualTokensPass == Spec => []PassKeepsTokens
<1>1. GatesInv => PassKeepsTokens
    BY DEF GatesInv, Concluded, Sound, PassKeepsTokens
<1> QED
    BY <1>1, GatesInvariant, PTL

\* What a pass of each gate shows of its policy: in force, active, within its
\* bounds and without a failed run where the gate asks for it, and for the
\* hard-VL gate only that no control token was skipped.
THEOREM PassesTestThePolicy == Spec => []PassTestsPolicy
<1>1. GatesInv => PassTestsPolicy
    BY DEF GatesInv, Concluded, Sound, PassTestsPolicy
<1> QED
    BY <1>1, GatesInvariant, PTL

\* No answer of the baseline is lost by a candidate the hard-VL gate passes,
\* whatever it gains elsewhere (intelligence_retention_regressions).
THEOREM NoAnswerIsLost == Spec => []RegressionNeverPasses
<1>1. GatesInv => RegressionNeverPasses
    BY DEF GatesInv, Concluded, Sound, RegressionNeverPasses
<1> QED
    BY <1>1, GatesInvariant, PTL
=============================================================================
