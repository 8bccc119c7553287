--------------------------- MODULE PruningScreen ---------------------------
(***************************************************************************)
(* The experiments that decide which routed experts may be left out:       *)
(* tools/run_kimi_pruning_phase_a.py, its gate, phase_b.py, their image    *)
(* counterparts vl_guard.py and vl_phase_b.py, multi_screen.py and         *)
(* sentinel_screen.py, with the reports they start as processes            *)
(* (analyze_kimi_moe_trace.py, compare_kimi_moe_routes.py,                 *)
(* compare_kimi_logits.py).                                                *)
(*                                                                         *)
(* A tool runs the model on every item of a suite, first with the full     *)
(* store and then under the mask of each candidate, and compares.  The     *)
(* route trace of a generation is APPENDED to the file it is given; the    *)
(* logits file is rewritten.  Tools are killed and run again in the same   *)
(* work directory.                                                         *)
(***************************************************************************)
EXTENDS Integers, FiniteSets, Sequences, Functions, SequencesExt

CONSTANTS
  LastLayer,      \* routed layers are 1..LastLayer
  Experts,        \* expert numbers of a layer, 0..n-1
  TopK,           \* experts routed a token
  Calibration,    \* prompts of the calibration split, in order
  HeldOut,        \* prompts of the held-out split, in order
  Cases,          \* image cases, in order
  Scores,         \* Scores[p]: scores the router may choose the experts by for prompt p
  Weight,         \* Weight[p]: saliency of one selection in calibration prompt p
  Keeps,          \* the keep-N masks, in the order of the variants
  Cap,            \* the cap of the unseen-cap mask
  Lists,          \* the candidate lists a user may pass
  EnvMasks,       \* values KVL_MOE_MASK may have in the user's environment
  Tools,          \* the tools the user may start
  MaxRuns         \* bound on the tools started

Layers == 1 .. LastLayer
Slots == Layers \X Experts
Prompts == Range(Calibration) \cup Range(HeldOut) \cup Range(Cases)

\* What validate_suite and read_mask accept: suites with prompts in every split, and masks of
\* any slots.
ASSUME ScreenAssumption ==
  /\ LastLayer \in Nat \ {0} /\ TopK \in Nat \ {0} /\ IsFiniteSet(Experts)
  /\ Experts = 0 .. Cardinality(Experts) - 1 /\ TopK <= Cardinality(Experts)
  /\ \A list \in {Calibration, HeldOut, Cases}: list \in Seq(Prompts) /\ list # <<>>
  /\ \A p \in Prompts: Scores[p] \subseteq [Experts -> Int]
  /\ \A p \in Range(Calibration): Weight[p] \in Nat
  /\ Keeps \in Seq(TopK .. Cardinality(Experts))
  /\ Lists \subseteq Seq(SUBSET (Nat \X Nat)) /\ EnvMasks \subseteq SUBSET (Nat \X Nat)
  /\ \A list \in Lists: \A j \in DOMAIN list: IsFiniteSet(list[j])
  /\ Tools \subseteq {"phase_a", "phase_b", "multi", "sentinel", "guard", "vl_phase_b"}
  /\ Cap \in Nat /\ MaxRuns \in Nat

VARIABLES
  choice,    \* choice[p]: the score of every expert for prompt p (external)
  tool,      \* the tool whose work directory this is; each has its own
  pc,        \* where it is
  i, c,      \* item and candidate of its loops, counted from 1
  env,       \* KVL_MOE_MASK in its environment
  cands,     \* its candidates, a sequence of masks
  got,       \* what the last candidate's generation gave
  rows,      \* comparisons so far: <<item, candidate>> -> evidence
  traces,    \* route trace files: their generations, oldest first
  masks,     \* mask files of the last analysis, with what it should know
  summary,   \* the summary file in the directory, or None
  runs       \* tools started

vars == <<choice, tool, pc, i, c, env, cands, got, rows, traces, masks, summary, runs>>

None == <<>>

\* The sum of a function's values, which are natural numbers.
Total(f) == Cardinality(UNION {{x} \X (1 .. f[x]): x \in DOMAIN f})

(***************************************************************************)
(* The model, external to these tools: greedy and deterministic.  The      *)
(* tokens of an image are routed by the opposite scores.  A layer routes   *)
(* other experts when the mask changed the route of an earlier layer.      *)
(***************************************************************************)
Modalities(p) == IF p \in Range(Cases) THEN <<"media", "text">> ELSE <<"text">>

Allowed(mask, l) == {e \in Experts: <<l, e>> \notin mask}

\* q8_better: the lower number first among equal scores
Prefers(score, d, e) == score[d] > score[e] \/ (score[d] = score[e] /\ d < e)

Top(score, mask, l) ==
  {e \in Allowed(mask, l): Cardinality({d \in Allowed(mask, l): Prefers(score, d, e)}) < TopK}

Opposite(score) == [e \in Experts |-> -score[e]]

Score(p, n) == IF Modalities(p)[n] = "media" THEN Opposite(choice[p]) ELSE choice[p]

Changed(p, n, mask, l) ==
  \E m \in Layers: m < l /\ Top(Score(p, n), mask, m) # Top(Score(p, n), {}, m)

Routed(p, n, mask, l) ==
  Top(IF Changed(p, n, mask, l) THEN Opposite(Score(p, n)) ELSE Score(p, n), mask, l)

Serves(mask) == \A l \in Layers: Cardinality(Allowed(mask, l)) >= TopK

(***************************************************************************)
(* Traces.  With max_new = 1 a generation is one prefill, layer by layer   *)
(* over the tokens of the prompt, and events are counted from 1 in every   *)
(* process.                                                                *)
(***************************************************************************)
Event(p, n, l) == (l - 1) * Len(Modalities(p)) + n

Generation(mask, whole) == [mask |-> mask, whole |-> whole]

KeysOf(p, g) ==
  {<<Event(p, n, l), l>> : n \in DOMAIN Modalities(p), l \in (IF g.whole THEN Layers ELSE {1})}

Position(p, k) == ((k[1] - 1) % Len(Modalities(p))) + 1

\* direct_mask_hits refuses an event whose number does not belong to its layer.
InOrder(p, k) == ((k[1] - 1) \div Len(Modalities(p))) + 1 = k[2]

\* read_trace: how often every expert stands at an (event, layer), over all generations in
\* the file
ReadTrace(p, file) ==
  [k \in UNION {KeysOf(p, file[g]): g \in DOMAIN file} |->
     [e \in Experts |-> Cardinality({g \in DOMAIN file:
        k \in KeysOf(p, file[g]) /\ e \in Routed(p, Position(p, k), file[g].mask, k[2])})]]

\* without the check for an expert that occurs twice
ComparableKeys(base, variant) == DOMAIN base = DOMAIN variant

Comparable(base, variant) ==
  /\ DOMAIN base = DOMAIN variant
  /\ \A k \in DOMAIN base, e \in Experts: base[k][e] <= 1 /\ variant[k][e] <= 1

Substitutions(base, variant) ==
  Total([k \in DOMAIN base |->
           Cardinality({e \in Experts: base[k][e] > 0 /\ variant[k][e] = 0})])

Hits(p, base, mask, modality) ==
  Total([k \in {k \in DOMAIN base: Modalities(p)[Position(p, k)] = modality} |->
           Total([e \in {e \in Experts: <<k[2], e>> \in mask} |-> base[k][e]])])

\* What two generations that were not repeated look like.
CleanEvidence(p, mask) ==
  LET base == ReadTrace(p, <<Generation({}, TRUE)>>)
      variant == ReadTrace(p, <<Generation(mask, TRUE)>>)
  IN [substitutions |-> Substitutions(base, variant),
      media |-> Hits(p, base, mask, "media"), text |-> Hits(p, base, mask, "text")]

(***************************************************************************)
(* The analysis of the calibration traces.                                 *)
(***************************************************************************)
\* per_layer: how often every slot was selected in the trace file of a prompt
Counts(p) ==
  LET read == ReadTrace(p, traces[<<"calibration", p>>]) IN
  [s \in Slots |-> Total([k \in {k \in DOMAIN read: k[2] = s[1]} |-> read[k][s[2]]])]

PerLayer ==
  LET counts == [p \in Range(Calibration) |-> Counts(p)] IN
  [s \in Slots |-> [selected |-> Total([p \in Range(Calibration) |-> counts[p][s]]),
                    saliency |-> Total([p \in Range(Calibration) |-> Weight[p] * counts[p][s]])]]

\* ranking: by saliency, then selections, then number
Before(d, e, D, E) ==
  \/ D.saliency < E.saliency
  \/ D.saliency = E.saliency /\ D.selected < E.selected
  \/ D.saliency = E.saliency /\ D.selected = E.selected /\ d < e

KeepMask(stats, keep) ==
  {s \in Slots: Cardinality({e \in Experts: Before(e, s[2], stats[<<s[1], e>>], stats[s])})
                  < Cardinality(Experts) - keep}

\* the first of the ranking, selected or not
UnseenByRank(stats, cap) == KeepMask(stats, Cardinality(Experts) - cap)

UnseenMask(stats, cap) ==
  {s \in Slots: /\ stats[s].selected = 0
                /\ Cardinality({e \in Experts: e < s[2] /\ stats[<<s[1], e>>].selected = 0}) < cap}

(***************************************************************************)
(* Which items a tool runs, on which candidates.                           *)
(***************************************************************************)
PhaseAItems == HeldOut
PhaseBItems == HeldOut
MultiItems == HeldOut \o Cases
SentinelItems == <<Head(HeldOut)>>
GuardItems == Cases
VLPhaseBItems == Cases

Items(t) == CASE t = "phase_a" -> PhaseAItems [] t = "phase_b" -> PhaseBItems
              [] t = "multi" -> MultiItems [] t = "sentinel" -> SentinelItems
              [] t = "guard" -> GuardItems [] t = "vl_phase_b" -> VLPhaseBItems

\* The tools that trace routes and dump logits; the others only compare tokens.
Traced(t) == t \in {"phase_a", "multi", "guard"}

Nested(list) == \A j \in 1 .. Len(list) - 1: list[j] \subseteq list[j + 1]

CandidateSpecs(list) ==
  /\ list # <<>> /\ \A j \in DOMAIN list: list[j] # {}
  /\ \A j \in 1 .. Len(list) - 1: Cardinality(list[j]) <= Cardinality(list[j + 1])
  /\ Nested(list)

ValidateCandidates(list) ==
  /\ CandidateSpecs(list)
  /\ \A j \in 1 .. Len(list) - 1: list[j] # list[j + 1]

AnyList(list) == TRUE

OneMask(list) == Len(list) = 1

Accepts(t, list) ==
  CASE t = "multi" -> CandidateSpecs(list)
    [] t = "sentinel" -> ValidateCandidates(list)
    [] t = "guard" -> OneMask(list) /\ list[1] # {}
    [] t \in {"phase_b", "vl_phase_b"} -> OneMask(list)

\* The directory of a variant: the full store or a candidate, by its place in the list.
Full == 0
File(t, p, variant) == <<t, p, variant>>
Contents(f) == IF f \in DOMAIN traces THEN traces[f] ELSE <<>>
Put(f, x, v) == [y \in DOMAIN f \cup {x} |-> IF y = x THEN v ELSE f[y]]
Append1(f, g) == Put(traces, f, Append(Contents(f), g))

Init ==
  /\ choice \in {f \in [Prompts -> UNION {Scores[p]: p \in Prompts}]:
                  \A p \in Prompts: f[p] \in Scores[p]}
  /\ tool \in Tools /\ pc = "idle" /\ i = 1 /\ c = 1 /\ env = {}
  /\ cands = <<>> /\ got = None /\ rows = <<>> /\ traces = <<>>
  /\ masks = None /\ summary = None /\ runs = 0

Begin(at) ==
  /\ pc = "idle" /\ runs < MaxRuns /\ runs' = runs + 1
  /\ pc' = at /\ env' \in EnvMasks
  /\ UNCHANGED <<choice, tool, i, c, got, rows, traces, masks, summary>>

StartPhaseA == tool = "phase_a" /\ Begin("calibrate") /\ cands' = <<>>

StartScreen ==
  /\ tool # "phase_a"
  /\ \E list \in Lists: Accepts(tool, list) /\ Begin("base") /\ cands' = list

\* The process is gone, and with it its variables.
Leave ==
  /\ pc' = "idle" /\ i' = 1 /\ c' = 1 /\ env' = {} /\ cands' = <<>> /\ got' = None /\ rows' = <<>>
  /\ UNCHANGED <<choice, tool, runs>>

\* An exception, a generator that returns non-zero, or a kill ends the tool.
Stop == Leave /\ UNCHANGED <<masks, summary>>

Killed == pc # "idle" /\ Stop /\ UNCHANGED traces

\* run_calibration keeps the environment it inherits.
Calibrate ==
  LET p == Calibration[i] IN
  /\ pc = "calibrate" /\ Serves(env)
  /\ traces' = Append1(<<"calibration", p>>, Generation(env, TRUE))
  /\ IF i < Len(Calibration) THEN i' = i + 1 /\ pc' = pc ELSE i' = 1 /\ pc' = "analyze"
  /\ UNCHANGED <<choice, tool, c, env, cands, got, rows, masks, summary, runs>>

\* Its generator dies after it traced some events.
CalibrationDies ==
  /\ pc = "calibrate" /\ Serves(env)
  /\ traces' = Append1(<<"calibration", Calibration[i]>>, Generation(env, FALSE))
  /\ Stop

Analyze ==
  /\ pc = "analyze"
  /\ LET stats == PerLayer IN
     masks' = [keep |-> [j \in DOMAIN Keeps |-> KeepMask(stats, Keeps[j])],
               unseen |-> UnseenMask(stats, Cap),
               seen |-> {s \in Slots: \E p \in Range(Calibration): s[2] \in Routed(p, 1, env, s[1])}]
  /\ cands' = masks'.keep \o <<masks'.unseen>>
  /\ pc' = "base"
  /\ UNCHANGED <<choice, tool, i, c, env, got, rows, traces, summary, runs>>

\* the full variant keeping what it inherits
BaseInherits == env

\* The environment of a generation: the full variant drops KVL_MOE_MASK.
BaseMask == {}

\* KVL_MOE_TRACE for the generations of a tool that traces
Trace(variant, g) ==
  traces' = IF Traced(tool) THEN Append1(File(tool, Items(tool)[i], variant), g) ELSE traces

RunBase ==
  /\ pc = "base"
  /\ Trace(Full, Generation(BaseMask, TRUE))
  /\ pc' = "candidate" /\ c' = 1
  /\ UNCHANGED <<choice, tool, i, env, cands, got, rows, masks, summary, runs>>

\* Greedy decoding repeats the tokens and logits of equal routes; other routes may give others.
Outcomes(p, mask) ==
  IF \A n \in DOMAIN Modalities(p), l \in Layers: Routed(p, n, mask, l) = Routed(p, n, BaseMask, l)
  THEN {[exact |-> TRUE, near |-> TRUE]}
  ELSE [exact: BOOLEAN, near: BOOLEAN]

RunCandidate ==
  /\ pc = "candidate" /\ Serves(cands[c])
  /\ Trace(c, Generation(cands[c], TRUE))
  /\ got' \in Outcomes(Items(tool)[i], cands[c])
  /\ pc' = "compare"
  /\ UNCHANGED <<choice, tool, i, c, env, cands, rows, masks, summary, runs>>

\* A generator dies after it traced some events.
GenerationDies ==
  /\ pc \in {"base", "candidate"} /\ Traced(tool)
  /\ IF pc = "base" THEN Trace(Full, Generation(BaseMask, FALSE))
                    ELSE Serves(cands[c]) /\ Trace(c, Generation(cands[c], FALSE))
  /\ Stop

Evidence(p, mask, base, variant) ==
  [exact |-> got.exact, near |-> got.near, substitutions |-> Substitutions(base, variant),
   media |-> Hits(p, base, mask, "media"), text |-> Hits(p, base, mask, "text")]

TokensOnly == [exact |-> got.exact, near |-> TRUE]

NextAfterCompare ==
  \/ c < Len(cands) /\ c' = c + 1 /\ pc' = "candidate" /\ i' = i
  \/ c = Len(cands) /\ i < Len(Items(tool)) /\ i' = i + 1 /\ c' = 1 /\ pc' = "base"
  \/ c = Len(cands) /\ i = Len(Items(tool)) /\ pc' = "summarize" /\ UNCHANGED <<i, c>>

\* compare_variant and compare_case, whose processes fail on traces they cannot pair;
\* the guard also fails when it counts fewer substitutions than direct hits.
Compare ==
  /\ pc = "compare" /\ Traced(tool)
  /\ LET p == Items(tool)[i]
         base == ReadTrace(p, traces[File(tool, p, Full)])
         variant == ReadTrace(p, traces[File(tool, p, c)])
         e == Evidence(p, cands[c], base, variant)
     IN IF /\ Comparable(base, variant)
           /\ \A k \in DOMAIN base: InOrder(p, k)
           /\ p \in Range(Cases) => e.substitutions >= e.media + e.text
        THEN /\ rows' = Put(rows, <<i, c>>, e)
             /\ NextAfterCompare
             /\ UNCHANGED <<choice, tool, env, cands, got, traces, masks, summary, runs>>
        ELSE Stop /\ UNCHANGED traces

CompareTokens ==
  /\ pc = "compare" /\ ~Traced(tool)
  /\ rows' = Put(rows, <<i, c>>, TokensOnly)
  /\ NextAfterCompare
  /\ UNCHANGED <<choice, tool, env, cands, got, traces, masks, summary, runs>>

(***************************************************************************)
(* Verdicts.                                                               *)
(***************************************************************************)
\* The gate on the aggregate of a variant; multi_screen and sentinel_screen likewise.
Passes(j) == \A n \in DOMAIN Items(tool): rows[<<n, j>>].exact /\ rows[<<n, j>>].near

Passing == {j \in DOMAIN cands: Passes(j)}

\* The gate lists the candidates with the most disabled slots first.
GateSelects == {j \in Passing: \A m \in Passing: Cardinality(cands[m]) <= Cardinality(cands[j])}

\* the first candidate that passes
MultiFirst == {j \in Passing: \A m \in Passing: j <= m}

\* multi_screen keeps the last candidate that passes.
MultiSelects == {j \in Passing: \A m \in Passing: m <= j}

\* sentinel_screen takes the largest of the exact ones.
SelectStrongest == {j \in Passing: \A m \in Passing: Cardinality(cands[m]) <= Cardinality(cands[j])}

Selects == CASE tool = "phase_a" -> GateSelects [] tool = "multi" -> MultiSelects
             [] tool = "sentinel" -> SelectStrongest [] OTHER -> {}

\* phase_b and vl_phase_b report how many items kept every token.
ExactItems(j) == Cardinality({n \in DOMAIN Items(tool): rows[<<n, j>>].exact})

\* The totals over the image cases: substitutions that are not direct hits are cascades.
CaseItems == {n \in DOMAIN Items(tool): Items(tool)[n] \in Range(Cases)}
AggregateVL(j) ==
  LET direct == Total([n \in CaseItems |-> rows[<<n, j>>].media + rows[<<n, j>>].text])
      substitutions == Total([n \in CaseItems |-> rows[<<n, j>>].substitutions])
  IN [direct |-> direct, cascade |-> substitutions - direct]

Summarize ==
  /\ pc = "summarize"
  /\ summary' = [cands |-> cands, passing |-> Passing, selects |-> Selects, rows |-> rows,
                 exact |-> [j \in DOMAIN cands |-> ExactItems(j)],
                 totals |-> IF Traced(tool) THEN [j \in DOMAIN cands |-> AggregateVL(j)] ELSE None]
  /\ Leave
  /\ UNCHANGED <<traces, masks>>

Next ==
  \/ StartPhaseA \/ StartScreen \/ Calibrate \/ Analyze \/ RunBase \/ RunCandidate
  \/ CalibrationDies \/ GenerationDies \/ Compare \/ CompareTokens \/ Summarize \/ Killed

Spec == Init /\ [][Next]_vars

(***************************************************************************)
(* Properties.                                                             *)
(***************************************************************************)

\* Masks are right about the calibration they come from, even when a calibration was killed
\* anywhere, in a generation too, and repeated into the same trace files (analyze): keep-N masks leave exactly N experts of every
\* layer and contain the masks that keep more; the unseen-cap mask has at most cap experts of a
\* layer, none of which a calibration prompt of this execution selected; and no mask starves the
\* router.
MasksFollowCalibration ==
  masks # None =>
    /\ \A j \in DOMAIN Keeps, l \in Layers: Cardinality(Allowed(masks.keep[j], l)) = Keeps[j]
    /\ \A j, m \in DOMAIN Keeps: Keeps[j] <= Keeps[m] => masks.keep[m] \subseteq masks.keep[j]
    /\ masks.unseen \cap masks.seen = {}
    /\ \A l \in Layers: Cardinality({e \in Experts: <<l, e>> \in masks.unseen}) <= Cap
    /\ Serves(masks.unseen)

\* Evidence is about one generation with the full store and one under the mask: files left by
\* a killed or earlier execution, or a mask in the environment, make a comparison fail or leave
\* its counts as they would be in an empty directory (compare, direct_mask_hits).
EvidenceOfThisRun ==
  Traced(tool) /\ summary # None =>
    \A x \in DOMAIN summary.rows:
      LET r == summary.rows[x]
          clean == CleanEvidence(Items(tool)[x[1]], summary.cands[x[2]])
      IN /\ r.substitutions = clean.substitutions
         /\ r.media = clean.media /\ r.text = clean.text
         /\ summary.totals[x[2]].cascade >= 0

\* What a screen selects disables at least as much as anything else that passed: multi_screen
\* takes the last that passes, which is the strongest because candidate_specs insists on nesting.
StrongestSelected ==
  summary # None =>
    \A j \in summary.selects, m \in summary.passing:
      /\ Cardinality(summary.cands[m]) <= Cardinality(summary.cands[j])
      /\ tool # "phase_a" => summary.cands[m] \subseteq summary.cands[j]

\* A mask of experts that no item of the suite is routed to with the full store passes every
\* screen: nothing but the mask distinguishes the two generations that are compared.
HarmlessPasses ==
  summary # None =>
    \A j \in DOMAIN summary.cands:
      (\A n \in DOMAIN Items(tool): \A m \in DOMAIN Modalities(Items(tool)[n]), l \in Layers:
         \A e \in Routed(Items(tool)[n], m, {}, l): <<l, e>> \notin summary.cands[j])
      => j \in summary.passing
=============================================================================
