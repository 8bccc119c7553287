------------------------ MODULE PruningScreen_proofs ------------------------
(***************************************************************************)
(* Proofs about the pruning experiments: what a run keeps true of its      *)
(* candidates, its rows and its trace files, and from it the four          *)
(* promises of PruningScreen, for any model, suite and masks.              *)
(***************************************************************************)
EXTENDS PruningScreen, FunctionTheorems, FiniteSetTheorems, WellFoundedInduction, TLAPS

----------------------------------------------------------------------------
(* Sums, and the first elements of an order. *)

\* The pairs that Total counts.
Units(f) == UNION {{x} \X (1 .. f[x]) : x \in DOMAIN f}

LEMMA UnitsFinite ==
    ASSUME NEW f, IsFiniteSet(DOMAIN f), \A x \in DOMAIN f : f[x] \in Nat
    PROVE  IsFiniteSet(Units(f)) /\ Cardinality(Units(f)) = Total(f) /\ Total(f) \in Nat
<1> DEFINE part == [x \in DOMAIN f |-> {x} \X (1 .. f[x])]
           parts == {part[x] : x \in DOMAIN f}
<1>1. part \in Surjection(DOMAIN f, parts)
    BY DEF Surjection
<1>2. IsFiniteSet(parts)
    <2> HIDE DEF part, parts
    <2> QED
        BY <1>1, FS_Surjection
<1>3. ASSUME NEW x \in DOMAIN f  PROVE IsFiniteSet(part[x])
    <2>1. IsFiniteSet({x}) /\ IsFiniteSet(1 .. f[x])
        BY FS_Singleton, FS_Interval, 1 \in Int, f[x] \in Int
    <2>2. part[x] = {x} \X (1 .. f[x])
        OBVIOUS
    <2> HIDE DEF part
    <2> QED
        BY <2>1, <2>2, FS_Product
<1>4. \A T \in parts : IsFiniteSet(T)
    BY <1>3
<1>5. UNION parts = Units(f)
    BY DEF Units
<1>6. IsFiniteSet(UNION parts)
    <2> HIDE DEF parts
    <2> QED
        BY <1>2, <1>4, FS_UNION
<1> QED
    BY <1>5, <1>6, FS_CardinalityType DEF Total, Units

\* A sum is a natural number, zero only if every term is.
LEMMA TotalType ==
    ASSUME NEW f, IsFiniteSet(DOMAIN f), \A x \in DOMAIN f : f[x] \in Nat
    PROVE  /\ Total(f) \in Nat
           /\ Total(f) = 0 <=> \A x \in DOMAIN f : f[x] = 0
<1>1. Total(f) = 0 <=> Units(f) = {}
    BY UnitsFinite, FS_EmptySet
<1>2. ASSUME NEW x \in DOMAIN f, f[x] # 0  PROVE <<x, 1>> \in Units(f)
    <2>1. 1 \in 1 .. f[x]
        BY <1>2
    <2> QED
        BY <2>1 DEF Units
<1>3. ASSUME NEW u \in Units(f)  PROVE \E x \in DOMAIN f : f[x] # 0
    BY <1>3 DEF Units
<1> QED
    BY <1>1, <1>2, <1>3, UnitsFinite

\* Greater terms have the greater sum.
LEMMA TotalMonotone ==
    ASSUME NEW f, NEW g, IsFiniteSet(DOMAIN f), DOMAIN g = DOMAIN f,
           \A x \in DOMAIN f : f[x] \in Nat /\ g[x] \in Nat /\ f[x] <= g[x]
    PROVE  Total(f) <= Total(g)
<1>1. ASSUME NEW u \in Units(f)  PROVE u \in Units(g)
    <2>1. PICK x \in DOMAIN f : u \in {x} \X (1 .. f[x])
        BY DEF Units
    <2>2. u \in {x} \X (1 .. g[x])
        BY <2>1
    <2> QED
        BY <2>2 DEF Units
<1>2. Units(f) \in SUBSET Units(g)
    BY <1>1
<1> QED
    BY <1>2, UnitsFinite, FS_Subset

\* The elements that fewer than n others precede, in a strict total order.
First(S, R, n) == {e \in S : Cardinality({d \in S : <<d, e>> \in R}) < n}

StrictOrder(S, R) ==
    /\ \A e \in S : <<e, e>> \notin R
    /\ \A d, e \in S : d # e => <<d, e>> \in R \/ <<e, d>> \in R
    /\ \A d, e, f \in S : <<d, e>> \in R /\ <<e, f>> \in R => <<d, f>> \in R

LEMMA PredecessorsCounted ==
    ASSUME NEW S, IsFiniteSet(S), NEW R, StrictOrder(S, R)
    PROVE  LET size(e) == Cardinality({d \in S : <<d, e>> \in R})
           IN  /\ \A e \in S : size(e) \in Nat /\ size(e) < Cardinality(S)
               /\ \A d, e \in S : <<d, e>> \in R => size(d) < size(e)
<1> DEFINE pre(e) == {d \in S : <<d, e>> \in R}
           size(e) == Cardinality(pre(e))
<1>1. ASSUME NEW e \in S
      PROVE  /\ IsFiniteSet(pre(e)) /\ size(e) \in Nat /\ e \notin pre(e)
             /\ IsFiniteSet(pre(e) \cup {e})
             /\ Cardinality(pre(e) \cup {e}) = size(e) + 1
    <2>1. pre(e) \in SUBSET S /\ e \notin pre(e)
        BY DEF StrictOrder
    <2>2. IsFiniteSet(pre(e))
        BY <2>1, FS_Subset
    <2> HIDE DEF pre
    <2> QED
        BY <2>1, <2>2, FS_CardinalityType, FS_AddElement
<1>2. ASSUME NEW e \in S, NEW T, IsFiniteSet(T), pre(e) \cup {e} \subseteq T
      PROVE  size(e) < Cardinality(T)
    <2> HIDE DEF pre
    <2>1. Cardinality(pre(e) \cup {e}) <= Cardinality(T) /\ Cardinality(T) \in Nat
        BY <1>2, FS_Subset, FS_CardinalityType
    <2> QED
        BY <1>1, <2>1
<1>3. ASSUME NEW d \in S, NEW e \in S, <<d, e>> \in R  PROVE size(d) < size(e)
    <2>1. pre(d) \cup {d} \subseteq pre(e)
        BY <1>3 DEF StrictOrder
    <2> QED
        BY <1>1, <1>2, <2>1
<1>4. ASSUME NEW e \in S  PROVE size(e) < Cardinality(S)
    BY <1>2
<1> QED
    BY <1>1, <1>3, <1>4

\* They are as many as asked for, if there are that many, and precede the others.
LEMMA FirstExact ==
    ASSUME NEW S, IsFiniteSet(S), NEW R, StrictOrder(S, R), NEW n \in Nat
    PROVE  /\ First(S, R, n) \subseteq S /\ IsFiniteSet(First(S, R, n))
           /\ n <= Cardinality(S) => Cardinality(First(S, R, n)) = n
           /\ Cardinality(First(S, R, n)) <= n
           /\ \A h \in First(S, R, n), e \in S \ First(S, R, n) : <<h, e>> \in R
<1> DEFINE size(e) == Cardinality({d \in S : <<d, e>> \in R})
           H == First(S, R, n)
           k == Cardinality(S)
           rank == [e \in S |-> size(e)]
           first == [e \in H |-> size(e)]
<1>1. H = {e \in S : size(e) < n}
    BY DEF First
<1>2. /\ k \in Nat
      /\ \A e \in S : size(e) \in Nat /\ size(e) < k
      /\ \A d, e \in S : <<d, e>> \in R => size(d) < size(e)
    BY PredecessorsCounted, FS_CardinalityType
<1> HIDE DEF size, H, k
<1>3. \A d, e \in S : size(d) = size(e) => d = e
    <2> SUFFICES ASSUME NEW d \in S, NEW e \in S, size(d) = size(e), d # e  PROVE FALSE
        OBVIOUS
    <2>1. <<d, e>> \in R \/ <<e, d>> \in R
        BY DEF StrictOrder
    <2> QED
        BY <1>2, <2>1
<1>4. IsFiniteSet(H) /\ H \subseteq S /\ Cardinality(H) \in Nat
    BY <1>1, FS_Subset, FS_CardinalityType
<1>5. \A m \in Nat : IsFiniteSet(0 .. m - 1) /\ Cardinality(0 .. m - 1) = m
    <2> TAKE m \in Nat
    <2>1. Cardinality(0 .. m - 1) = IF 0 > m - 1 THEN 0 ELSE m - 1 - 0 + 1
        BY FS_Interval
    <2> QED
        BY <2>1, FS_Interval
<1>6. rank \in Surjection(S, 0 .. k - 1)
    <2>1. \A e \in S : rank[e] = size(e) /\ size(e) \in 0 .. k - 1
        BY <1>2
    <2>2. rank \in [S -> 0 .. k - 1] /\ \A d, e \in S : rank[d] = rank[e] => d = e
        BY <1>3, <2>1
    <2> HIDE DEF rank
    <2>3. rank \in Injection(S, 0 .. k - 1)
        BY <2>2 DEF Injection, IsInjective
    <2> QED
        BY <1>2, <1>5, <2>3, FS_Injection DEF k
<1>7. first \in Injection(H, 0 .. n - 1)
    <2>1. \A e \in H : first[e] = size(e) /\ size(e) \in 0 .. n - 1
        BY <1>1, <1>2
    <2>2. first \in [H -> 0 .. n - 1] /\ \A d, e \in H : first[d] = first[e] => d = e
        BY <1>1, <1>3, <2>1
    <2> HIDE DEF first
    <2> QED
        BY <2>2 DEF Injection, IsInjective
<1>8. Cardinality(H) <= n
    <2> HIDE DEF first
    <2> QED
        BY <1>5, <1>7, FS_Injection
<1>9. ASSUME n <= k  PROVE Cardinality(H) = n
    <2>1. ASSUME NEW m \in 0 .. n - 1  PROVE \E e \in H : first[e] = m
        <3>1. m \in 0 .. k - 1
            BY <1>2, <1>9
        <3>2. PICK e \in S : rank[e] = m
            BY <1>6, <3>1 DEF Surjection
        <3>3. size(e) = m
            BY <3>2
        <3>4. e \in H
            BY <1>1, <3>3
        <3> QED
            BY <3>3, <3>4
    <2>2. first \in Surjection(H, 0 .. n - 1)
        BY <1>7, <2>1 DEF Surjection, Injection
    <2> HIDE DEF first
    <2> QED
        BY <1>5, <1>7, <2>2, FS_Injection
<1>10. ASSUME NEW h \in H, NEW e \in S \ H  PROVE <<h, e>> \in R
    <2>1. h \in S /\ size(h) < n /\ ~(size(e) < n) /\ size(h) \in Nat /\ size(e) \in Nat
        BY <1>1, <1>2
    <2>2. <<e, h>> \notin R /\ e # h
        BY <1>2, <2>1
    <2> QED
        BY <2>1, <2>2 DEF StrictOrder
<1> QED
    BY <1>4, <1>8, <1>9, <1>10 DEF H, k

----------------------------------------------------------------------------
(* What a tool keeps true. *)

Masks       == SUBSET (Nat \X Nat)
Generations == [mask : Masks, whole : BOOLEAN]
Screening   == pc \in {"base", "candidate", "compare", "summarize"}
Files(p, v) == Contents(File(tool, p, v))

Typed ==
    /\ choice \in [Prompts -> [Experts -> Int]]
    /\ tool \in Tools
    /\ pc \in {"idle", "calibrate", "analyze", "base", "candidate", "compare", "summarize"}
    /\ i \in Nat \ {0} /\ c \in Nat \ {0}
    /\ env \in Masks
    /\ \A f \in DOMAIN traces : traces[f] \in Seq(Generations)

\* The candidates are a list that the tool accepts, or the masks of phase A.
Candidates(list) ==
    /\ list \in Seq(Masks) /\ list # <<>>
    /\ \A j \in DOMAIN list : IsFiniteSet(list[j])
    /\ tool # "phase_a" => Accepts(tool, list)

\* Where the loops are.
Placed ==
    /\ pc \in {"calibrate", "analyze"} => tool = "phase_a"
    /\ pc \in {"idle", "calibrate", "analyze"} => rows = <<>>
    /\ pc \in {"idle", "calibrate", "analyze", "base"} => c = 1
    /\ pc \in {"idle", "analyze"} => i = 1
    /\ pc = "calibrate" => i \in 1 .. Len(Calibration)
    /\ Screening =>
           /\ Candidates(cands)
           /\ i \in 1 .. Len(Items(tool)) /\ c \in 1 .. Len(cands)
           /\ pc = "summarize" => i = Len(Items(tool)) /\ c = Len(cands)

\* What has been compared.
Compared(n, j) ==
    \/ n < i
    \/ n = i /\ (j < c \/ pc = "summarize")

\* A prompt is not routed to any expert of the mask.
Harmless(p, mask) ==
    \A m \in DOMAIN Modalities(p), l \in Layers :
        \A e \in Routed(p, m, {}, l) : <<l, e>> \notin mask

\* What a row says of the item and the mask it is about.
Row(r, p, mask) ==
    /\ Harmless(p, mask) => r.exact /\ r.near
    /\ Traced(tool) =>
           /\ r.substitutions = CleanEvidence(p, mask).substitutions
           /\ r.media = CleanEvidence(p, mask).media
           /\ r.text = CleanEvidence(p, mask).text
           /\ p \in Range(Cases) => r.substitutions >= r.media + r.text

Collected ==
    Screening =>
        /\ DOMAIN rows = {x \in (1 .. Len(Items(tool))) \X (1 .. Len(cands)) :
                              Compared(x[1], x[2])}
        /\ \A x \in DOMAIN rows : Row(rows[x], Items(tool)[x[1]], cands[x[2]])
        /\ pc = "compare" => got \in Outcomes(Items(tool)[i], cands[c])

\* Trace files: a candidate's is never there without the full store's, which holds
\* generations without a mask.
FullFirst ==
    Traced(tool) =>
        /\ \A p, v : Files(p, v) # <<>> => Files(p, Full) # <<>>
        /\ \A p : \A g \in DOMAIN Files(p, Full) : Files(p, Full)[g].mask = {}

\* When the full store's file has this run's generation alone, so has the candidate's.
Appended ==
    Traced(tool) /\ pc \in {"candidate", "compare"} =>
        LET p == Items(tool)[i]
            n == Len(Files(p, Full))
        IN /\ n > 0 /\ Files(p, Full)[n] = Generation({}, TRUE)
           /\ n = 1 => \A v \in Nat : v > c \/ (v = c /\ pc = "candidate") =>
                           Files(p, v) = <<>>
           /\ n = 1 /\ pc = "compare" => Files(p, c) = <<Generation(cands[c], TRUE)>>

\* The calibration prompts done, and what each left in its file.
Done == CASE pc = "calibrate" -> 1 .. i - 1
          [] pc = "analyze"   -> 1 .. Len(Calibration)
          [] OTHER            -> {}

Calibrated ==
    \A j \in Done :
        LET file == Contents(<<"calibration", Calibration[j]>>)
        IN  Serves(env) /\ \E g \in DOMAIN file : file[g] = Generation(env, TRUE)

Course == Typed /\ Placed /\ Collected /\ FullFirst /\ Appended /\ Calibrated

Promises == MasksFollowCalibration /\ EvidenceOfThisRun /\ StrongestSelected /\ HarmlessPasses

ScreenInv == Course /\ Promises

----------------------------------------------------------------------------
(* The router under a mask. *)

LEMMA ScoresTyped ==
    ASSUME Typed, NEW p \in Prompts, NEW n
    PROVE  Score(p, n) \in [Experts -> Int] /\ Opposite(Score(p, n)) \in [Experts -> Int]
<1>1. choice[p] \in [Experts -> Int]
    BY DEF Typed
<1>2. ASSUME NEW score \in [Experts -> Int]  PROVE Opposite(score) \in [Experts -> Int]
    BY DEF Opposite
<1> QED
    BY <1>1, <1>2 DEF Score

LEMMA AllowedFinite ==
    ASSUME NEW mask, NEW l
    PROVE  /\ Allowed(mask, l) \subseteq Experts /\ IsFiniteSet(Allowed(mask, l))
           /\ Cardinality(Allowed(mask, l)) \in Nat
<1>1. Allowed(mask, l) \in SUBSET Experts
    BY DEF Allowed
<1> QED
    BY <1>1, ScreenAssumption, FS_Subset, FS_CardinalityType

LEMMA ExpertsAreNumbers == Experts \subseteq Nat
<1>1. Cardinality(Experts) \in Nat
    BY ScreenAssumption, FS_CardinalityType
<1> QED
    BY <1>1, ScreenAssumption

\* Equal scores included, the experts that are open are in a strict order.
LEMMA PrefersOrders ==
    ASSUME NEW score \in [Experts -> Int], NEW A \in SUBSET Experts
    PROVE  StrictOrder(A, {x \in A \X A : Prefers(score, x[1], x[2])})
<1> DEFINE R == {x \in A \X A : Prefers(score, x[1], x[2])}
<1>1. \A d, e \in A : <<d, e>> \in R <=> Prefers(score, d, e)
    OBVIOUS
<1>2. \A d \in A : d \in Int /\ score[d] \in Int
    BY ExpertsAreNumbers
<1> HIDE DEF R
<1> QED
    BY <1>1, <1>2 DEF StrictOrder, Prefers, R

LEMMA TopExact ==
    ASSUME NEW score \in [Experts -> Int], NEW mask, NEW l
    PROVE  /\ Top(score, mask, l) \subseteq Allowed(mask, l)
           /\ IsFiniteSet(Top(score, mask, l))
           /\ Cardinality(Top(score, mask, l)) \in Nat
           /\ Cardinality(Top(score, mask, l)) <= TopK
           /\ Cardinality(Allowed(mask, l)) >= TopK =>
                  Cardinality(Top(score, mask, l)) = TopK
<1> DEFINE A == Allowed(mask, l)
           R == {x \in A \X A : Prefers(score, x[1], x[2])}
<1>1. A \in SUBSET Experts /\ IsFiniteSet(A) /\ Cardinality(A) \in Nat
    BY AllowedFinite
<1>2. StrictOrder(A, R)
    BY <1>1, PrefersOrders
<1>3. Top(score, mask, l) = First(A, R, TopK)
    <2>1. ASSUME NEW e \in A
          PROVE  {d \in A : Prefers(score, d, e)} = {d \in A : <<d, e>> \in R}
        OBVIOUS
    <2> HIDE DEF A, R
    <2> QED
        BY <2>1 DEF Top, First, A
<1>4. TopK \in Nat
    BY ScreenAssumption
<1> HIDE DEF A, R
<1> QED
    BY <1>1, <1>2, <1>3, <1>4, FirstExact, FS_CardinalityType DEF A

\* A mask of experts that are not chosen without it changes nothing.
LEMMA TopUnmasked ==
    ASSUME NEW score \in [Experts -> Int], NEW mask, NEW l,
           \A e \in Top(score, {}, l) : <<l, e>> \notin mask
    PROVE  Top(score, mask, l) = Top(score, {}, l)
<1> DEFINE T == Top(score, {}, l)
           M == Top(score, mask, l)
           A == Allowed(mask, l)
           before(e) == {d \in A : Prefers(score, d, e)}
           all(e) == {d \in Experts : Prefers(score, d, e)}
<1>1. Allowed({}, l) = Experts
    BY DEF Allowed
<1>2. IsFiniteSet(T) /\ IsFiniteSet(M) /\ Cardinality(T) = TopK /\ Cardinality(M) <= TopK
    BY <1>1, TopExact, ScreenAssumption
<1>3. T \subseteq A
    BY <1>1 DEF Top, Allowed
<1>4. ASSUME NEW e \in T  PROVE e \in M
    <2>1. e \in A /\ Cardinality(all(e)) < TopK
        BY <1>1, <1>3 DEF Top
    <2>2. before(e) \in SUBSET all(e) /\ all(e) \in SUBSET Experts
        BY DEF Allowed
    <2>3. /\ IsFiniteSet(all(e)) /\ Cardinality(all(e)) \in Nat
          /\ Cardinality(before(e)) <= Cardinality(all(e))
          /\ Cardinality(before(e)) \in Nat
        <3> HIDE DEF before, all
        <3> QED
            BY <2>2, ScreenAssumption, FS_Subset, FS_CardinalityType
    <2>4. TopK \in Nat
        BY ScreenAssumption
    <2>5. Cardinality(before(e)) < TopK
        <3> HIDE DEF before, all
        <3> QED
            BY <2>1, <2>3, <2>4
    <2> QED
        BY <2>1, <2>5 DEF Top
<1>5. T \in SUBSET M
    BY <1>4
<1>6. Cardinality(T) <= Cardinality(M) /\ Cardinality(M) \in Nat
    BY <1>2, <1>5, FS_Subset, FS_CardinalityType
<1>7. Cardinality(M) = Cardinality(T)
    BY <1>2, <1>6, ScreenAssumption
<1> HIDE DEF T, M
<1>8. M = T
    BY <1>2, <1>5, <1>7, FS_Subset
<1> QED
    BY <1>8 DEF T, M

\* Whatever an earlier layer did, a layer is routed among its open experts, and to as many
\* as the router takes where the mask leaves that many.
LEMMA RoutedExact ==
    ASSUME Typed, NEW p \in Prompts, NEW n, NEW mask, NEW l
    PROVE  /\ Routed(p, n, mask, l) \subseteq Allowed(mask, l)
           /\ IsFiniteSet(Routed(p, n, mask, l))
           /\ Cardinality(Allowed(mask, l)) >= TopK =>
                  /\ Cardinality(Routed(p, n, mask, l)) = TopK
                  /\ Routed(p, n, mask, l) # {}
<1> DEFINE score == IF Changed(p, n, mask, l) THEN Opposite(Score(p, n)) ELSE Score(p, n)
<1>1. score \in [Experts -> Int]
    BY ScoresTyped
<1>2. Routed(p, n, mask, l) = Top(score, mask, l)
    BY DEF Routed
<1> HIDE DEF score
<1>3. Cardinality({}) = 0 /\ TopK # 0
    BY FS_EmptySet, ScreenAssumption
<1> QED
    BY <1>1, <1>2, <1>3, TopExact

LEMMA RoutedAlways ==
    ASSUME Typed, NEW p \in Prompts, NEW n, NEW l
    PROVE  /\ Routed(p, n, {}, l) = Top(Score(p, n), {}, l)
           /\ Routed(p, n, {}, l) # {} /\ Routed(p, n, {}, l) \subseteq Experts
<1>1. Allowed({}, l) = Experts
    BY DEF Allowed
<1> QED
    BY <1>1, RoutedExact, ScreenAssumption DEF Routed, Changed

\* Under a mask of experts that a prompt is not routed to, it is routed as without.
LEMMA HarmlessRoutes ==
    ASSUME Typed, NEW p \in Prompts, NEW mask, Harmless(p, mask),
           NEW n \in DOMAIN Modalities(p), NEW l \in Layers
    PROVE  Routed(p, n, mask, l) = Routed(p, n, {}, l)
<1>1. \A m \in Layers : Top(Score(p, n), mask, m) = Top(Score(p, n), {}, m)
    BY TopUnmasked, RoutedAlways, ScoresTyped DEF Harmless
<1>2. ~Changed(p, n, mask, l)
    BY <1>1 DEF Changed
<1> QED
    BY <1>1, <1>2, RoutedAlways DEF Routed

----------------------------------------------------------------------------
(* What stays the same while the model does. *)

LEMMA ModelFrame ==
    ASSUME choice' = choice
    PROVE  /\ \A p, n : Score(p, n)' = Score(p, n)
           /\ \A p, n, mask, l : Routed(p, n, mask, l)' = Routed(p, n, mask, l)
<1>1. \A p, n : Score(p, n)' = Score(p, n)
    BY DEF Score
<1>2. \A p, n, mask, l : Changed(p, n, mask, l)' = Changed(p, n, mask, l)
    BY <1>1 DEF Changed
<1> QED
    BY <1>1, <1>2 DEF Routed

LEMMA EvidenceFrame ==
    ASSUME choice' = choice
    PROVE  /\ \A p, file : ReadTrace(p, file)' = ReadTrace(p, file)
           /\ \A p, mask : CleanEvidence(p, mask)' = CleanEvidence(p, mask)
           /\ \A p, mask : Harmless(p, mask)' = Harmless(p, mask)
           /\ \A p, mask : Outcomes(p, mask)' = Outcomes(p, mask)
<1>1. \A p, n, mask, l : Routed(p, n, mask, l)' = Routed(p, n, mask, l)
    BY ModelFrame
<1>2. \A p, file : ReadTrace(p, file)' = ReadTrace(p, file)
    BY <1>1 DEF ReadTrace
<1>3. \A p, mask : CleanEvidence(p, mask)' = CleanEvidence(p, mask)
    BY <1>2 DEF CleanEvidence
<1>4. \A p, mask : Harmless(p, mask)' = Harmless(p, mask)
    BY <1>1 DEF Harmless
<1>5. \A p, mask : Outcomes(p, mask)' = Outcomes(p, mask)
    BY <1>1 DEF Outcomes
<1> QED
    BY <1>2, <1>3, <1>4, <1>5

\* What a summary or an analysis says does not depend on what is done later.
LEMMA SummaryFrame ==
    ASSUME choice' = choice, tool' = tool, summary' = summary,
           EvidenceOfThisRun, StrongestSelected, HarmlessPasses
    PROVE  EvidenceOfThisRun' /\ StrongestSelected' /\ HarmlessPasses'
<1>1. EvidenceOfThisRun'
    BY EvidenceFrame DEF EvidenceOfThisRun
<1>2. StrongestSelected'
    BY DEF StrongestSelected
<1>3. HarmlessPasses'
    BY ModelFrame DEF HarmlessPasses
<1> QED
    BY <1>1, <1>2, <1>3

LEMMA PromisesFrame ==
    ASSUME choice' = choice, tool' = tool, summary' = summary, masks' = masks, Promises
    PROVE  Promises'
<1>1. MasksFollowCalibration'
    BY DEF Promises, MasksFollowCalibration
<1> QED
    BY <1>1, SummaryFrame DEF Promises

\* Every tool has items.
LEMMA ItemsTyped ==
    ASSUME Typed
    PROVE  Items(tool) \in Seq(Prompts) /\ Len(Items(tool)) \in Nat \ {0}
<1>1. /\ HeldOut \in Seq(Prompts) /\ HeldOut # <<>>
      /\ Cases \in Seq(Prompts) /\ Cases # <<>>
    BY ScreenAssumption
<1>2. Len(HeldOut) > 0 /\ Len(Cases) > 0 /\ Len(HeldOut) \in Nat /\ Len(Cases) \in Nat
    BY <1>1
<1>3. HeldOut \o Cases \in Seq(Prompts) /\ Len(HeldOut \o Cases) = Len(HeldOut) + Len(Cases)
    BY <1>1
<1>4. <<Head(HeldOut)>> \in Seq(Prompts) /\ Len(<<Head(HeldOut)>>) = 1
    BY <1>1
<1>5. tool \in {"phase_a", "phase_b", "multi", "sentinel", "guard", "vl_phase_b"}
    BY ScreenAssumption DEF Typed
<1> QED
    BY <1>1, <1>2, <1>3, <1>4, <1>5
    DEF Items, PhaseAItems, PhaseBItems, MultiItems, SentinelItems, GuardItems, VLPhaseBItems

----------------------------------------------------------------------------
(* Trace files. *)

LEMMA ContentsTyped ==
    ASSUME Typed, NEW f
    PROVE  Contents(f) \in Seq(Generations) /\ Len(Contents(f)) \in Nat
<1>1. Contents(f) \in Seq(Generations)
    BY DEF Typed, Contents
<1> QED
    BY <1>1

LEMMA AppendsToFile ==
    ASSUME Typed, NEW f, NEW g \in Generations, traces' = Append1(f, g)
    PROVE  /\ Contents(f)' = Append(Contents(f), g)
           /\ \A h : h # f => Contents(h)' = Contents(h)
           /\ \A h \in DOMAIN traces' : traces'[h] \in Seq(Generations)
<1>1. /\ DOMAIN traces' = DOMAIN traces \cup {f}
      /\ \A h \in DOMAIN traces' :
             traces'[h] = IF h = f THEN Append(Contents(f), g) ELSE traces[h]
    BY DEF Append1, Put
<1>2. Append(Contents(f), g) \in Seq(Generations)
    BY ContentsTyped
<1>3. Contents(f)' = Append(Contents(f), g)
    BY <1>1 DEF Contents
<1>4. \A h : h # f => Contents(h)' = Contents(h)
    BY <1>1 DEF Contents
<1> QED
    BY <1>1, <1>2, <1>3, <1>4 DEF Typed

\* A tool's files are told apart by prompt and variant, and are not those of the calibration.
LEMMA FilesApart ==
    ASSUME NEW t, NEW p, NEW v, NEW q, NEW w
    PROVE  /\ File(t, p, v) = File(t, q, w) => p = q /\ v = w
           /\ File(t, p, v) # <<"calibration", q>>
<1>1. DOMAIN <<t, p, v>> = 1 .. 3 /\ DOMAIN <<"calibration", q>> = 1 .. 2
    OBVIOUS
<1>2. 3 \in 1 .. 3 /\ 3 \notin 1 .. 2
    OBVIOUS
<1>3. File(t, p, v) # <<"calibration", q>>
    BY <1>1, <1>2 DEF File
<1> QED
    BY <1>3 DEF File

LEMMA TraceFiles ==
    ASSUME Typed, tool' = tool, NEW p, NEW v, NEW g \in Generations,
           traces' = Append1(File(tool, p, v), g)
    PROVE  /\ Files(p, v)' = Append(Files(p, v), g)
           /\ \A q, w : ~(q = p /\ w = v) => Files(q, w)' = Files(q, w)
           /\ \A h \in DOMAIN traces' : traces'[h] \in Seq(Generations)
<1>1. \A q, w : Files(q, w)' = Contents(File(tool, q, w))'
    BY DEF Files, File
<1>2. ASSUME NEW q, NEW w, ~(q = p /\ w = v)  PROVE Files(q, w)' = Files(q, w)
    <2>1. File(tool, q, w) # File(tool, p, v)
        BY <1>2, FilesApart
    <2> QED
        BY <1>1, <2>1, AppendsToFile DEF Files, Contents, File
<1>3. Files(p, v)' = Append(Files(p, v), g)
    BY <1>1, AppendsToFile DEF Files, Contents, File
<1> QED
    BY <1>2, <1>3, AppendsToFile

LEMMA FilesFrame ==
    ASSUME traces' = traces, tool' = tool
    PROVE  \A p, v : Files(p, v)' = Files(p, v)
<1> QED
    BY DEF Files, File, Contents

LEMMA FilesTyped ==
    ASSUME Typed, NEW p, NEW v
    PROVE  Files(p, v) \in Seq(Generations) /\ Len(Files(p, v)) \in Nat
<1> QED
    BY ContentsTyped DEF Files

LEMMA GenerationTyped ==
    ASSUME NEW mask \in Masks, NEW whole \in BOOLEAN
    PROVE  /\ Generation(mask, whole) \in Generations
           /\ Generation(mask, whole).mask = mask
<1> QED
    BY DEF Generation, Generations

LEMMA FullFirstAppends ==
    ASSUME Typed, Traced(tool), FullFirst, tool' = tool, NEW p, NEW v, NEW g \in Generations,
           traces' = Append1(File(tool, p, v), g),
           v = Full => g.mask = {},
           v # Full => Files(p, Full) # <<>>
    PROVE  FullFirst'
<1>1. /\ Files(p, v)' = Append(Files(p, v), g)
      /\ \A q, w : ~(q = p /\ w = v) => Files(q, w)' = Files(q, w)
    BY TraceFiles
<1>2. \A q, w : Files(q, w) \in Seq(Generations)
    BY FilesTyped
<1>3. /\ Append(Files(p, v), g) # <<>>
      /\ \A n \in DOMAIN Append(Files(p, v), g) :
             \/ n \in DOMAIN Files(p, v) /\ Append(Files(p, v), g)[n] = Files(p, v)[n]
             \/ Append(Files(p, v), g)[n] = g
    BY <1>2
<1>4. ASSUME NEW q, NEW w, Files(q, w)' # <<>>  PROVE Files(q, Full)' # <<>>
    <2>1. CASE q = p /\ v = Full
        BY <1>1, <1>3, <2>1
    <2>2. CASE q = p /\ v # Full
        BY <1>1, <2>2
    <2>3. CASE q # p
        BY <1>1, <1>4, <2>3 DEF FullFirst
    <2> QED
        BY <2>1, <2>2, <2>3
<1>5. ASSUME NEW q, NEW n \in DOMAIN Files(q, Full)'
      PROVE  Files(q, Full)'[n].mask = {}
    <2>1. CASE q = p /\ v = Full
        <3>1. \/ n \in DOMAIN Files(p, Full) /\ Files(q, Full)'[n] = Files(p, Full)[n]
              \/ Files(q, Full)'[n] = g
            BY <1>1, <1>3, <1>5, <2>1
        <3> QED
            BY <2>1, <3>1 DEF FullFirst
    <2>2. CASE ~(q = p /\ v = Full)
        BY <1>1, <1>5, <2>2 DEF FullFirst
    <2> QED
        BY <2>1, <2>2
<1>6. \A q : \A n \in DOMAIN Files(q, Full)' : Files(q, Full)'[n].mask = {}
    BY <1>5
<1>7. \A q, w : Files(q, w)' # <<>> => Files(q, Full)' # <<>>
    BY <1>4
<1> QED
    BY <1>6, <1>7 DEF FullFirst

LEMMA FullFirstFrame ==
    ASSUME FullFirst, tool' = tool, \A p, v : Files(p, v)' = Files(p, v)
    PROVE  FullFirst'
<1>1. Traced(tool)' = Traced(tool)
    BY DEF Traced
<1> QED
    BY <1>1 DEF FullFirst

----------------------------------------------------------------------------
(* The steps. *)

LEMMA InitScreen == Init => ScreenInv
<1> SUFFICES ASSUME Init  PROVE ScreenInv
    OBVIOUS
<1>1. choice \in [Prompts -> [Experts -> Int]]
    BY ScreenAssumption DEF Init
<1>2. Typed
    BY <1>1 DEF Init, Typed, Masks
<1>3. \A p, v : Files(p, v) = <<>>
    BY DEF Init, Files, File, Contents
<1>4. FullFirst
    BY <1>3 DEF FullFirst
<1>5. Placed /\ Collected /\ Appended /\ Calibrated
    BY DEF Init, Placed, Collected, Appended, Calibrated, Done, Screening
<1>6. Promises
    BY DEF Init, Promises, MasksFollowCalibration, EvidenceOfThisRun, StrongestSelected,
           HarmlessPasses, None
<1> QED
    BY <1>2, <1>4, <1>5, <1>6 DEF ScreenInv, Course

\* A tool that ends, however it does, leaves what is in the files.
LEMMA LeaveCourse ==
    ASSUME Course, Leave, choice' = choice, FullFirst',
           \A f \in DOMAIN traces' : traces'[f] \in Seq(Generations)
    PROVE  Course'
<1>1. Typed'
    BY DEF Course, Typed, Leave, Masks
<1>2. Placed' /\ Collected' /\ Appended' /\ Calibrated'
    BY DEF Leave, Placed, Collected, Appended, Calibrated, Done, Screening
<1> QED
    BY <1>1, <1>2 DEF Course

LEMMA StopInv ==
    ASSUME ScreenInv, Stop, FullFirst',
           \A f \in DOMAIN traces' : traces'[f] \in Seq(Generations)
    PROVE  ScreenInv'
<1>1. choice' = choice /\ tool' = tool /\ summary' = summary /\ masks' = masks /\ Leave
    BY DEF Stop, Leave
<1> QED
    BY <1>1, LeaveCourse, PromisesFrame DEF ScreenInv

LEMMA KilledInv == ASSUME ScreenInv, Killed  PROVE ScreenInv'
<1>1. tool' = tool /\ traces' = traces /\ Stop
    BY DEF Killed, Stop, Leave
<1>2. FullFirst'
    BY <1>1, FilesFrame, FullFirstFrame DEF ScreenInv, Course
<1> QED
    BY <1>1, <1>2, StopInv DEF ScreenInv, Course, Typed

\* What a list of candidates is, does not depend on where the tool is.
LEMMA BeginCourse ==
    ASSUME ScreenInv, NEW at \in {"calibrate", "base"}, Begin(at),
           at = "calibrate" => tool = "phase_a",
           at = "base" => Candidates(cands')
    PROVE  ScreenInv'
<1>1. /\ pc = "idle" /\ pc' = at /\ env' \in EnvMasks
      /\ choice' = choice /\ tool' = tool /\ i' = i /\ c' = c /\ rows' = rows
      /\ traces' = traces /\ masks' = masks /\ summary' = summary
    BY DEF Begin
<1>2. i = 1 /\ c = 1 /\ rows = <<>>
    BY <1>1 DEF ScreenInv, Course, Placed
<1>3. Typed'
    BY <1>1, ScreenAssumption DEF ScreenInv, Course, Typed, Masks
<1>4. Items(tool)' = Items(tool)
    BY <1>1 DEF Items
<1>5. Len(Items(tool)) \in Nat \ {0} /\ Len(Calibration) \in Nat \ {0}
    <2>1. Calibration \in Seq(Prompts) /\ Calibration # <<>>
        BY ScreenAssumption
    <2> QED
        BY <2>1, ItemsTyped DEF ScreenInv, Course
<1>6. at = "base" => Len(cands') \in Nat \ {0} /\ Candidates(cands)'
    <2>1. Candidates(cands)' <=> Candidates(cands')
        BY <1>1 DEF Candidates, Accepts
    <2> QED
        BY <2>1 DEF Candidates
<1>7. Placed'
    BY <1>1, <1>2, <1>4, <1>5, <1>6 DEF Placed, Screening
<1>8. Collected'
    <2> SUFFICES ASSUME at = "base"
                 PROVE  /\ DOMAIN rows' = {x \in (1 .. Len(Items(tool)')) \X (1 .. Len(cands')) :
                                               Compared(x[1], x[2])'}
                        /\ rows' = <<>>
        BY <1>1 DEF Collected, Screening
    <2>1. ASSUME NEW n \in 1 .. Len(Items(tool)), NEW j \in 1 .. Len(cands')
          PROVE  ~Compared(n, j)'
        BY <1>1, <1>2, <1>5, <1>6 DEF Compared
    <2> QED
        BY <1>1, <1>2, <1>4, <2>1
<1>9. FullFirst'
    BY <1>1, FilesFrame, FullFirstFrame DEF ScreenInv, Course
<1>10. Appended'
    BY <1>1 DEF Appended
<1>11. Calibrated'
    <2>1. Done' = {}
        BY <1>1, <1>2 DEF Done
    <2> QED
        BY <2>1 DEF Calibrated
<1>12. Promises'
    BY <1>1, PromisesFrame DEF ScreenInv
<1> QED
    BY <1>3, <1>7, <1>8, <1>9, <1>10, <1>11, <1>12 DEF ScreenInv, Course

LEMMA StartInv == ASSUME ScreenInv, StartPhaseA \/ StartScreen  PROVE ScreenInv'
<1>1. CASE StartPhaseA
    BY <1>1, BeginCourse DEF StartPhaseA
<1>2. CASE StartScreen
    <2>1. PICK list \in Lists : Accepts(tool, list) /\ Begin("base") /\ cands' = list
        BY <1>2 DEF StartScreen
    <2>2. list \in Seq(Masks) /\ \A j \in DOMAIN list : IsFiniteSet(list[j])
        BY ScreenAssumption DEF Masks
    <2>3. list # <<>>
        <3>1. tool \in {"phase_b", "multi", "sentinel", "guard", "vl_phase_b"}
            BY <1>2, ScreenAssumption DEF StartScreen, ScreenInv, Course, Typed
        <3>2. CandidateSpecs(list) \/ OneMask(list)
            BY <2>1, <3>1 DEF Accepts, ValidateCandidates
        <3> QED
            BY <3>2 DEF CandidateSpecs, OneMask
    <2>4. Candidates(list)
        BY <2>1, <2>2, <2>3 DEF Candidates
    <2> QED
        BY <2>1, <2>4, BeginCourse
<1> QED
    BY <1>1, <1>2

LEMMA RowFrame ==
    ASSUME choice' = choice, tool' = tool
    PROVE  \A r, p, mask : Row(r, p, mask)' = Row(r, p, mask)
<1>1. Traced(tool)' = Traced(tool)
    BY DEF Traced
<1> QED
    BY <1>1, EvidenceFrame DEF Row

LEMMA CalibrateInv == ASSUME ScreenInv, Calibrate  PROVE ScreenInv'
<1>0. PICK m, f, g : m = i /\ f = <<"calibration", Calibration[i]>> /\ g = Generation(env, TRUE)
    OBVIOUS
<1>1. /\ pc = "calibrate" /\ Serves(env) /\ traces' = Append1(f, g)
      /\ IF i < Len(Calibration) THEN i' = i + 1 /\ pc' = pc ELSE i' = 1 /\ pc' = "analyze"
      /\ choice' = choice /\ tool' = tool /\ c' = c /\ env' = env /\ cands' = cands
      /\ rows' = rows /\ masks' = masks /\ summary' = summary
    BY <1>0 DEF Calibrate
<1>2. /\ i \in 1 .. Len(Calibration) /\ tool = "phase_a" /\ rows = <<>> /\ c = 1
      /\ Len(Calibration) \in Nat
    <2>1. Calibration \in Seq(Prompts)
        BY ScreenAssumption
    <2> QED
        BY <1>1, <2>1 DEF ScreenInv, Course, Placed
<1>3. Typed /\ g \in Generations
    BY <1>0, GenerationTyped DEF ScreenInv, Course, Typed
<1>4. /\ Contents(f)' = Append(Contents(f), g)
      /\ \A h : h # f => Contents(h)' = Contents(h)
      /\ \A h \in DOMAIN traces' : traces'[h] \in Seq(Generations)
    BY <1>1, <1>3, AppendsToFile
<1>5. Typed'
    BY <1>1, <1>2, <1>3, <1>4 DEF Typed
<1>6. Placed' /\ Collected' /\ Appended'
    <2>1. pc' \in {"calibrate", "analyze"}
        BY <1>1
    <2>2. i' = 1 \/ (pc' = "calibrate" /\ i' \in 1 .. Len(Calibration))
        BY <1>1, <1>2
    <2>3. ~Screening'
        BY <2>1 DEF Screening
    <2>4. Placed'
        BY <1>1, <1>2, <2>1, <2>2, <2>3 DEF Placed
    <2> QED
        BY <2>1, <2>3, <2>4 DEF Collected, Appended
<1>7. \A q, v : Files(q, v)' = Files(q, v)
    <2> SUFFICES ASSUME NEW q, NEW v  PROVE Files(q, v)' = Files(q, v)
        OBVIOUS
    <2>1. File(tool, q, v) # f
        BY <1>0, FilesApart
    <2> QED
        BY <1>1, <1>4, <2>1 DEF Files, File, Contents
<1>8. FullFirst'
    BY <1>1, <1>7, FullFirstFrame DEF ScreenInv, Course
<1>9. Calibrated'
    <2>1. Done' \subseteq Done \cup {m}
        BY <1>0, <1>1, <1>2 DEF Done
    <2>2. ASSUME NEW h, NEW n \in DOMAIN Contents(h), Contents(h)[n] = g
          PROVE  n \in DOMAIN Contents(h)' /\ Contents(h)'[n] = g
        <3>1. Contents(h) \in Seq(Generations)
            BY <1>3, ContentsTyped
        <3> QED
            BY <1>3, <1>4, <2>2, <3>1
    <2>3. \E n \in DOMAIN Contents(f)' : Contents(f)'[n] = g
        <3>1. Contents(f) \in Seq(Generations)
            BY <1>3, ContentsTyped
        <3>2. Len(Contents(f)) + 1 \in DOMAIN Append(Contents(f), g)
            BY <3>1
        <3> QED
            BY <1>4, <3>1, <3>2
    <2>4. /\ Serves(env)' /\ g = Generation(env, TRUE)
          /\ Generation(env, TRUE)' = Generation(env, TRUE)
        BY <1>0, <1>1 DEF Serves, Allowed, Generation
    <2>5. ASSUME NEW j \in Done'
          PROVE  \E n \in DOMAIN Contents(<<"calibration", Calibration[j]>>)' :
                     Contents(<<"calibration", Calibration[j]>>)'[n] = g
        <3>1. CASE j = m
            BY <1>0, <2>3, <3>1
        <3>2. CASE j # m
            <4>1. j \in Done
                BY <2>1, <3>2
            <4>2. PICK n \in DOMAIN Contents(<<"calibration", Calibration[j]>>) :
                           Contents(<<"calibration", Calibration[j]>>)[n] = g
                BY <2>4, <4>1 DEF ScreenInv, Course, Calibrated
            <4> QED
                BY <2>2, <4>2
        <3> QED
            BY <3>1, <3>2
    <2> QED
        BY <2>4, <2>5 DEF Calibrated
<1>10. Promises'
    BY <1>1, PromisesFrame DEF ScreenInv
<1> QED
    BY <1>5, <1>6, <1>8, <1>9, <1>10 DEF ScreenInv, Course

LEMMA SlotsFinite == IsFiniteSet(Slots) /\ Slots \subseteq Nat \X Nat
<1>1. IsFiniteSet(Layers) /\ Layers \subseteq Nat
    <2>1. 1 \in Int /\ LastLayer \in Int
        BY ScreenAssumption
    <2>2. IsFiniteSet(1 .. LastLayer)
        BY <2>1, FS_Interval
    <2> QED
        BY <2>2 DEF Layers
<1>2. IsFiniteSet(Layers \X Experts)
    BY <1>1, ScreenAssumption, FS_Product
<1> QED
    BY <1>1, <1>2, ExpertsAreNumbers DEF Slots

\* The masks of an analysis are candidates.
LEMMA AnalyzeCourse == ASSUME ScreenInv, Analyze  PROVE Course'
<1> DEFINE keep == [j \in DOMAIN Keeps |-> KeepMask(PerLayer, Keeps[j])]
           unseen == UnseenMask(PerLayer, Cap)
<1>1. /\ pc = "analyze" /\ pc' = "base" /\ cands' = keep \o <<unseen>>
      /\ choice' = choice /\ tool' = tool /\ i' = i /\ c' = c /\ env' = env
      /\ rows' = rows /\ traces' = traces
    BY DEF Analyze
<1>2. i = 1 /\ c = 1 /\ rows = <<>> /\ tool = "phase_a"
    BY <1>1 DEF ScreenInv, Course, Placed
<1>3. Candidates(cands') /\ Len(cands') \in Nat \ {0}
    <2>1. ASSUME NEW mask \in SUBSET Slots  PROVE mask \in Masks /\ IsFiniteSet(mask)
        BY SlotsFinite, FS_Subset DEF Masks
    <2>2. Keeps \in Seq(TopK .. Cardinality(Experts))
        BY ScreenAssumption
    <2>3. keep \in Seq(SUBSET Slots)
        <3>1. \A j \in DOMAIN Keeps : KeepMask(PerLayer, Keeps[j]) \in SUBSET Slots
            BY DEF KeepMask
        <3>2. DOMAIN Keeps = 1 .. Len(Keeps) /\ Len(Keeps) \in Nat
            BY <2>2
        <3> QED
            BY <3>1, <3>2
    <2>4. unseen \in SUBSET Slots
        BY DEF UnseenMask
    <2> HIDE DEF keep, unseen
    <2>5. cands' \in Seq(SUBSET Slots) /\ Len(cands') = Len(keep) + 1 /\ Len(keep) \in Nat
        BY <1>1, <2>3, <2>4
    <2>6. cands' \in Seq(Masks) /\ \A j \in DOMAIN cands' : IsFiniteSet(cands'[j])
        <3>1. \A j \in DOMAIN cands' : cands'[j] \in SUBSET Slots
            BY <2>5
        <3>2. SUBSET Slots \subseteq Masks
            BY <2>1
        <3> QED
            BY <2>1, <2>5, <3>1, <3>2
    <2> QED
        BY <1>2, <2>5, <2>6 DEF Candidates
<1>4. Typed'
    BY <1>1 DEF ScreenInv, Course, Typed
<1>5. Items(tool)' = Items(tool) /\ Len(Items(tool)) \in Nat \ {0}
    BY <1>1, ItemsTyped DEF Items, ScreenInv, Course
<1>6. Placed'
    <2>1. Candidates(cands)' <=> Candidates(cands')
        BY <1>1 DEF Candidates, Accepts
    <2> QED
        BY <1>1, <1>2, <1>3, <1>5, <2>1 DEF Placed, Screening
<1>7. Collected'
    <2>1. ASSUME NEW n \in 1 .. Len(Items(tool)), NEW j \in 1 .. Len(cands')
          PROVE  ~Compared(n, j)'
        BY <1>1, <1>2, <1>3, <1>5 DEF Compared
    <2> QED
        BY <1>1, <1>2, <1>5, <2>1 DEF Collected
<1>8. FullFirst'
    BY <1>1, FilesFrame, FullFirstFrame DEF ScreenInv, Course
<1>9. Appended' /\ Calibrated'
    BY <1>1 DEF Appended, Calibrated, Done
<1> QED
    BY <1>4, <1>6, <1>7, <1>8, <1>9 DEF Course

\* One file of a tool grows by a generation.
Grows(p, v, g) ==
    /\ Files(p, v)' = Append(Files(p, v), g)
    /\ \A q, w : ~(q = p /\ w = v) => Files(q, w)' = Files(q, w)

\* What a generation adds to the trace files of its prompt.
LEMMA TraceStep ==
    ASSUME Course, Screening, tool' = tool, NEW v, NEW p, p = Items(tool)[i],
           NEW g \in Generations, Trace(v, g),
           v = Full => g.mask = {},
           v # Full /\ Traced(tool) => Files(p, Full) # <<>>
    PROVE  /\ FullFirst'
           /\ \A h \in DOMAIN traces' : traces'[h] \in Seq(Generations)
           /\ Traced(tool) => Grows(p, v, g)
<1>1. CASE Traced(tool)
    <2>1. traces' = Append1(File(tool, p, v), g)
        BY <1>1 DEF Trace
    <2> QED
        BY <1>1, <2>1, FullFirstAppends, TraceFiles DEF Course, Grows
<1>2. CASE ~Traced(tool)
    <2>1. traces' = traces
        BY <1>2 DEF Trace
    <2> QED
        BY <1>2, <2>1, FilesFrame, FullFirstFrame DEF Course, Typed
<1> QED
    BY <1>1, <1>2

\* A generation leaves candidates, loops and rows alone.
LEMMA RowsFrame ==
    ASSUME Course, Screening, tool' = tool, choice' = choice, i' = i, cands' = cands,
           rows' = rows
    PROVE  /\ Items(tool)' = Items(tool)
           /\ Candidates(cands)'
           /\ (\A x \in DOMAIN rows : Row(rows[x], Items(tool)[x[1]], cands[x[2]]))'
<1>1. Items(tool)' = Items(tool) /\ Traced(tool)' = Traced(tool)
    BY DEF Items, Traced
<1>2. Candidates(cands)' <=> Candidates(cands)
    BY DEF Candidates, Accepts
<1>3. \A x \in DOMAIN rows : Row(rows[x], Items(tool)[x[1]], cands[x[2]])
    BY DEF Course, Collected
<1>4. \A x : Row(rows[x], Items(tool)[x[1]], cands[x[2]])'
                 = Row(rows[x], Items(tool)[x[1]], cands[x[2]])
    BY <1>1, EvidenceFrame DEF Row
<1> QED
    BY <1>1, <1>2, <1>3, <1>4 DEF Course, Placed

LEMMA RunBaseInv == ASSUME ScreenInv, RunBase  PROVE ScreenInv'
<1>0. PICK p, g : p = Items(tool)[i] /\ g = Generation({}, TRUE)
    OBVIOUS
<1>1. /\ pc = "base" /\ pc' = "candidate" /\ c' = 1 /\ i' = i /\ Trace(Full, g)
      /\ choice' = choice /\ tool' = tool /\ env' = env /\ cands' = cands
      /\ rows' = rows /\ masks' = masks /\ summary' = summary
    BY <1>0 DEF RunBase, BaseMask
<1>2. Course /\ Screening /\ c = 1
    BY <1>1 DEF ScreenInv, Course, Placed, Screening
<1>3. g \in Generations /\ g.mask = {}
    BY <1>0, GenerationTyped DEF Masks
<1>4. /\ FullFirst'
      /\ \A h \in DOMAIN traces' : traces'[h] \in Seq(Generations)
      /\ Traced(tool) => Grows(p, Full, g)
    BY <1>0, <1>1, <1>2, <1>3, TraceStep
<1>5. /\ Items(tool)' = Items(tool) /\ Candidates(cands)'
      /\ (\A x \in DOMAIN rows : Row(rows[x], Items(tool)[x[1]], cands[x[2]]))'
    BY <1>1, <1>2, RowsFrame
<1>6. Typed'
    BY <1>1, <1>2, <1>4 DEF Course, Typed
<1>7. Placed'
    BY <1>1, <1>2, <1>5 DEF Course, Placed, Screening
<1>8. Collected'
    <2>1. \A n, j : Compared(n, j)' = Compared(n, j)
        BY <1>1, <1>2 DEF Compared
    <2> QED
        BY <1>1, <1>2, <1>5, <2>1 DEF Course, Collected, Screening
<1>9. Appended'
    <2> SUFFICES ASSUME Traced(tool)
                 PROVE  /\ Len(Files(p, Full)') > 0
                        /\ Files(p, Full)'[Len(Files(p, Full)')] = g
                        /\ Len(Files(p, Full)') = 1 =>
                               \A v \in Nat : v > 1 \/ v = 1 => Files(p, v)' = <<>>
        <3>1. Traced(tool)' = Traced(tool) /\ p = (Items(tool)[i])'
            BY <1>0, <1>1, <1>5 DEF Traced
        <3>2. Generation({}, TRUE)' = g
            BY <1>0 DEF Generation
        <3> QED
            BY <1>1, <3>1, <3>2 DEF Appended
    <2>1. PICK F, file : F = Files(p, Full)' /\ file = Files(p, Full)
        OBVIOUS
    <2>2. file \in Seq(Generations) /\ Len(file) \in Nat /\ F = Append(file, g)
        BY <1>2, <1>4, <2>1, FilesTyped DEF Course, Grows
    <2>3. Len(F) = Len(file) + 1 /\ F[Len(F)] = g
        BY <1>3, <2>2
    <2>4. ASSUME Len(F) = 1, NEW v \in Nat, v > 1 \/ v = 1
          PROVE  Files(p, v)' = <<>>
        <3>1. file = <<>>
            BY <2>2, <2>3, <2>4
        <3>2. Files(p, v) = <<>>
            BY <1>2, <2>1, <3>1 DEF Course, FullFirst
        <3> QED
            BY <1>4, <2>4, <3>2 DEF Full, Grows
    <2> QED
        BY <2>1, <2>2, <2>3, <2>4
<1>10. Calibrated'
    BY <1>1 DEF Calibrated, Done
<1>11. Promises'
    BY <1>1, PromisesFrame DEF ScreenInv
<1> QED
    BY <1>4, <1>6, <1>7, <1>8, <1>9, <1>10, <1>11 DEF ScreenInv, Course

LEMMA CandidateMask ==
    ASSUME Course, Screening
    PROVE  /\ cands[c] \in Masks /\ c # Full
           /\ pc \in {"candidate", "compare"} /\ Traced(tool) =>
                  Files(Items(tool)[i], Full) # <<>>
<1>1. c \in 1 .. Len(cands) /\ cands \in Seq(Masks)
    BY DEF Course, Placed, Candidates
<1>2. c # Full
    BY <1>1 DEF Full
<1>3. ASSUME pc \in {"candidate", "compare"}, Traced(tool)
      PROVE  Files(Items(tool)[i], Full) # <<>>
    <2>1. Len(Files(Items(tool)[i], Full)) > 0
        BY <1>3 DEF Course, Appended
    <2>2. Len(<<>>) = 0
        OBVIOUS
    <2> QED
        BY <2>1, <2>2
<1> QED
    BY <1>1, <1>2, <1>3

LEMMA RunCandidateInv == ASSUME ScreenInv, RunCandidate  PROVE ScreenInv'
<1>0. PICK p, k, g : p = Items(tool)[i] /\ k = c /\ g = Generation(cands[c], TRUE)
    OBVIOUS
<1>1. /\ pc = "candidate" /\ pc' = "compare" /\ c' = c /\ i' = i /\ Trace(k, g)
      /\ choice' = choice /\ tool' = tool /\ env' = env /\ cands' = cands
      /\ rows' = rows /\ masks' = masks /\ summary' = summary
      /\ got' \in Outcomes(p, cands[c])
    BY <1>0 DEF RunCandidate
<1>2. Course /\ Screening
    BY <1>1 DEF ScreenInv, Screening
<1>3. /\ g \in Generations /\ k # Full /\ k \in Nat
      /\ Traced(tool) => Files(p, Full) # <<>>
    BY <1>0, <1>1, <1>2, CandidateMask, GenerationTyped DEF Course, Typed
<1>4. /\ FullFirst'
      /\ \A h \in DOMAIN traces' : traces'[h] \in Seq(Generations)
      /\ Traced(tool) => Grows(p, k, g)
    BY <1>0, <1>1, <1>2, <1>3, TraceStep
<1>5. /\ Items(tool)' = Items(tool) /\ Candidates(cands)'
      /\ (\A x \in DOMAIN rows : Row(rows[x], Items(tool)[x[1]], cands[x[2]]))'
    BY <1>1, <1>2, RowsFrame
<1>6. Typed'
    BY <1>1, <1>2, <1>4 DEF Course, Typed
<1>7. Placed'
    BY <1>1, <1>2, <1>5 DEF Course, Placed, Screening
<1>8. Collected'
    <2>1. \A n, j : Compared(n, j)' = Compared(n, j)
        BY <1>1 DEF Compared
    <2>2. Outcomes(p, cands[c]) = Outcomes(Items(tool)[i], cands[c])'
        <3>1. \A q, mask : Outcomes(q, mask)' = Outcomes(q, mask)
            BY <1>1, EvidenceFrame
        <3> QED
            BY <1>0, <1>1, <1>5, <3>1 DEF Outcomes
    <2> QED
        BY <1>1, <1>2, <1>5, <2>1, <2>2 DEF Course, Collected, Screening
<1>9. Appended'
    <2> SUFFICES ASSUME Traced(tool)
                 PROVE  /\ Len(Files(p, Full)') > 0
                        /\ Files(p, Full)'[Len(Files(p, Full)')] = Generation({}, TRUE)
                        /\ Len(Files(p, Full)') = 1 =>
                               /\ \A v \in Nat : v > k => Files(p, v)' = <<>>
                               /\ Files(p, k)' = <<g>>
        <3>1. /\ Traced(tool)' = Traced(tool) /\ p = (Items(tool)[i])' /\ k = c'
              /\ g = Generation(cands[c], TRUE)' /\ Files(p, c)' = Files(p, k)'
            BY <1>0, <1>1, <1>5 DEF Traced, Generation, Files, File, Contents
        <3>2. Generation({}, TRUE)' = Generation({}, TRUE)
            BY DEF Generation
        <3> QED
            BY <1>0, <1>1, <3>1, <3>2 DEF Appended
    <2>1. Files(p, Full)' = Files(p, Full)
        BY <1>3, <1>4 DEF Grows
    <2>2. /\ Len(Files(p, Full)) > 0
          /\ Files(p, Full)[Len(Files(p, Full))] = Generation({}, TRUE)
          /\ Len(Files(p, Full)) = 1 =>
                 \A v \in Nat : v > k \/ v = k => Files(p, v) = <<>>
        BY <1>0, <1>1, <1>2 DEF Course, Appended
    <2>3. ASSUME Len(Files(p, Full)) = 1  PROVE Files(p, k)' = <<g>>
        BY <1>3, <1>4, <2>2, <2>3 DEF Grows
    <2>4. ASSUME Len(Files(p, Full)) = 1, NEW v \in Nat, v > k  PROVE Files(p, v)' = <<>>
        BY <1>3, <1>4, <2>2, <2>4 DEF Grows
    <2> QED
        BY <2>1, <2>2, <2>3, <2>4
<1>10. Calibrated'
    BY <1>1 DEF Calibrated, Done
<1>11. Promises'
    BY <1>1, PromisesFrame DEF ScreenInv
<1> QED
    BY <1>4, <1>6, <1>7, <1>8, <1>9, <1>10, <1>11 DEF ScreenInv, Course

LEMMA CalibrationDiesInv == ASSUME ScreenInv, CalibrationDies  PROVE ScreenInv'
<1>0. PICK f, g : f = <<"calibration", Calibration[i]>> /\ g = Generation(env, FALSE)
    OBVIOUS
<1>1. traces' = Append1(f, g) /\ Stop /\ choice' = choice /\ tool' = tool
    BY <1>0 DEF CalibrationDies, Stop, Leave
<1>2. Typed /\ g \in Generations
    BY <1>0, GenerationTyped DEF ScreenInv, Course, Typed
<1>3. /\ \A h : h # f => Contents(h)' = Contents(h)
      /\ \A h \in DOMAIN traces' : traces'[h] \in Seq(Generations)
    BY <1>1, <1>2, AppendsToFile
<1>4. \A q, v : Files(q, v)' = Files(q, v)
    <2> SUFFICES ASSUME NEW q, NEW v  PROVE Files(q, v)' = Files(q, v)
        OBVIOUS
    <2>1. File(tool, q, v) # f
        BY <1>0, FilesApart
    <2> QED
        BY <1>1, <1>3, <2>1 DEF Files, File, Contents
<1>5. FullFirst'
    BY <1>1, <1>4, FullFirstFrame DEF ScreenInv, Course
<1> QED
    BY <1>1, <1>3, <1>5, StopInv

LEMMA GenerationDiesInv == ASSUME ScreenInv, GenerationDies  PROVE ScreenInv'
<1>1. /\ pc \in {"base", "candidate"} /\ Traced(tool) /\ Stop /\ tool' = tool
      /\ IF pc = "base" THEN Trace(Full, Generation({}, FALSE))
                        ELSE Trace(c, Generation(cands[c], FALSE))
    BY DEF GenerationDies, BaseMask, Stop, Leave
<1>2. Course /\ Screening
    BY <1>1 DEF ScreenInv, Screening
<1>3. PICK p, v, g :
          /\ p = Items(tool)[i] /\ Trace(v, g) /\ g \in Generations
          /\ v = Full => g.mask = {}
          /\ v # Full => Files(p, Full) # <<>>
    <2>1. CASE pc = "base"
        <3>1. {} \in Masks /\ FALSE \in BOOLEAN
            BY DEF Masks
        <3>2. /\ Generation({}, FALSE) \in Generations
              /\ Generation({}, FALSE).mask = {}
            BY <3>1, GenerationTyped
        <3> QED
            BY <1>1, <2>1, <3>2
    <2>2. CASE pc = "candidate"
        <3>1. cands[c] \in Masks /\ FALSE \in BOOLEAN /\ c # Full
            BY <1>2, CandidateMask
        <3>2. Generation(cands[c], FALSE) \in Generations
            BY <3>1, GenerationTyped
        <3> QED
            BY <1>1, <1>2, <2>2, <3>1, <3>2, CandidateMask
    <2> QED
        BY <1>1, <2>1, <2>2
<1>4. FullFirst' /\ \A h \in DOMAIN traces' : traces'[h] \in Seq(Generations)
    BY <1>1, <1>2, <1>3, TraceStep
<1> QED
    BY <1>1, <1>4, StopInv

----------------------------------------------------------------------------
(* What is read from a trace file. *)

LEMMA ModalitiesAre ==
    ASSUME NEW p
    PROVE  /\ Len(Modalities(p)) \in {1, 2} /\ DOMAIN Modalities(p) = 1 .. Len(Modalities(p))
           /\ IsFiniteSet(DOMAIN Modalities(p)) /\ 1 \in DOMAIN Modalities(p)
<1>1. Len(Modalities(p)) \in {1, 2} /\ DOMAIN Modalities(p) = 1 .. Len(Modalities(p))
    <2>1. Modalities(p) = <<"media", "text">> \/ Modalities(p) = <<"text">>
        BY DEF Modalities
    <2>2. \A m : m = <<"media", "text">> \/ m = <<"text">> =>
                     Len(m) \in {1, 2} /\ DOMAIN m = 1 .. Len(m)
        OBVIOUS
    <2> QED
        BY <2>1, <2>2
<1>2. Len(Modalities(p)) \in Int /\ 1 \in Int
    BY <1>1
<1>3. IsFiniteSet(1 .. Len(Modalities(p)))
    BY <1>2, FS_Interval
<1> QED
    BY <1>1, <1>3

\* The first token of the prompt, in layer l.
FirstKey(p, l) == <<Event(p, 1, l), l>>

LEMMA FirstKeyRead ==
    ASSUME NEW p, NEW l \in Layers
    PROVE  /\ Position(p, FirstKey(p, l)) = 1 /\ FirstKey(p, l)[2] = l
           /\ \A g : g.whole \/ l = 1 => FirstKey(p, l) \in KeysOf(p, g)
<1> DEFINE len == Len(Modalities(p))
<1>1. l \in Nat /\ l >= 1 /\ 1 \in Layers
    BY ScreenAssumption DEF Layers
<1>2. Event(p, 1, l) - 1 = (l - 1) * len /\ Event(p, 1, l) \in Int
    <2>1. len \in Int
        BY ModalitiesAre
    <2>2. (l - 1) * len \in Int
        BY <1>1, <2>1
    <2> HIDE DEF len
    <2>3. Event(p, 1, l) = (l - 1) * len + 1
        BY DEF Event, len
    <2> QED
        BY <2>2, <2>3
<1>3. ((l - 1) * len) % len = 0
    <2>1. CASE len = 1
        BY <1>1, <2>1
    <2>2. CASE len = 2
        BY <1>1, <2>2
    <2> QED
        BY <2>1, <2>2, ModalitiesAre
<1>4. Position(p, FirstKey(p, l)) = 1
    BY <1>2, <1>3 DEF Position, FirstKey
<1>5. FirstKey(p, l)[2] = l
    BY DEF FirstKey
<1>6. ASSUME NEW g, g.whole \/ l = 1  PROVE FirstKey(p, l) \in KeysOf(p, g)
    BY <1>1, <1>6, ModalitiesAre DEF KeysOf, FirstKey
<1> QED
    BY <1>4, <1>5, <1>6

LEMMA KeysFinite ==
    ASSUME NEW p, NEW g
    PROVE  IsFiniteSet(KeysOf(p, g))
<1> DEFINE ls == IF g.whole THEN Layers ELSE {1}
           ns == DOMAIN Modalities(p)
           f == [x \in ns \X ls |-> <<Event(p, x[1], x[2]), x[2]>>]
<1>1. IsFiniteSet(Layers)
    <2>1. 1 \in Int /\ LastLayer \in Int
        BY ScreenAssumption
    <2>2. IsFiniteSet(1 .. LastLayer)
        BY <2>1, FS_Interval
    <2> QED
        BY <2>2 DEF Layers
<1>2. IsFiniteSet(ls)
    BY <1>1, FS_Singleton
<1>3. KeysOf(p, g) = {<<Event(p, n, l), l>> : n \in ns, l \in ls}
    BY DEF KeysOf
<1>4. IsFiniteSet(ns)
    BY ModalitiesAre
<1> HIDE DEF ns, ls
<1>5. f \in Surjection(ns \X ls, KeysOf(p, g))
    <2>1. \A x \in ns \X ls : f[x] \in KeysOf(p, g)
        BY <1>3
    <2>2. ASSUME NEW k \in KeysOf(p, g)  PROVE \E x \in ns \X ls : f[x] = k
        <3>1. PICK n \in ns, l \in ls : k = <<Event(p, n, l), l>>
            BY <1>3
        <3>2. <<n, l>> \in ns \X ls /\ f[<<n, l>>] = k
            BY <3>1
        <3> QED
            BY <3>2
    <2> QED
        BY <2>1, <2>2 DEF Surjection
<1>6. IsFiniteSet(ns \X ls)
    BY <1>2, <1>4, FS_Product
<1> HIDE DEF f
<1> QED
    BY <1>5, <1>6, FS_Surjection

LEMMA ReadFinite ==
    ASSUME NEW p, NEW file \in Seq(Generations)
    PROVE  /\ IsFiniteSet(DOMAIN file)
           /\ DOMAIN ReadTrace(p, file) = UNION {KeysOf(p, file[g]) : g \in DOMAIN file}
           /\ IsFiniteSet(DOMAIN ReadTrace(p, file))
           /\ \A k \in DOMAIN ReadTrace(p, file), e \in Experts :
                  ReadTrace(p, file)[k][e] \in Nat
<1> DEFINE keys == [g \in DOMAIN file |-> KeysOf(p, file[g])]
           all == {keys[g] : g \in DOMAIN file}
<1>1. IsFiniteSet(DOMAIN file)
    <2>1. DOMAIN file = 1 .. Len(file) /\ 1 \in Int /\ Len(file) \in Int
        OBVIOUS
    <2> QED
        BY <2>1, FS_Interval
<1>2. keys \in Surjection(DOMAIN file, all)
    BY DEF Surjection
<1>3. IsFiniteSet(all)
    <2> HIDE DEF keys, all
    <2> QED
        BY <1>1, <1>2, FS_Surjection
<1>4. \A T \in all : IsFiniteSet(T)
    BY KeysFinite
<1>5. IsFiniteSet(UNION all)
    <2> HIDE DEF all
    <2> QED
        BY <1>3, <1>4, FS_UNION
<1>6. UNION all = UNION {KeysOf(p, file[g]) : g \in DOMAIN file}
    OBVIOUS
<1>7. DOMAIN ReadTrace(p, file) = UNION {KeysOf(p, file[g]) : g \in DOMAIN file}
    BY DEF ReadTrace
<1>8. ASSUME NEW k \in DOMAIN ReadTrace(p, file), NEW e \in Experts
      PROVE  ReadTrace(p, file)[k][e] \in Nat
    <2> DEFINE G == {g \in DOMAIN file :
                        /\ k \in KeysOf(p, file[g])
                        /\ e \in Routed(p, Position(p, k), file[g].mask, k[2])}
    <2>1. ReadTrace(p, file)[k][e] = Cardinality(G)
        BY <1>7 DEF ReadTrace
    <2>2. G \in SUBSET DOMAIN file
        OBVIOUS
    <2> HIDE DEF G
    <2> QED
        BY <1>1, <2>1, <2>2, FS_Subset, FS_CardinalityType
<1> QED
    BY <1>1, <1>5, <1>6, <1>7, <1>8

\* The counts of a comparison are natural numbers.
LEMMA EvidenceTyped ==
    ASSUME NEW p, NEW base, IsFiniteSet(DOMAIN base),
           \A k \in DOMAIN base, e \in Experts : base[k][e] \in Nat
    PROVE  /\ \A variant : Substitutions(base, variant) \in Nat
           /\ \A mask, modality : Hits(p, base, mask, modality) \in Nat
<1>1. ASSUME NEW variant  PROVE Substitutions(base, variant) \in Nat
    <2> DEFINE gone(k) == {e \in Experts : base[k][e] > 0 /\ variant[k][e] = 0}
               f == [k \in DOMAIN base |-> Cardinality(gone(k))]
    <2>1. ASSUME NEW k \in DOMAIN base  PROVE f[k] \in Nat
        <3>1. gone(k) \in SUBSET Experts
            OBVIOUS
        <3>2. f[k] = Cardinality(gone(k))
            OBVIOUS
        <3> HIDE DEF gone, f
        <3> QED
            BY <3>1, <3>2, ScreenAssumption, FS_Subset, FS_CardinalityType
    <2>2. DOMAIN f = DOMAIN base
        OBVIOUS
    <2>3. Substitutions(base, variant) = Total(f)
        BY DEF Substitutions
    <2> HIDE DEF f
    <2> QED
        BY <2>1, <2>2, <2>3, TotalType
<1>2. ASSUME NEW mask, NEW modality  PROVE Hits(p, base, mask, modality) \in Nat
    <2> DEFINE K == {k \in DOMAIN base : Modalities(p)[Position(p, k)] = modality}
               inner(k) == [e \in {e \in Experts : <<k[2], e>> \in mask} |-> base[k][e]]
               f == [k \in K |-> Total(inner(k))]
    <2>1. ASSUME NEW k \in K  PROVE f[k] \in Nat
        <3>1. /\ DOMAIN inner(k) \in SUBSET Experts
              /\ \A e \in DOMAIN inner(k) : inner(k)[e] \in Nat
            OBVIOUS
        <3>2. f[k] = Total(inner(k))
            OBVIOUS
        <3> HIDE DEF inner, f
        <3>3. IsFiniteSet(DOMAIN inner(k))
            BY <3>1, ScreenAssumption, FS_Subset
        <3> QED
            BY <3>1, <3>2, <3>3, TotalType
    <2>2. DOMAIN f = K /\ K \in SUBSET DOMAIN base
        OBVIOUS
    <2>3. Hits(p, base, mask, modality) = Total(f)
        BY DEF Hits
    <2>4. IsFiniteSet(K)
        <3> HIDE DEF K
        <3> QED
            BY <2>2, FS_Subset
    <2> HIDE DEF f, K
    <2> QED
        BY <2>1, <2>2, <2>3, <2>4, TotalType
<1> QED
    BY <1>1, <1>2

LEMMA CleanTyped ==
    ASSUME NEW p, NEW mask
    PROVE  /\ CleanEvidence(p, mask).substitutions \in Nat
           /\ CleanEvidence(p, mask).media \in Nat
           /\ CleanEvidence(p, mask).text \in Nat
<1> DEFINE base == ReadTrace(p, <<Generation({}, TRUE)>>)
<1>1. <<Generation({}, TRUE)>> \in Seq(Generations)
    BY DEF Generation, Generations, Masks
<1>2. /\ IsFiniteSet(DOMAIN base)
      /\ \A k \in DOMAIN base, e \in Experts : base[k][e] \in Nat
    BY <1>1, ReadFinite
<1> HIDE DEF base
<1>3. /\ \A variant : Substitutions(base, variant) \in Nat
      /\ \A modality : Hits(p, base, mask, modality) \in Nat
    BY <1>2, EvidenceTyped
<1> QED
    BY <1>3 DEF CleanEvidence, base

\* A file of generations without a mask in which no expert occurs twice is of one.
LEMMA SingleGeneration ==
    ASSUME Typed, NEW p \in Prompts, NEW file \in Seq(Generations),
           \A g \in DOMAIN file : file[g].mask = {},
           \A k \in DOMAIN ReadTrace(p, file), e \in Experts : ReadTrace(p, file)[k][e] <= 1
    PROVE  Len(file) <= 1
<1>1. 1 \in Layers
    BY ScreenAssumption DEF Layers
<1> DEFINE k == FirstKey(p, 1)
<1>2. PICK e \in Experts : e \in Routed(p, 1, {}, 1)
    BY RoutedAlways
<1> DEFINE G == {g \in DOMAIN file : /\ k \in KeysOf(p, file[g])
                                     /\ e \in Routed(p, Position(p, k), file[g].mask, k[2])}
<1>3. G = DOMAIN file
    BY <1>1, <1>2, FirstKeyRead
<1> SUFFICES ASSUME Len(file) > 1  PROVE FALSE
    OBVIOUS
<1>4. k \in DOMAIN ReadTrace(p, file)
    <2>1. 1 \in DOMAIN file /\ k \in KeysOf(p, file[1])
        BY <1>1, FirstKeyRead
    <2> HIDE DEF k
    <2>2. k \in UNION {KeysOf(p, file[g]) : g \in DOMAIN file}
        BY <2>1
    <2> QED
        BY <2>2, ReadFinite
<1>5. ReadTrace(p, file)[k][e] = Cardinality(G)
    BY <1>4 DEF ReadTrace
<1>6. Cardinality(G) = Len(file)
    <2>1. DOMAIN file = 1 .. Len(file) /\ 1 \in Int /\ Len(file) \in Int
        OBVIOUS
    <2>2. Cardinality(1 .. Len(file)) = IF 1 > Len(file) THEN 0 ELSE Len(file) - 1 + 1
        BY <2>1, FS_Interval
    <2>3. Cardinality(DOMAIN file) = Len(file)
        BY <2>1, <2>2
    <2> HIDE DEF G
    <2> QED
        BY <1>3, <2>3
<1> HIDE DEF G, k
<1> QED
    BY <1>4, <1>5, <1>6 DEF k

----------------------------------------------------------------------------
(* Comparisons and the summary. *)

\* A row is added, and the loops go on.
LEMMA NextRow ==
    ASSUME ScreenInv, pc = "compare", NEW e, Row(e, Items(tool)[i], cands[c]),
           rows' = Put(rows, <<i, c>>, e), NextAfterCompare,
           UNCHANGED <<choice, tool, env, cands, got, traces, masks, summary, runs>>
    PROVE  ScreenInv'
<1>1. Course /\ Screening /\ Screening'
    BY DEF ScreenInv, Screening, NextAfterCompare
<1>2. /\ Items(tool)' = Items(tool) /\ Traced(tool)' = Traced(tool)
      /\ Candidates(cands)' <=> Candidates(cands)
    BY DEF Items, Traced, Candidates, Accepts
<1>3. /\ i \in 1 .. Len(Items(tool)) /\ c \in 1 .. Len(cands) /\ Candidates(cands)
      /\ Len(Items(tool)) \in Nat \ {0} /\ Len(cands) \in Nat \ {0}
    <2>1. /\ i \in 1 .. Len(Items(tool)) /\ c \in 1 .. Len(cands) /\ Candidates(cands)
        BY <1>1 DEF Course, Placed
    <2>2. Len(cands) \in Nat
        BY <2>1 DEF Candidates
    <2> QED
        BY <1>1, <2>1, <2>2, ItemsTyped DEF Course
<1>4. \/ c < Len(cands) /\ c' = c + 1 /\ pc' = "candidate" /\ i' = i
      \/ c = Len(cands) /\ i < Len(Items(tool)) /\ i' = i + 1 /\ c' = 1 /\ pc' = "base"
      \/ c = Len(cands) /\ i = Len(Items(tool)) /\ pc' = "summarize" /\ i' = i /\ c' = c
    BY DEF NextAfterCompare
<1>5. Typed'
    BY <1>1, <1>3, <1>4 DEF Course, Typed
<1>6. Placed'
    <2>1. i' \in 1 .. Len(Items(tool)) /\ c' \in 1 .. Len(cands)
        BY <1>3, <1>4
    <2>2. pc' = "base" => c' = 1
        BY <1>4
    <2>3. pc' = "summarize" => i' = Len(Items(tool)) /\ c' = Len(cands)
        BY <1>4
    <2>4. pc' \in {"candidate", "base", "summarize"}
        BY <1>4
    <2> QED
        BY <1>2, <1>3, <2>1, <2>2, <2>3, <2>4 DEF Placed
<1>7. Collected'
    <2>1. ASSUME NEW n \in 1 .. Len(Items(tool)), NEW j \in 1 .. Len(cands)
          PROVE  Compared(n, j)' <=> Compared(n, j) \/ (n = i /\ j = c)
        BY <1>3, <1>4 DEF Compared
    <2>2. DOMAIN rows = {x \in (1 .. Len(Items(tool))) \X (1 .. Len(cands)) :
                             Compared(x[1], x[2])}
        BY <1>1 DEF Course, Collected
    <2>3. DOMAIN rows' = DOMAIN rows \cup {<<i, c>>}
        BY DEF Put
    <2>4. DOMAIN rows' = {x \in (1 .. Len(Items(tool))) \X (1 .. Len(cands)) :
                             Compared(x[1], x[2])'}
        <3>1. <<i, c>> \in (1 .. Len(Items(tool))) \X (1 .. Len(cands))
            BY <1>3
        <3>2. PICK I, J, k : I = 1 .. Len(Items(tool)) /\ J = 1 .. Len(cands) /\ k = <<i, c>>
            OBVIOUS
        <3>3. \A x \in I \X J : Compared(x[1], x[2])' <=> Compared(x[1], x[2]) \/ x = k
            BY <2>1, <3>2
        <3> QED
            BY <2>2, <2>3, <3>1, <3>2, <3>3
    <2>5. ASSUME NEW x \in DOMAIN rows'
          PROVE  Row(rows'[x], Items(tool)[x[1]], cands[x[2]])
        <3>1. CASE x = <<i, c>>
            BY <3>1 DEF Put
        <3>2. CASE x # <<i, c>>
            BY <1>1, <2>3, <3>2 DEF Put, Course, Collected
        <3> QED
            BY <3>1, <3>2
    <2>6. \A r, p, mask : Row(r, p, mask)' = Row(r, p, mask)
        BY RowFrame
    <2>7. (\A x \in DOMAIN rows : Row(rows[x], Items(tool)[x[1]], cands[x[2]]))'
        <3>1. PICK new, its, list : new = rows' /\ its = Items(tool)' /\ list = cands'
            OBVIOUS
        <3>2. \A x \in DOMAIN new : Row(new[x], its[x[1]], list[x[2]])'
            BY <1>2, <2>5, <2>6, <3>1
        <3> QED
            BY <3>1, <3>2 DEF Row
    <2>8. pc' # "compare"
        BY <1>4
    <2> QED
        BY <1>2, <2>4, <2>7, <2>8 DEF Collected
<1>8. \A p, v : Files(p, v)' = Files(p, v)
    BY FilesFrame
<1>9. FullFirst'
    BY <1>1, <1>8, FullFirstFrame DEF Course
<1>10. Appended'
    <2> SUFFICES ASSUME Traced(tool), pc' = "candidate"  PROVE Appended'
        BY <1>2, <1>4 DEF Appended
    <2>1. i' = i /\ c' = c + 1
        BY <1>4
    <2>2. PICK p : p = Items(tool)[i]
        OBVIOUS
    <2>3. /\ Len(Files(p, Full)) > 0
          /\ Files(p, Full)[Len(Files(p, Full))] = Generation({}, TRUE)
          /\ Len(Files(p, Full)) = 1 => \A v \in Nat : v > c => Files(p, v) = <<>>
        BY <1>1, <2>2 DEF Course, Appended
    <2>4. p = (Items(tool)[i])' /\ Generation({}, TRUE)' = Generation({}, TRUE)
        BY <1>2, <2>1, <2>2 DEF Generation
    <2>5. /\ Len(Files(p, Full)') > 0
          /\ Files(p, Full)'[Len(Files(p, Full)')] = Generation({}, TRUE)
          /\ Len(Files(p, Full)') = 1 => \A v \in Nat : v > c => Files(p, v)' = <<>>
        BY <1>8, <2>3
    <2>6. \A v \in Nat : v > c' \/ v = c' => v > c
        BY <1>3, <2>1
    <2> QED
        BY <2>4, <2>5, <2>6 DEF Appended
<1>11. Calibrated'
    BY <1>4 DEF Calibrated, Done
<1>12. Promises'
    BY PromisesFrame DEF ScreenInv
<1> QED
    BY <1>5, <1>6, <1>7, <1>9, <1>10, <1>11, <1>12 DEF ScreenInv, Course

\* A harmless candidate gives what the full store gave.
LEMMA HarmlessOutcome ==
    ASSUME Course, pc = "compare", Harmless(Items(tool)[i], cands[c])
    PROVE  got.exact /\ got.near
<1>1. PICK p \in Prompts : p = Items(tool)[i]
    <2>1. i \in 1 .. Len(Items(tool)) /\ Items(tool) \in Seq(Prompts)
        BY ItemsTyped DEF Course, Placed, Screening
    <2> QED
        BY <2>1
<1>2. got \in Outcomes(p, cands[c])
    BY <1>1 DEF Course, Collected, Screening
<1>3. \A n \in DOMAIN Modalities(p), l \in Layers :
          Routed(p, n, cands[c], l) = Routed(p, n, BaseMask, l)
    BY <1>1, HarmlessRoutes DEF Course, BaseMask
<1> QED
    BY <1>2, <1>3 DEF Outcomes

LEMMA CompareTokensInv == ASSUME ScreenInv, CompareTokens  PROVE ScreenInv'
<1>1. Course /\ pc = "compare" /\ ~Traced(tool)
    BY DEF ScreenInv, CompareTokens
<1>2. PICK e : e = TokensOnly
    OBVIOUS
<1>3. Row(e, Items(tool)[i], cands[c])
    BY <1>1, <1>2, HarmlessOutcome DEF Row, TokensOnly
<1>4. /\ rows' = Put(rows, <<i, c>>, e) /\ NextAfterCompare
      /\ UNCHANGED <<choice, tool, env, cands, got, traces, masks, summary, runs>>
    BY <1>2 DEF CompareTokens
<1> QED
    BY <1>1, <1>3, <1>4, NextRow

\* Files that can be compared hold one generation each, those of this run.
LEMMA ComparedFiles ==
    ASSUME Course, pc = "compare", Traced(tool), NEW p, p = Items(tool)[i], NEW variant,
           Comparable(ReadTrace(p, Files(p, Full)), variant)
    PROVE  /\ Files(p, Full) = <<Generation({}, TRUE)>>
           /\ Files(p, c) = <<Generation(cands[c], TRUE)>>
<1>1. p \in Prompts
    <2>1. i \in 1 .. Len(Items(tool)) /\ Items(tool) \in Seq(Prompts)
        BY ItemsTyped DEF Course, Placed, Screening
    <2> QED
        BY <2>1
<1>2. PICK file : file = Files(p, Full)
    OBVIOUS
<1>3. file \in Seq(Generations) /\ Len(file) \in Nat
    BY <1>2, FilesTyped DEF Course
<1>4. \A g \in DOMAIN file : file[g].mask = {}
    BY <1>2 DEF Course, FullFirst
<1>5. \A k \in DOMAIN ReadTrace(p, file), e \in Experts : ReadTrace(p, file)[k][e] <= 1
    BY <1>2 DEF Comparable
<1>6. Len(file) <= 1
    BY <1>1, <1>3, <1>4, <1>5, SingleGeneration DEF Course
<1>7. Len(file) > 0 /\ file[Len(file)] = Generation({}, TRUE)
    BY <1>2 DEF Course, Appended
<1>8. Len(file) = 1
    <2>1. Len(file) > 0 /\ Len(file) \in Nat
        BY <1>3, <1>7
    <2>2. \A n \in Nat : n <= 1 /\ n > 0 => n = 1
        OBVIOUS
    <2> QED
        BY <1>6, <2>1, <2>2
<1>9. file = <<Generation({}, TRUE)>>
    <2>1. PICK g : g = Generation({}, TRUE)
        OBVIOUS
    <2>2. file[1] = g
        BY <1>7, <1>8, <2>1
    <2>3. \A s \in Seq(Generations) : Len(s) = 1 => s = <<s[1]>>
        OBVIOUS
    <2>4. file \in Seq(Generations)
        BY <1>3
    <2>5. file = <<g>>
        BY <1>8, <2>2, <2>3, <2>4
    <2> QED
        BY <2>1, <2>5
<1>10. Files(p, c) = <<Generation(cands[c], TRUE)>>
    BY <1>2, <1>8 DEF Course, Appended
<1> QED
    BY <1>2, <1>9, <1>10

LEMMA CompareInv == ASSUME ScreenInv, Compare  PROVE ScreenInv'
<1>1. Course /\ pc = "compare" /\ Traced(tool)
    BY DEF ScreenInv, Compare
<1>2. PICK p, base, variant, e :
          /\ p = Items(tool)[i]
          /\ base = ReadTrace(p, traces[File(tool, p, Full)])
          /\ variant = ReadTrace(p, traces[File(tool, p, c)])
          /\ e = Evidence(p, cands[c], base, variant)
    OBVIOUS
<1>3. \/ /\ Comparable(base, variant)
         /\ p \in Range(Cases) => e.substitutions >= e.media + e.text
         /\ rows' = Put(rows, <<i, c>>, e) /\ NextAfterCompare
         /\ UNCHANGED <<choice, tool, env, cands, got, traces, masks, summary, runs>>
      \/ Stop /\ UNCHANGED traces
    BY <1>2 DEF Compare
<1>4. CASE /\ Comparable(base, variant)
           /\ p \in Range(Cases) => e.substitutions >= e.media + e.text
           /\ rows' = Put(rows, <<i, c>>, e) /\ NextAfterCompare
           /\ UNCHANGED <<choice, tool, env, cands, got, traces, masks, summary, runs>>
    <2>1. Files(p, Full) # <<>>
        BY <1>1, <1>2, CandidateMask DEF Screening
    <2>2. base = ReadTrace(p, Files(p, Full))
        BY <1>2, <2>1 DEF Files, Contents
    <2>3. /\ Files(p, Full) = <<Generation({}, TRUE)>>
          /\ Files(p, c) = <<Generation(cands[c], TRUE)>>
        BY <1>1, <1>2, <1>4, <2>2, ComparedFiles
    <2>4. variant = ReadTrace(p, Files(p, c))
        <3>1. Files(p, c) # <<>>
            BY <2>3
        <3> QED
            BY <1>2, <3>1 DEF Files, Contents
    <2>5. /\ e.substitutions = CleanEvidence(p, cands[c]).substitutions
          /\ e.media = CleanEvidence(p, cands[c]).media
          /\ e.text = CleanEvidence(p, cands[c]).text
          /\ e.exact = got.exact /\ e.near = got.near
        BY <1>2, <2>2, <2>3, <2>4 DEF CleanEvidence, Evidence
    <2>6. Harmless(p, cands[c]) => got.exact /\ got.near
        BY <1>1, <1>2, HarmlessOutcome
    <2>7. Row(e, Items(tool)[i], cands[c])
        BY <1>2, <1>4, <2>5, <2>6 DEF Row
    <2> QED
        BY <1>1, <1>4, <2>7, NextRow
<1>5. CASE Stop /\ UNCHANGED traces
    <2>1. tool' = tool /\ traces' = traces
        BY <1>5 DEF Stop, Leave
    <2>2. FullFirst'
        BY <1>1, <2>1, FilesFrame, FullFirstFrame DEF Course
    <2> QED
        BY <1>1, <1>5, <2>1, <2>2, StopInv DEF Course, Typed
<1> QED
    BY <1>3, <1>4, <1>5

\* The least number with a property.
LEMMA LeastNumber ==
    ASSUME NEW N \in SUBSET Nat, N # {}
    PROVE  \E m \in N : \A n \in N : m <= n
<1> DEFINE R == OpToRel(<, Nat)
<1>1. IsWellFoundedOn(R, Nat)
    BY NatLessThanWellFounded, Zenon
<1>2. \A x, y \in Nat : <<x, y>> \in R \/ y <= x
    BY DEF OpToRel
<1> HIDE DEF R
<1>3. PICK m \in N : \A n \in N : <<n, m>> \notin R
    BY <1>1, WFMin
<1> QED
    BY <1>2, <1>3

\* A list in which each contains the one before it is nested throughout.
LEMMA NestedThroughout ==
    ASSUME NEW list \in Seq(Masks), Nested(list),
           NEW m \in 1 .. Len(list), NEW j \in 1 .. Len(list), m <= j
    PROVE  list[m] \subseteq list[j]
<1> SUFFICES ASSUME NEW s \in list[m], s \notin list[j]  PROVE FALSE
    OBVIOUS
<1> DEFINE N == {n \in Nat : m <= n /\ n <= Len(list) /\ s \notin list[n]}
<1>1. N \in SUBSET Nat /\ j \in N /\ Len(list) \in Nat
    OBVIOUS
<1> HIDE DEF N
<1>2. PICK n \in N : \A k \in N : n <= k
    BY <1>1, LeastNumber
<1>3. n \in Nat /\ m <= n /\ n <= Len(list) /\ s \notin list[n] /\ n # m
    BY <1>2 DEF N
<1>4. n - 1 \in Nat /\ m <= n - 1 /\ n - 1 \in 1 .. Len(list) - 1
    BY <1>3, <1>1
<1>5. n - 1 \notin N
    BY <1>2, <1>3, <1>4
<1>6. s \in list[n - 1]
    BY <1>1, <1>3, <1>4, <1>5 DEF N
<1>7. list[n - 1] \subseteq list[(n - 1) + 1] /\ (n - 1) + 1 = n
    BY <1>3, <1>4 DEF Nested
<1> QED
    BY <1>3, <1>6, <1>7

\* A direct hit is a substitution: what is left of the substitutions are cascades.
LEMMA CascadesCounted ==
    ASSUME Course, pc = "summarize", Traced(tool), NEW j \in 1 .. Len(cands)
    PROVE  AggregateVL(j).cascade >= 0
<1> DEFINE its == Items(tool)
           D == [n \in CaseItems |-> rows[<<n, j>>].media + rows[<<n, j>>].text]
           S == [n \in CaseItems |-> rows[<<n, j>>].substitutions]
<1>1. its \in Seq(Prompts) /\ DOMAIN its = 1 .. Len(its) /\ Len(its) \in Nat
    BY ItemsTyped DEF Course
<1>2. i = Len(its) /\ c = Len(cands) /\ Len(cands) \in Nat
    BY DEF Course, Placed, Screening, Candidates
<1>3. ASSUME NEW n \in 1 .. Len(its)  PROVE <<n, j>> \in DOMAIN rows
    BY <1>1, <1>2 DEF Course, Collected, Screening, Compared
<1>4. ASSUME NEW n \in CaseItems
      PROVE  D[n] \in Nat /\ S[n] \in Nat /\ D[n] <= S[n]
    <2>1. n \in 1 .. Len(its) /\ its[n] \in Range(Cases)
        BY <1>1 DEF CaseItems
    <2>2. PICK r, mask, p : r = rows[<<n, j>>] /\ mask = cands[j] /\ p = its[n]
        OBVIOUS
    <2>3. Row(r, p, mask)
        BY <1>3, <2>1, <2>2 DEF Course, Collected, Screening
    <2>4. /\ r.substitutions \in Nat /\ r.media \in Nat /\ r.text \in Nat
          /\ r.substitutions >= r.media + r.text
        BY <2>1, <2>2, <2>3, CleanTyped DEF Row
    <2>5. D[n] = r.media + r.text /\ S[n] = r.substitutions
        BY <2>2
    <2> HIDE DEF D, S
    <2> QED
        BY <2>4, <2>5
<1>5. DOMAIN D = CaseItems /\ DOMAIN S = CaseItems
    OBVIOUS
<1>6. IsFiniteSet(CaseItems)
    <2>1. 1 \in Int /\ Len(its) \in Int
        BY <1>1
    <2>2. IsFiniteSet(1 .. Len(its))
        BY <2>1, FS_Interval
    <2>3. CaseItems \in SUBSET (1 .. Len(its))
        BY <1>1 DEF CaseItems
    <2> QED
        BY <2>2, <2>3, FS_Subset
<1>7. AggregateVL(j).cascade = Total(S) - Total(D)
    BY DEF AggregateVL
<1> HIDE DEF D, S
<1>8. Total(D) \in Nat /\ Total(S) \in Nat /\ Total(D) <= Total(S)
    BY <1>4, <1>5, <1>6, TotalType, TotalMonotone
<1> QED
    BY <1>7, <1>8

\* What is selected passes, and no candidate that passes disables more.
LEMMA SelectsStrongest ==
    ASSUME Course, pc = "summarize", NEW j \in Selects, NEW m \in Passing
    PROVE  /\ Cardinality(cands[m]) <= Cardinality(cands[j])
           /\ tool # "phase_a" => cands[m] \subseteq cands[j]
<1>1. /\ cands \in Seq(Masks) /\ \A k \in DOMAIN cands : IsFiniteSet(cands[k])
      /\ tool # "phase_a" => Accepts(tool, cands)
    BY DEF Course, Placed, Screening, Candidates
<1>2. /\ m \in 1 .. Len(cands) /\ DOMAIN cands = 1 .. Len(cands) /\ Len(cands) \in Nat
      /\ IsFiniteSet(cands[m])
    BY <1>1 DEF Passing
<1>3. CASE tool = "phase_a"
    BY <1>3 DEF Selects, GateSelects
<1>4. CASE tool = "multi"
    <2>1. j \in 1 .. Len(cands) /\ m <= j /\ Nested(cands) /\ IsFiniteSet(cands[j])
        BY <1>1, <1>2, <1>4 DEF Selects, MultiSelects, Passing, Accepts, CandidateSpecs
    <2>2. cands[m] \subseteq cands[j]
        BY <1>1, <1>2, <2>1, NestedThroughout
    <2> QED
        BY <2>1, <2>2, FS_Subset
<1>5. CASE tool = "sentinel"
    <2>1. /\ j \in 1 .. Len(cands) /\ Nested(cands) /\ IsFiniteSet(cands[j])
          /\ Cardinality(cands[m]) <= Cardinality(cands[j])
        BY <1>1, <1>2, <1>5
        DEF Selects, SelectStrongest, Passing, Accepts, ValidateCandidates, CandidateSpecs
    <2>2. CASE m <= j
        BY <1>1, <1>2, <2>1, <2>2, NestedThroughout
    <2>3. CASE j <= m
        <3>1. cands[j] \subseteq cands[m]
            BY <1>1, <1>2, <2>1, <2>3, NestedThroughout
        <3>2. Cardinality(cands[j]) <= Cardinality(cands[m])
            BY <1>2, <3>1, FS_Subset
        <3>3. Cardinality(cands[j]) \in Nat /\ Cardinality(cands[m]) \in Nat
            BY <1>2, <2>1, FS_CardinalityType
        <3>4. Cardinality(cands[j]) = Cardinality(cands[m])
            BY <2>1, <3>2, <3>3
        <3>5. cands[j] = cands[m]
            BY <1>2, <3>1, <3>4, FS_Subset
        <3> QED
            BY <2>1, <3>5
    <2> QED
        BY <1>2, <2>1, <2>2, <2>3
<1> QED
    BY <1>3, <1>4, <1>5 DEF Selects

\* A candidate that is harmless for every item passes.
LEMMA HarmlessCandidate ==
    ASSUME Course, pc = "summarize", NEW j \in DOMAIN cands,
           \A n \in DOMAIN Items(tool) : Harmless(Items(tool)[n], cands[j])
    PROVE  j \in Passing
<1>1. /\ i = Len(Items(tool)) /\ c = Len(cands) /\ cands \in Seq(Masks)
      /\ Items(tool) \in Seq(Prompts)
    BY ItemsTyped DEF Course, Placed, Screening, Candidates
<1>2. ASSUME NEW n \in DOMAIN Items(tool)
      PROVE  rows[<<n, j>>].exact /\ rows[<<n, j>>].near
    <2>1. /\ n \in 1 .. Len(Items(tool)) /\ Len(Items(tool)) \in Nat
          /\ j \in 1 .. Len(cands) /\ Len(cands) \in Nat
        BY <1>1
    <2>2. Compared(n, j)
        BY <1>1, <2>1 DEF Compared
    <2>3. PICK x : x = <<n, j>>
        OBVIOUS
    <2>4. x \in DOMAIN rows /\ x[1] = n /\ x[2] = j
        BY <2>1, <2>2, <2>3 DEF Course, Collected, Screening
    <2>5. Row(rows[x], Items(tool)[n], cands[j])
        BY <2>4 DEF Course, Collected, Screening
    <2> QED
        BY <1>2, <2>3, <2>5 DEF Row
<1> QED
    BY <1>2 DEF Passing, Passes

LEMMA SummarizeInv == ASSUME ScreenInv, Summarize  PROVE ScreenInv'
<1>1. /\ Course /\ pc = "summarize" /\ Leave /\ choice' = choice /\ tool' = tool
      /\ traces' = traces /\ masks' = masks
    BY DEF ScreenInv, Summarize, Leave
<1>2. PICK list, its, new, pass, sel, tot :
          /\ list = cands /\ its = Items(tool) /\ new = rows /\ pass = Passing /\ sel = Selects
          /\ tot = IF Traced(tool) THEN [j \in DOMAIN cands |-> AggregateVL(j)] ELSE None
    OBVIOUS
<1>3. /\ summary'.cands = list /\ summary'.rows = new /\ summary'.passing = pass
      /\ summary'.selects = sel /\ summary'.totals = tot
    BY <1>2 DEF Summarize
<1>4. Items(tool)' = its /\ Traced(tool)' = Traced(tool)
    BY <1>1, <1>2 DEF Items, Traced
<1>5. DOMAIN rows = {x \in (1 .. Len(Items(tool))) \X (1 .. Len(cands)) : Compared(x[1], x[2])}
    BY <1>1 DEF Course, Collected, Screening
<1>6. Course'
    <2>1. FullFirst'
        BY <1>1, FilesFrame, FullFirstFrame DEF Course
    <2> QED
        BY <1>1, <2>1, LeaveCourse DEF Course, Typed
<1>7. EvidenceOfThisRun'
    <2> SUFFICES ASSUME Traced(tool), NEW x \in DOMAIN new
                 PROVE  /\ new[x].substitutions = CleanEvidence(its[x[1]], list[x[2]]).substitutions
                        /\ new[x].media = CleanEvidence(its[x[1]], list[x[2]]).media
                        /\ new[x].text = CleanEvidence(its[x[1]], list[x[2]]).text
                        /\ tot[x[2]].cascade >= 0
        BY <1>1, <1>3, <1>4, EvidenceFrame DEF EvidenceOfThisRun
    <2>1. Row(new[x], its[x[1]], list[x[2]])
        BY <1>1, <1>2 DEF Course, Collected, Screening
    <2>2. x[2] \in 1 .. Len(cands) /\ DOMAIN cands = 1 .. Len(cands)
        <3>1. cands \in Seq(Masks)
            BY <1>1 DEF Course, Placed, Screening, Candidates
        <3> QED
            BY <1>2, <1>5, <3>1
    <2>3. tot[x[2]].cascade >= 0
        BY <1>1, <1>2, <2>2, CascadesCounted
    <2> QED
        BY <2>1, <2>3 DEF Row
<1>8. StrongestSelected'
    <2>1. ASSUME NEW j \in sel, NEW m \in pass
          PROVE  /\ Cardinality(list[m]) <= Cardinality(list[j])
                 /\ tool # "phase_a" => list[m] \subseteq list[j]
        BY <1>1, <1>2, SelectsStrongest
    <2> QED
        BY <1>1, <1>3, <2>1 DEF StrongestSelected
<1>9. HarmlessPasses'
    <2>1. ASSUME NEW j \in DOMAIN list, \A n \in DOMAIN its : Harmless(its[n], list[j])
          PROVE  j \in pass
        BY <1>1, <1>2, <2>1, HarmlessCandidate
    <2>2. \A p, n, mask, l : Routed(p, n, mask, l)' = Routed(p, n, mask, l)
        BY <1>1, ModelFrame
    <2> QED
        BY <1>3, <1>4, <2>1, <2>2 DEF HarmlessPasses, Harmless
<1>10. MasksFollowCalibration'
    BY <1>1 DEF ScreenInv, Promises, MasksFollowCalibration
<1> QED
    BY <1>6, <1>7, <1>8, <1>9, <1>10 DEF ScreenInv, Promises

----------------------------------------------------------------------------
(* The analysis of the calibration. *)

LEMMA CalibrationTyped ==
    /\ Calibration \in Seq(Prompts) /\ DOMAIN Calibration = 1 .. Len(Calibration)
    /\ Len(Calibration) \in Nat \ {0} /\ Calibration[1] \in Range(Calibration)
    /\ IsFiniteSet(Range(Calibration)) /\ Range(Calibration) \subseteq Prompts
    /\ \A p \in Range(Calibration) : \E j \in 1 .. Len(Calibration) : Calibration[j] = p
<1>1. /\ Calibration \in Seq(Prompts) /\ DOMAIN Calibration = 1 .. Len(Calibration)
      /\ Len(Calibration) \in Nat \ {0}
    BY ScreenAssumption
<1>2. Range(Calibration) = {Calibration[j] : j \in DOMAIN Calibration}
    BY DEF Range
<1>3. IsFiniteSet(DOMAIN Calibration)
    <2>1. 1 \in Int /\ Len(Calibration) \in Int
        BY <1>1
    <2> QED
        BY <1>1, <2>1, FS_Interval
<1>4. Calibration \in Surjection(DOMAIN Calibration, Range(Calibration))
    <2>1. Calibration = [j \in DOMAIN Calibration |-> Calibration[j]]
        BY <1>1
    <2> QED
        BY <1>2, <2>1 DEF Surjection
<1>5. IsFiniteSet(Range(Calibration))
    BY <1>3, <1>4, FS_Surjection
<1> QED
    BY <1>1, <1>2, <1>5 DEF Prompts

\* When the calibration is analyzed, each of its prompts has left a file with a generation.
LEMMA CalibrationFiles ==
    ASSUME Course, pc = "analyze", NEW p \in Range(Calibration)
    PROVE  /\ traces[<<"calibration", p>>] \in Seq(Generations)
           /\ Serves(env)
           /\ \E g \in DOMAIN traces[<<"calibration", p>>] :
                  traces[<<"calibration", p>>][g] = Generation(env, TRUE)
<1>1. PICK j \in 1 .. Len(Calibration) : Calibration[j] = p
    BY CalibrationTyped
<1>2. PICK f : f = <<"calibration", p>>
    OBVIOUS
<1>3. Serves(env) /\ \E g \in DOMAIN Contents(f) : Contents(f)[g] = Generation(env, TRUE)
    BY <1>1, <1>2 DEF Course, Calibrated, Done
<1>4. f \in DOMAIN traces
    BY <1>3 DEF Contents
<1> QED
    BY <1>2, <1>3, <1>4 DEF Contents, Course, Typed

LEMMA CountsTyped ==
    ASSUME Course, pc = "analyze", NEW p \in Range(Calibration), NEW s \in Slots
    PROVE  /\ Counts(p)[s] \in Nat
           /\ s[2] \in Routed(p, 1, env, s[1]) => Counts(p)[s] # 0
<1>1. PICK file : file = traces[<<"calibration", p>>]
    OBVIOUS
<1>2. file \in Seq(Generations)
    BY <1>1, CalibrationFiles
<1> DEFINE read == ReadTrace(p, file)
           K == {k \in DOMAIN read : k[2] = s[1]}
           f == [k \in K |-> read[k][s[2]]]
<1>3. s[1] \in Layers /\ s[2] \in Experts
    BY DEF Slots
<1>4. /\ IsFiniteSet(DOMAIN read)
      /\ \A k \in DOMAIN read, e \in Experts : read[k][e] \in Nat
    BY <1>2, ReadFinite
<1>5. Counts(p)[s] = Total(f)
    BY <1>1 DEF Counts
<1>6. IsFiniteSet(DOMAIN f) /\ \A k \in DOMAIN f : f[k] \in Nat
    <2>1. K \in SUBSET DOMAIN read /\ DOMAIN f = K
        OBVIOUS
    <2>2. \A k \in K : f[k] = read[k][s[2]]
        OBVIOUS
    <2> HIDE DEF K, f, read
    <2>3. IsFiniteSet(K)
        BY <1>4, <2>1, FS_Subset
    <2> QED
        BY <1>3, <1>4, <2>1, <2>2, <2>3
<1>7. ASSUME s[2] \in Routed(p, 1, env, s[1])  PROVE \E k \in DOMAIN f : f[k] # 0
    <2>1. PICK g \in DOMAIN file : file[g] = Generation(env, TRUE)
        BY <1>1, CalibrationFiles
    <2>2. PICK k : k = FirstKey(p, s[1])
        OBVIOUS
    <2>3. k \in KeysOf(p, file[g]) /\ Position(p, k) = 1 /\ k[2] = s[1] /\ file[g].mask = env
        BY <1>3, <2>1, <2>2, FirstKeyRead DEF Generation
    <2>4. k \in DOMAIN read
        <3>1. DOMAIN read = UNION {KeysOf(p, file[h]) : h \in DOMAIN file}
            BY <1>2, ReadFinite
        <3> QED
            BY <2>3, <3>1
    <2> DEFINE G == {h \in DOMAIN file :
                        /\ k \in KeysOf(p, file[h])
                        /\ s[2] \in Routed(p, Position(p, k), file[h].mask, k[2])}
    <2>5. read[k][s[2]] = Cardinality(G)
        BY <1>3, <2>4 DEF ReadTrace
    <2>6. g \in G /\ G \in SUBSET DOMAIN file
        BY <1>7, <2>3
    <2>7. IsFiniteSet(DOMAIN file)
        BY <1>2, ReadFinite
    <2>8. Cardinality(G) # 0
        <3> HIDE DEF G
        <3>1. IsFiniteSet(G)
            BY <2>6, <2>7, FS_Subset
        <3> QED
            BY <2>6, <3>1, FS_EmptySet
    <2>9. k \in DOMAIN f /\ f[k] = read[k][s[2]]
        BY <2>3, <2>4
    <2> QED
        BY <2>5, <2>8, <2>9
<1> HIDE DEF f
<1> QED
    BY <1>5, <1>6, <1>7, TotalType

\* What the analysis counts of a slot.
LEMMA StatsTyped ==
    ASSUME Course, pc = "analyze", NEW s \in Slots
    PROVE  /\ PerLayer[s].selected \in Nat /\ PerLayer[s].saliency \in Nat
           /\ \A p \in Range(Calibration) :
                  s[2] \in Routed(p, 1, env, s[1]) => PerLayer[s].selected # 0
<1> DEFINE selected == [p \in Range(Calibration) |-> Counts(p)[s]]
           saliency == [p \in Range(Calibration) |-> Weight[p] * Counts(p)[s]]
<1>1. PerLayer[s].selected = Total(selected) /\ PerLayer[s].saliency = Total(saliency)
    <2> DEFINE counts == [p \in Range(Calibration) |-> Counts(p)]
    <2>1. \A p \in Range(Calibration) : counts[p][s] = Counts(p)[s]
        OBVIOUS
    <2>2. /\ [p \in Range(Calibration) |-> counts[p][s]] = selected
          /\ [p \in Range(Calibration) |-> Weight[p] * counts[p][s]] = saliency
        BY <2>1
    <2>3. /\ PerLayer[s].selected = Total([p \in Range(Calibration) |-> counts[p][s]])
          /\ PerLayer[s].saliency = Total([p \in Range(Calibration) |-> Weight[p] * counts[p][s]])
        BY DEF PerLayer
    <2> QED
        BY <2>2, <2>3
<1>2. ASSUME NEW p \in Range(Calibration)
      PROVE  /\ selected[p] \in Nat /\ saliency[p] \in Nat
             /\ s[2] \in Routed(p, 1, env, s[1]) => selected[p] # 0
    <2>1. PICK n \in Nat : n = Counts(p)[s]
        BY CountsTyped
    <2>2. Weight[p] \in Nat
        BY ScreenAssumption
    <2>3. Weight[p] * n \in Nat
        BY <2>1, <2>2
    <2>4. selected[p] = n /\ saliency[p] = Weight[p] * n
        BY <2>1
    <2> QED
        BY <2>1, <2>3, <2>4, CountsTyped
<1>3. DOMAIN selected = Range(Calibration) /\ DOMAIN saliency = Range(Calibration)
    OBVIOUS
<1> HIDE DEF selected, saliency
<1> QED
    BY <1>1, <1>2, <1>3, CalibrationTyped, TotalType

\* The statistics of an analysis: naturals, for every slot.
Stats(stats) == \A s \in Slots : stats[s].selected \in Nat /\ stats[s].saliency \in Nat

LEMMA RankingOrders ==
    ASSUME NEW stats, Stats(stats), NEW l \in Layers
    PROVE  StrictOrder(Experts, {x \in Experts \X Experts :
                                     Before(x[1], x[2], stats[<<l, x[1]>>], stats[<<l, x[2]>>])})
<1> DEFINE D(e) == stats[<<l, e>>]
           R == {x \in Experts \X Experts : Before(x[1], x[2], D(x[1]), D(x[2]))}
<1>1. \A d, e \in Experts : <<d, e>> \in R <=> Before(d, e, D(d), D(e))
    OBVIOUS
<1>2. \A e \in Experts : e \in Int /\ D(e).selected \in Int /\ D(e).saliency \in Int
    BY ExpertsAreNumbers DEF Stats, Slots
<1> HIDE DEF D, R
<1>3. StrictOrder(Experts, R)
    BY <1>1, <1>2 DEF StrictOrder, Before
<1> QED
    BY <1>3 DEF R, D

\* A keep mask disables all but as many experts of a layer as it keeps, and more than the
\* masks that keep more.
LEMMA KeepMaskExact ==
    ASSUME NEW stats, Stats(stats), NEW keep \in TopK .. Cardinality(Experts)
    PROVE  /\ \A l \in Layers : Cardinality(Allowed(KeepMask(stats, keep), l)) = keep
           /\ \A more \in TopK .. Cardinality(Experts) :
                  keep <= more => KeepMask(stats, more) \subseteq KeepMask(stats, keep)
<1> DEFINE n == Cardinality(Experts)
           before(l, e) == {d \in Experts : Before(d, e, stats[<<l, d>>], stats[<<l, e>>])}
<1>1. n \in Nat /\ TopK \in Nat /\ keep \in Nat /\ keep <= n /\ n - keep \in Nat
    BY ScreenAssumption, FS_CardinalityType
<1>2. ASSUME NEW more \in TopK .. n
      PROVE  KeepMask(stats, more)
               = {s \in Slots : Cardinality(before(s[1], s[2])) < n - more}
    <2>1. ASSUME NEW s \in Slots
          PROVE  before(s[1], s[2])
                   = {d \in Experts : Before(d, s[2], stats[<<s[1], d>>], stats[s])}
        <3>1. <<s[1], s[2]>> = s
            BY DEF Slots
        <3> QED
            BY <3>1
    <2> HIDE DEF before
    <2> QED
        BY <2>1 DEF KeepMask
<1>3. \A l, e : Cardinality(before(l, e)) \in Nat
    <2> SUFFICES ASSUME NEW l, NEW e  PROVE Cardinality(before(l, e)) \in Nat
        OBVIOUS
    <2>1. before(l, e) \in SUBSET Experts
        OBVIOUS
    <2> HIDE DEF before
    <2> QED
        BY <2>1, ScreenAssumption, FS_Subset, FS_CardinalityType
<1>4. ASSUME NEW l \in Layers
      PROVE  Cardinality(Allowed(KeepMask(stats, keep), l)) = keep
    <2> DEFINE R == {x \in Experts \X Experts :
                        Before(x[1], x[2], stats[<<l, x[1]>>], stats[<<l, x[2]>>])}
               H == First(Experts, R, n - keep)
    <2>1. StrictOrder(Experts, R)
        BY RankingOrders
    <2>2. \A e \in Experts : {d \in Experts : <<d, e>> \in R} = before(l, e)
        OBVIOUS
    <2> HIDE DEF R, before
    <2>3. H \subseteq Experts /\ Cardinality(H) = n - keep
        <3>1. n - keep <= n
            BY <1>1
        <3> QED
            BY <1>1, <2>1, <3>1, ScreenAssumption, FirstExact
    <2>4. \A e \in Experts : <<l, e>> \in KeepMask(stats, keep) <=> e \in H
        <3>1. \A e \in Experts : <<l, e>> \in Slots
            BY DEF Slots
        <3>2. KeepMask(stats, keep) = {s \in Slots : Cardinality(before(s[1], s[2])) < n - keep}
            BY <1>2
        <3>3. \A e \in Experts :
                  <<l, e>> \in KeepMask(stats, keep) <=> Cardinality(before(l, e)) < n - keep
            BY <3>1, <3>2
        <3>4. \A e \in Experts : e \in H <=> Cardinality(before(l, e)) < n - keep
            BY <2>2 DEF First
        <3> QED
            BY <3>3, <3>4
    <2> HIDE DEF H
    <2>5. Allowed(KeepMask(stats, keep), l) = Experts \ H
        BY <2>4 DEF Allowed
    <2>6. Experts \cap H = H
        BY <2>3
    <2>7. Cardinality(Experts \ H) = n - Cardinality(H)
        BY <2>6, ScreenAssumption, FS_Difference
    <2> QED
        BY <1>1, <2>3, <2>5, <2>7
<1>5. ASSUME NEW more \in TopK .. n, keep <= more
      PROVE  KeepMask(stats, more) \subseteq KeepMask(stats, keep)
    <2>1. more \in Nat /\ n - more <= n - keep /\ n - more \in Int
        BY <1>1, <1>5
    <2>2. /\ KeepMask(stats, more) = {s \in Slots : Cardinality(before(s[1], s[2])) < n - more}
          /\ KeepMask(stats, keep) = {s \in Slots : Cardinality(before(s[1], s[2])) < n - keep}
        BY <1>2
    <2> HIDE DEF before, n
    <2>3. \A l, e : Cardinality(before(l, e)) < n - more => Cardinality(before(l, e)) < n - keep
        BY <1>1, <1>3, <2>1
    <2> QED
        BY <2>2, <2>3
<1> QED
    BY <1>4, <1>5

\* The unseen mask has at most as many experts of a layer as its cap, all of them unseen.
LEMMA UnseenCapped ==
    ASSUME NEW stats, Stats(stats), NEW l \in Layers
    PROVE  /\ Cardinality({e \in Experts : <<l, e>> \in UnseenMask(stats, Cap)}) <= Cap
           /\ \A e \in Experts : <<l, e>> \in UnseenMask(stats, Cap) =>
                                     stats[<<l, e>>].selected = 0
<1> DEFINE U == {e \in Experts : stats[<<l, e>>].selected = 0}
           R == {x \in U \X U : x[1] < x[2]}
           H == First(U, R, Cap)
<1>1. U \in SUBSET Experts /\ \A d, e \in U : <<d, e>> \in R <=> d < e
    OBVIOUS
<1>2. IsFiniteSet(U) /\ \A e \in U : e \in Nat
    <2> HIDE DEF U, R
    <2> QED
        BY <1>1, ScreenAssumption, ExpertsAreNumbers, FS_Subset
<1>3. \A e \in Experts : <<l, e>> \in Slots /\ <<l, e>>[1] = l /\ <<l, e>>[2] = e
    BY DEF Slots
<1>4. ASSUME NEW e \in U
      PROVE  {d \in U : <<d, e>> \in R} = {d \in Experts : d < e /\ stats[<<l, d>>].selected = 0}
    OBVIOUS
<1>5. {e \in Experts : <<l, e>> \in UnseenMask(stats, Cap)} = H
    <2>1. \A e \in Experts : <<l, e>> \in UnseenMask(stats, Cap) <=>
              e \in U /\ Cardinality({d \in Experts : d < e /\ stats[<<l, d>>].selected = 0}) < Cap
        BY <1>3 DEF UnseenMask
    <2>2. \A e \in Experts : <<l, e>> \in UnseenMask(stats, Cap) <=> e \in H
        <3> HIDE DEF U, R
        <3> QED
            BY <1>1, <1>4, <2>1 DEF First
    <2>3. H \subseteq Experts
        BY DEF First
    <2> QED
        BY <2>2, <2>3
<1>6. StrictOrder(U, R)
    <2> HIDE DEF U, R
    <2> QED
        BY <1>1, <1>2 DEF StrictOrder
<1>7. Cap \in Nat
    BY ScreenAssumption
<1>8. Cardinality(H) <= Cap
    <2> HIDE DEF U, R
    <2> QED
        BY <1>2, <1>6, <1>7, FirstExact
<1> QED
    BY <1>5, <1>8 DEF UnseenMask

\* What the analysis writes is right about the calibration it comes from.
LEMMA AnalyzeMasks == ASSUME ScreenInv, Analyze  PROVE MasksFollowCalibration'
<1>1. Course /\ Typed /\ pc = "analyze"
    BY DEF ScreenInv, Course, Analyze
<1>2. PICK stats, seen :
          /\ stats = PerLayer
          /\ seen = {s \in Slots : \E p \in Range(Calibration) : s[2] \in Routed(p, 1, env, s[1])}
    OBVIOUS
<1>3. /\ masks'.keep = [j \in DOMAIN Keeps |-> KeepMask(stats, Keeps[j])]
      /\ masks'.unseen = UnseenMask(stats, Cap) /\ masks'.seen = seen
    BY <1>2 DEF Analyze
<1>4. /\ Stats(stats)
      /\ \A s \in seen : stats[s].selected # 0
    BY <1>1, <1>2, StatsTyped DEF Stats
<1>5. \A j \in DOMAIN Keeps : Keeps[j] \in TopK .. Cardinality(Experts)
    <2>1. PICK S : S = TopK .. Cardinality(Experts)
        OBVIOUS
    <2>2. Keeps \in Seq(S)
        BY <2>1, ScreenAssumption
    <2>3. \A j \in DOMAIN Keeps : Keeps[j] \in S
        BY <2>2
    <2> QED
        BY <2>1, <2>3
<1>6. \A j \in DOMAIN Keeps, l \in Layers :
          Cardinality(Allowed(KeepMask(stats, Keeps[j]), l)) = Keeps[j]
    BY <1>4, <1>5, KeepMaskExact
<1>7. \A j, m \in DOMAIN Keeps : Keeps[j] <= Keeps[m] =>
          KeepMask(stats, Keeps[m]) \subseteq KeepMask(stats, Keeps[j])
    BY <1>4, <1>5, KeepMaskExact
<1>8. UnseenMask(stats, Cap) \cap seen = {}
    BY <1>4 DEF UnseenMask
<1>9. \A l \in Layers : Cardinality({e \in Experts : <<l, e>> \in UnseenMask(stats, Cap)}) <= Cap
    BY <1>4, UnseenCapped
<1>10. Serves(UnseenMask(stats, Cap))
    <2> SUFFICES ASSUME NEW l \in Layers
                 PROVE  Cardinality(Allowed(UnseenMask(stats, Cap), l)) >= TopK
        BY DEF Serves
    <2>1. PICK p \in Range(Calibration) : p \in Prompts /\ Serves(env)
        BY <1>1, CalibrationTyped, CalibrationFiles
    <2> DEFINE T == Routed(p, 1, env, l)
               A == Allowed(UnseenMask(stats, Cap), l)
    <2>2. Cardinality(T) = TopK /\ T \subseteq Experts
        BY <1>1, <2>1, RoutedExact, AllowedFinite DEF Serves
    <2>3. ASSUME NEW e \in T  PROVE e \in A
        <3>1. e \in Experts /\ <<l, e>> \in Slots
            BY <2>2, <2>3 DEF Slots
        <3>2. <<l, e>> \in seen
            BY <1>2, <2>1, <3>1
        <3>3. <<l, e>> \notin UnseenMask(stats, Cap)
            BY <1>8, <3>2
        <3> QED
            BY <3>1, <3>3 DEF Allowed
    <2>4. IsFiniteSet(A) /\ Cardinality(A) \in Nat
        BY AllowedFinite
    <2>5. T \in SUBSET A
        BY <2>3
    <2> HIDE DEF T, A
    <2>6. Cardinality(T) <= Cardinality(A)
        BY <2>4, <2>5, FS_Subset
    <2>7. TopK \in Nat
        BY ScreenAssumption
    <2>8. Cardinality(A) >= TopK
        BY <2>2, <2>4, <2>6, <2>7
    <2> QED
        BY <2>8 DEF A
<1> QED
    BY <1>3, <1>6, <1>7, <1>8, <1>9, <1>10 DEF MasksFollowCalibration

LEMMA AnalyzeInv == ASSUME ScreenInv, Analyze  PROVE ScreenInv'
<1>1. choice' = choice /\ tool' = tool /\ summary' = summary
    BY DEF Analyze
<1> QED
    BY <1>1, AnalyzeCourse, AnalyzeMasks, SummaryFrame DEF ScreenInv, Promises

\* A step that changes nothing.
LEMMA StutterInv == ASSUME ScreenInv, UNCHANGED vars  PROVE ScreenInv'
<1>1. /\ choice' = choice /\ tool' = tool /\ pc' = pc /\ i' = i /\ c' = c /\ env' = env
      /\ cands' = cands /\ got' = got /\ rows' = rows /\ traces' = traces /\ masks' = masks
      /\ summary' = summary
    BY DEF vars
<1>2. Course
    BY DEF ScreenInv
<1>3. Screening' = Screening /\ Items(tool)' = Items(tool) /\ Traced(tool)' = Traced(tool)
    BY <1>1 DEF Screening, Items, Traced
<1>4. Typed'
    BY <1>1, <1>2 DEF Course, Typed
<1>5. Candidates(cands)' <=> Candidates(cands)
    BY <1>1 DEF Candidates, Accepts
<1>6. Placed'
    BY <1>1, <1>2, <1>3, <1>5 DEF Course, Placed
<1>7. Collected'
    <2>1. \A n, j : Compared(n, j)' = Compared(n, j)
        BY <1>1 DEF Compared
    <2>2. ASSUME Screening
          PROVE  (\A x \in DOMAIN rows : Row(rows[x], Items(tool)[x[1]], cands[x[2]]))'
        BY <1>1, <1>2, <2>2, RowsFrame
    <2>3. (pc = "compare" => got \in Outcomes(Items(tool)[i], cands[c]))'
              <=> (pc = "compare" => got \in Outcomes(Items(tool)[i], cands[c]))
        <3>1. \A q, mask : Outcomes(q, mask)' = Outcomes(q, mask)
            BY <1>1, EvidenceFrame
        <3>2. Outcomes(Items(tool)[i], cands[c])' = Outcomes(Items(tool)[i], cands[c])
            BY <1>1, <1>3, <3>1 DEF Outcomes
        <3> QED
            BY <1>1, <3>2
    <2> QED
        BY <1>1, <1>2, <1>3, <2>1, <2>2, <2>3 DEF Course, Collected
<1>8. \A p, v : Files(p, v)' = Files(p, v)
    BY <1>1, FilesFrame
<1>9. FullFirst'
    BY <1>1, <1>2, <1>8, FullFirstFrame DEF Course
<1>10. Appended'
    <2> SUFFICES ASSUME Traced(tool), pc \in {"candidate", "compare"}  PROVE Appended'
        BY <1>1, <1>3 DEF Appended
    <2>1. PICK p, k, mask : p = Items(tool)[i] /\ k = c /\ mask = cands[c]
        OBVIOUS
    <2>2. p = (Items(tool)[i])' /\ k = c' /\ mask = (cands[c])'
        BY <1>1, <1>3, <2>1
    <2>3. /\ Len(Files(p, Full)) > 0
          /\ Files(p, Full)[Len(Files(p, Full))] = Generation({}, TRUE)
          /\ Len(Files(p, Full)) = 1 =>
                 \A v \in Nat : v > k \/ (v = k /\ pc = "candidate") => Files(p, v) = <<>>
          /\ Len(Files(p, Full)) = 1 /\ pc = "compare" => Files(p, k) = <<Generation(mask, TRUE)>>
        BY <1>2, <2>1 DEF Course, Appended
    <2>4. /\ Generation({}, TRUE)' = Generation({}, TRUE)
          /\ Generation(cands[c], TRUE)' = Generation(mask, TRUE)
          /\ Files(p, c)' = Files(p, k)'
        BY <2>2 DEF Generation, Files, File
    <2> QED
        BY <1>1, <1>8, <2>2, <2>3, <2>4 DEF Appended
<1>11. Calibrated'
    BY <1>1, <1>2 DEF Course, Calibrated, Done, Contents, Serves, Allowed, Generation
<1>12. Promises'
    BY <1>1, PromisesFrame DEF ScreenInv
<1> QED
    BY <1>4, <1>6, <1>7, <1>9, <1>10, <1>11, <1>12 DEF ScreenInv, Course

----------------------------------------------------------------------------
(* The theorems. *)

\* Whatever tool runs, however often it is killed and started again: its candidates, rows and
\* trace files are as its place in the loops says, and its four promises hold.
THEOREM ScreenInvariant == Spec => []ScreenInv
<1>1. ASSUME ScreenInv, [Next]_vars  PROVE ScreenInv'
    <2>1. CASE StartPhaseA \/ StartScreen
        BY <1>1, <2>1, StartInv
    <2>2. CASE Calibrate
        BY <1>1, <2>2, CalibrateInv
    <2>3. CASE Analyze
        BY <1>1, <2>3, AnalyzeInv
    <2>4. CASE RunBase
        BY <1>1, <2>4, RunBaseInv
    <2>5. CASE RunCandidate
        BY <1>1, <2>5, RunCandidateInv
    <2>6. CASE GenerationDies
        BY <1>1, <2>6, GenerationDiesInv
    <2>12. CASE CalibrationDies
        BY <1>1, <2>12, CalibrationDiesInv
    <2>7. CASE Compare
        BY <1>1, <2>7, CompareInv
    <2>8. CASE CompareTokens
        BY <1>1, <2>8, CompareTokensInv
    <2>9. CASE Summarize
        BY <1>1, <2>9, SummarizeInv
    <2>10. CASE Killed
        BY <1>1, <2>10, KilledInv
    <2>11. CASE UNCHANGED vars
        BY <1>1, <2>11, StutterInv
    <2> QED
        BY <1>1, <2>1, <2>2, <2>3, <2>4, <2>5, <2>6, <2>7, <2>8, <2>9, <2>10, <2>11,
           <2>12 DEF Next
<1> QED
    BY <1>1, InitScreen, PTL DEF Spec

\* The masks of an analysis leave exactly the experts they keep, are nested, disable no expert
\* that the calibration selected, and starve no layer (analyze).
THEOREM AnalysisIsRight == Spec => []MasksFollowCalibration
<1>1. ScreenInv => MasksFollowCalibration
    BY DEF ScreenInv, Promises
<1> QED
    BY <1>1, ScreenInvariant, PTL

\* What a screen counts is what two clean generations would give, whatever killed runs left in
\* the trace files (compare_variant, direct_mask_hits).
THEOREM EvidenceIsClean == Spec => []EvidenceOfThisRun
<1>1. ScreenInv => EvidenceOfThisRun
    BY DEF ScreenInv, Promises
<1> QED
    BY <1>1, ScreenInvariant, PTL

\* A screen selects what disables most among the candidates that passed (the gate of phase A,
\* multi_screen, select_strongest).
THEOREM StrongestIsSelected == Spec => []StrongestSelected
<1>1. ScreenInv => StrongestSelected
    BY DEF ScreenInv, Promises
<1> QED
    BY <1>1, ScreenInvariant, PTL

\* A mask that disables no expert the suite is routed to passes every screen: runs with the
\* full store drop KVL_MOE_MASK from the environment (run_heldout_one).
THEOREM HarmlessMaskPasses == Spec => []HarmlessPasses
<1>1. ScreenInv => HarmlessPasses
    BY DEF ScreenInv, Promises
<1> QED
    BY <1>1, ScreenInvariant, PTL

=============================================================================
