------------------------- MODULE PackPipeline_proofs -------------------------
(***************************************************************************)
(* Proofs about PackPipeline: a run that reports success leaves complete   *)
(* stores, a resumed run keeps what was packed, and the converter neither  *)
(* misses a shard nor leaves one.                                          *)
(***************************************************************************)
EXTENDS PackPipeline, Integers, FiniteSets, FiniteSetTheorems, WellFoundedInduction, TLAPS

\* Every set of natural numbers with a member has a least one: what the proofs
\* below use in the place of an induction.
LEMMA LeastNatural ==
    ASSUME NEW S \in SUBSET Nat, S # {}
    PROVE  \E m \in S : \A p \in S : m <= p
<1> DEFINE R == OpToRel(<, Nat)
<1>1. IsWellFoundedOn(R, Nat)
    BY NatLessThanWellFounded, Zenon
<1>2. \A x, y \in Nat : <<x, y>> \in R \/ y <= x
    BY DEF OpToRel
<1> HIDE DEF R
<1>3. PICK m \in S : \A p \in S : <<p, m>> \notin R
    BY <1>1, WFMin
<1> QED
    BY <1>2, <1>3

Names     == UNION {NamesOf(s) : s \in Stores}
AnyFormat == {"bf16", "q8", "q5", "none"}
Revs      == Revisions \cup {"local", "none"}

Recs    == [key : Names, at : Nat]
Entries == [key : Names \cup {Partial.key}, rev : Revs]
Index   == [st : {"absent", "torn", "ok"}, format : AnyFormat, recs : SUBSET Recs]

Converting == run.prog \in {"prepare", "text"}
Midway     == job.stage \in {"write", "index"}
Between    == pc \in {"idle", "shard", "pack", "frontend"}
TextPcs    == {"shard", "pack", "global", "layer", "experts"}

\* The types.
PackTypeOK ==
    /\ work \in SUBSET Shards
    /\ disk \in [Stores -> [bin : Seq(Entries), idx : Index]]
    /\ run \in [prog : {"none", "prepare", "text", "full", "packer"}, format : AnyFormat,
                rev : Revs, keep : BOOLEAN, result : {"none", "ready", "failed", "killed"}]
    /\ pc \in {"idle", "full_trunk", "full_experts", "vision", "packer", "frontend"} \cup TextPcs
    /\ job \in [store : Stores, todo : Seq(Names), append : BOOLEAN, recs : SUBSET Recs,
                stage : {"none", "open", "write", "index", "end"}]
    /\ si \in 0 .. NShards /\ loaded \in SUBSET Shards
    /\ done_layers \in SUBSET Layers /\ done_globals \in SUBSET Globals
    /\ stale \in SUBSET Stores

Fresh == si = 0 /\ loaded = {} /\ done_layers = {} /\ done_globals = {}

\* Where a program is, and which packer it then waits for.
Where ==
    /\ run.prog = "none" <=> pc = "idle"
    /\ run.prog # "none" => run.result = "none"
    /\ pc \in TextPcs => Converting
    /\ pc \in {"vision", "frontend"} => run.prog \in {"prepare", "full"}
    /\ pc \in {"full_trunk", "full_experts"} => run.prog = "full"
    /\ pc = "packer" <=> run.prog = "packer"
    /\ run.prog \in {"prepare", "full"} => run.format # "none"
    /\ Between => job = NoJob
    /\ ~Between => job.stage # "none"
    /\ pc = "vision" => job.store = "vision"
    /\ pc \in {"full_trunk", "global", "layer"} => job.store = "trunk"
    /\ pc \in {"full_experts", "experts"} => job.store = "experts"
    /\ pc = "packer" => job.store # "vision"
    /\ pc \in {"vision", "full_trunk", "full_experts"} => ~job.append
    /\ pc \notin TextPcs /\ ~(pc = "frontend" /\ run.prog = "prepare") => Fresh
    /\ pc = "global" => ReadyGlobals # {}
    /\ pc \in {"layer", "experts"} => ReadyLayers # {}
    /\ pc = "experts" => run.format # "none"

\* What the packer was asked to pack.
Wanted ==
    CASE pc = "vision"       -> Set(VisionSpec)
      [] pc = "full_trunk"   -> Set(AllTrunk)
      [] pc = "full_experts" -> Set(AllExperts)
      [] pc = "global"       -> {GlobalKey(Least(ReadyGlobals))}
      [] pc = "layer"        -> Set(TensorSpec(Least(ReadyLayers)))
      [] pc = "experts"      -> Set(ExpertSpec(Least(ReadyLayers)))
      [] OTHER               -> {}

\* Records name whole tensors of a data file.
Whole(recs, bin) ==
    \A r \in recs : r.at \in DOMAIN bin /\ bin[r.at].key = r.key

Once(recs) == \A r, q \in recs : r.key = q.key => r = q

KeysIn(recs) == {r.key : r \in recs}

Distinct(todo) == \A i, j \in DOMAIN todo : todo[i] = todo[j] => i = j

\* What is on disk, of stores whose data is not older than their index.
Disks ==
    \A s \in Stores :
        /\ disk[s].idx.st # "ok" => disk[s].idx.recs = {}
        /\ Once(disk[s].idx.recs)
        /\ s \notin stale => Whole(disk[s].idx.recs, disk[s].bin)

\* What the packer still has to write.
Asked ==
    /\ Distinct(job.todo)
    /\ pc # "packer" => Set(job.todo) \subseteq Wanted
    /\ job.stage = "open" => Wanted \subseteq Set(job.todo)
    /\ Midway => Wanted \subseteq Set(job.todo) \cup KeysIn(job.recs)
    /\ job.stage = "index" => job.todo = <<>> /\ disk[job.store].idx.st = "torn"
    /\ job.stage = "end" => Wanted \subseteq Keys(disk[job.store].idx)

\* What it has written.
Written ==
    /\ job.stage = "write" =>
           /\ job.append => disk[job.store].idx.recs \subseteq job.recs
           /\ \A k \in Set(job.todo) : k \in KeysIn(job.recs) => Skips(k)
    /\ Midway => Once(job.recs)
    /\ Midway /\ (~job.append \/ job.store \notin stale) =>
           Whole(job.recs, disk[job.store].bin)
    /\ Converting /\ pc # "vision" =>
           /\ job.stage = "open" => job.append = Appends(job.store)
           /\ job.stage = "write" /\ ~job.append => disk[job.store].idx.st = "absent"
    /\ pc = "vision" =>
           /\ Midway => KeysIn(job.recs) \subseteq Set(VisionSpec)
           /\ job.stage = "end" => Keys(disk[job.store].idx) \subseteq Set(VisionSpec)

\* The keys a store's index has, or will have when its packer ends.
Packed(s) == IF Midway /\ job.store = s THEN KeysIn(job.recs) ELSE Keys(disk[s].idx)

LayerPacked(L) ==
    /\ Set(TensorSpec(L)) \subseteq Packed("trunk")
    /\ run.format # "none" => Set(ExpertSpec(L)) \subseteq Packed("experts")

VisionPacked == Keys(disk["vision"].idx) = Set(VisionSpec)

\* What the converter has packed.
Converted ==
    /\ \A g \in done_globals : GlobalKey(g) \in Packed("trunk")
    /\ \A L \in done_layers : LayerPacked(L)

\* What a program has packed when it is at a later step.
Achieved ==
    /\ Converting => Converted
    /\ pc = "experts" => Set(TensorSpec(Least(ReadyLayers))) \subseteq Keys(disk["trunk"].idx)
    /\ run.prog = "prepare" /\ pc # "vision" => VisionPacked
    /\ run.prog = "prepare" /\ pc = "frontend" => done_layers = Layers /\ done_globals = Globals
    /\ run.prog = "full" /\ pc # "full_trunk" => Set(AllTrunk) \subseteq Keys(disk["trunk"].idx)
    /\ run.prog = "full" /\ pc \in {"vision", "frontend"} =>
           Set(AllExperts) \subseteq Keys(disk["experts"].idx)
    /\ run.prog = "full" /\ pc = "frontend" => VisionPacked

\* The shards the converter holds are those it has seen and still needs.
Holding ==
    /\ loaded \subseteq work \cap AllShards(run.format)
    /\ \A s \in loaded : s <= si
    /\ \A s \in Still : s <= si => s \in loaded
    /\ ~run.keep => \A s \in work \cap AllShards(run.format) : s <= si => s \in loaded
    /\ pc = "shard" => ReadyLayers = {} /\ ReadyGlobals = {}
    /\ pc = "shard" /\ ~run.keep => loaded \subseteq Still
    /\ pc = "frontend" /\ ~run.keep => work \cap AllShards(run.format) = {}

Held ==
    /\ pc = "vision" /\ run.prog = "prepare" => VisionShards \subseteq work
    /\ Converting => Holding

\* The inductive invariant.
PackInv == PackTypeOK /\ Where /\ Disks /\ Asked /\ Written /\ Achieved /\ Held

-----------------------------------------------------------------------------
(* Sequences of records, and lists still to do. *)

\* Taking the head off a list of distinct names.
LEMMA TakesHead ==
    ASSUME NEW S, NEW t \in Seq(S), t # <<>>, Distinct(t)
    PROVE  /\ Head(t) \in S /\ Tail(t) \in Seq(S) /\ Distinct(Tail(t))
           /\ Set(t) = Set(Tail(t)) \cup {Head(t)}
           /\ Head(t) \notin Set(Tail(t))
<1>1. /\ Head(t) = t[1] /\ Tail(t) \in Seq(S) /\ Len(Tail(t)) = Len(t) - 1
      /\ \A i \in 1 .. Len(t) - 1 : Tail(t)[i] = t[i + 1]
      /\ Len(t) \in Nat /\ Len(t) > 0 /\ DOMAIN t = 1 .. Len(t) /\ t[1] \in S
    OBVIOUS
<1>2. DOMAIN Tail(t) = 1 .. Len(t) - 1
    BY <1>1
<1>3. Distinct(Tail(t))
    <2> SUFFICES ASSUME NEW i \in 1 .. Len(t) - 1, NEW j \in 1 .. Len(t) - 1,
                        Tail(t)[i] = Tail(t)[j]
                 PROVE  i = j
        BY <1>2 DEF Distinct
    <2>1. t[i + 1] = t[j + 1] /\ i + 1 \in DOMAIN t /\ j + 1 \in DOMAIN t
        BY <1>1
    <2> QED
        BY <2>1 DEF Distinct
<1>4. Head(t) \notin Set(Tail(t))
    <2> SUFFICES ASSUME NEW i \in 1 .. Len(t) - 1, Tail(t)[i] = Head(t)
                 PROVE  FALSE
        BY <1>2 DEF Set
    <2>1. t[i + 1] = t[1] /\ i + 1 \in DOMAIN t /\ 1 \in DOMAIN t
        BY <1>1
    <2> QED
        BY <2>1 DEF Distinct
<1>5. Set(Tail(t)) \cup {Head(t)} \subseteq Set(t)
    <2>1. Head(t) \in Set(t)
        BY <1>1 DEF Set
    <2>2. ASSUME NEW i \in 1 .. Len(t) - 1  PROVE Tail(t)[i] \in Set(t)
        BY <1>1 DEF Set
    <2> QED
        BY <1>2, <2>1, <2>2 DEF Set
<1>6. ASSUME NEW i \in DOMAIN t  PROVE t[i] \in Set(Tail(t)) \cup {Head(t)}
    <2>1. CASE i = 1
        BY <1>1, <2>1
    <2>2. CASE i # 1
        <3>1. i - 1 \in 1 .. Len(t) - 1 /\ Tail(t)[i - 1] = t[i]
            BY <1>1, <2>2
        <3> QED
            BY <1>2, <3>1 DEF Set
    <2> QED
        BY <2>1, <2>2
<1>7. Set(t) \subseteq Set(Tail(t)) \cup {Head(t)}
    BY <1>6 DEF Set
<1> QED
    BY <1>1, <1>3, <1>4, <1>5, <1>7

\* A longer data file keeps every record.
LEMMA WholeKept ==
    ASSUME NEW recs, NEW bin \in Seq(Entries), NEW x \in Entries, Whole(recs, bin)
    PROVE  Whole(recs, Append(bin, x))
<1>1. /\ DOMAIN bin = 1 .. Len(bin) /\ DOMAIN Append(bin, x) = 1 .. Len(bin) + 1
      /\ Len(bin) \in Nat
      /\ \A i \in 1 .. Len(bin) : Append(bin, x)[i] = bin[i]
    OBVIOUS
<1> QED
    BY <1>1 DEF Whole

\* And the record just written is whole.
LEMMA WholeMore ==
    ASSUME NEW recs, NEW bin \in Seq(Entries), NEW x \in Entries, Whole(recs, bin)
    PROVE  Whole(recs \cup {[key |-> x.key, at |-> Len(bin) + 1]}, Append(bin, x))
<1>1. /\ DOMAIN Append(bin, x) = 1 .. Len(bin) + 1 /\ Len(bin) \in Nat
      /\ Append(bin, x)[Len(bin) + 1] = x
    OBVIOUS
<1>2. Whole(recs, Append(bin, x))
    BY WholeKept
<1> QED
    BY <1>1, <1>2 DEF Whole

LEMMA OnceMore ==
    ASSUME NEW recs, Once(recs), NEW k, k \notin KeysIn(recs), NEW n
    PROVE  Once(recs \cup {[key |-> k, at |-> n]})
BY DEF Once, KeysIn

LEMMA KeysMore ==
    ASSUME NEW recs, NEW k, NEW n
    PROVE  KeysIn(recs \cup {[key |-> k, at |-> n]}) = KeysIn(recs) \cup {k}
<1> DEFINE x == [key |-> k, at |-> n]
<1>1. x.key = k
    OBVIOUS
<1> HIDE DEF x
<1>2. KeysIn(recs \cup {x}) = KeysIn(recs) \cup {x.key}
    BY DEF KeysIn
<1> QED
    BY <1>1, <1>2 DEF x

\* The least element of a set of numbers from an interval.
LEMMA LeastIs ==
    ASSUME NEW n \in Nat, NEW S \in SUBSET (0 .. n), S # {}
    PROVE  Least(S) \in S /\ \A y \in S : Least(S) <= y
<1> DEFINE T == {s + 1 : s \in S}
<1>1. T \in SUBSET (1 .. n + 1) /\ T # {} /\ n + 1 \in Nat
    <2>1. \A s \in S : s + 1 \in 1 .. n + 1
        OBVIOUS
    <2>2. PICK s \in S : TRUE
        OBVIOUS
    <2>3. s + 1 \in T
        OBVIOUS
    <2> QED
        BY <2>1, <2>3
<1>2. PICK m \in T : \A p \in T : m <= p
    <2> HIDE DEF T
    <2> QED
        BY <1>1, LeastNatural
<1>3. m - 1 \in S /\ \A y \in S : m - 1 <= y
    <2>1. PICK s \in S : m = s + 1
        BY <1>2
    <2>2. ASSUME NEW y \in S  PROVE s <= y
        <3>1. y + 1 \in T /\ y \in Int /\ s \in Int
            OBVIOUS
        <3>2. s + 1 <= y + 1
            BY <1>2, <2>1, <3>1
        <3> QED
            BY <3>1, <3>2
    <2>3. m - 1 = s
        BY <2>1
    <2> QED
        BY <2>2, <2>3
<1> QED
    BY <1>3 DEF Least

-----------------------------------------------------------------------------
(* The lists of records that packers are given. *)

LEMMA GlobalsAre ==
    ASSUME NEW g \in Globals
    PROVE  GlobalKey(g) \in Names
<1>1. GlobalKey(g) \in NamesOf("trunk")
    BY DEF NamesOf
<1> QED
    BY <1>1 DEF Names, Stores

LEMMA TensorsAre ==
    ASSUME NEW L \in Layers
    PROVE  /\ TensorSpec(L) \in Seq(Names) /\ Distinct(TensorSpec(L))
           /\ Set(TensorSpec(L)) # {} /\ Set(TensorSpec(L)) \subseteq Names
           /\ Len(TensorSpec(L)) = 2 /\ \A i \in {1, 2} : TensorSpec(L)[i] \in Set(TensorSpec(L))
<1> DEFINE a == <<"trunk", L, 1>>
           b == <<"trunk", L, IF IsMoe(L) THEN 3 ELSE 2>>
<1>1. TensorSpec(L) = <<a, b>>
    BY DEF TensorSpec
<1>2. a # b
    <2>1. a[3] = 1 /\ b[3] # 1
        OBVIOUS
    <2> QED
        BY <2>1
<1> HIDE DEF a, b
<1>3. Set(TensorSpec(L)) = {a, b} /\ Len(TensorSpec(L)) = 2
    BY <1>1 DEF Set
<1>4. Set(TensorSpec(L)) \subseteq NamesOf("trunk")
    BY DEF NamesOf
<1>5. Set(TensorSpec(L)) \subseteq Names
    BY <1>4 DEF Names, Stores
<1>6. TensorSpec(L) \in Seq(Names)
    BY <1>1, <1>3, <1>5
<1>7. Distinct(TensorSpec(L))
    BY <1>1, <1>2 DEF Distinct
<1> QED
    BY <1>1, <1>3, <1>5, <1>6, <1>7

LEMMA ExpertsAre ==
    ASSUME NEW L \in Layers
    PROVE  /\ ExpertSpec(L) \in Seq(Names) /\ Distinct(ExpertSpec(L))
           /\ Set(ExpertSpec(L)) \subseteq Names
           /\ ~IsMoe(L) => Set(ExpertSpec(L)) = {}
<1>0. NExperts \in Nat
    BY CheckpointAssumption
<1>1. Set(ExpertSpec(L)) \subseteq NamesOf("experts")
    BY DEF NamesOf
<1>2. Set(ExpertSpec(L)) \subseteq Names
    BY <1>1 DEF Names, Stores
<1>3. CASE IsMoe(L)
    <2>1. ExpertSpec(L) = [e \in 1 .. NExperts |-> <<"experts", L, e>>]
        BY <1>3 DEF ExpertSpec
    <2>2. \A e \in 1 .. NExperts : ExpertSpec(L)[e] \in Names
        BY <1>2, <2>1 DEF Set
    <2>3. ExpertSpec(L) \in [1 .. NExperts -> Names]
        BY <2>1, <2>2
    <2>4. ExpertSpec(L) \in Seq(Names)
        BY <1>0, <2>3
    <2>5. Distinct(ExpertSpec(L))
        <3> SUFFICES ASSUME NEW i \in 1 .. NExperts, NEW j \in 1 .. NExperts,
                            <<"experts", L, i>> = <<"experts", L, j>>
                     PROVE  i = j
            BY <2>1 DEF Distinct
        <3>1. <<"experts", L, i>>[3] = <<"experts", L, j>>[3]
            OBVIOUS
        <3> QED
            BY <3>1
    <2> QED
        BY <1>2, <1>3, <2>4, <2>5
<1>4. CASE ~IsMoe(L)
    BY <1>4 DEF ExpertSpec, Distinct, Set
<1> QED
    BY <1>3, <1>4

LEMMA VisionIs ==
    /\ VisionSpec \in Seq(Names) /\ Distinct(VisionSpec) /\ Set(VisionSpec) \subseteq Names
<1> DEFINE a == <<"vision", -1, 1>>
           b == <<"vision", 0, 2>>
<1>1. VisionSpec = <<a, b>>
    BY DEF VisionSpec
<1>2. a # b
    <2>1. a[3] = 1 /\ b[3] = 2
        OBVIOUS
    <2> QED
        BY <2>1
<1> HIDE DEF a, b
<1>3. Set(VisionSpec) = {a, b}
    BY <1>1 DEF Set
<1>4. Set(VisionSpec) \subseteq Names
    BY DEF NamesOf, Names, Stores
<1> QED
    BY <1>1, <1>2, <1>3, <1>4 DEF Distinct

\* Integer division by the number of experts.
LEMMA DivMod ==
    ASSUME NEW a \in Nat, NEW d \in Nat \ {0}
    PROVE  /\ a \div d \in Nat /\ a % d \in 0 .. d - 1
           /\ a = d * (a \div d) + (a % d)
OBVIOUS

\* pack_full_model.py's list for the trunk.
LEMMA AllTrunkIs ==
    /\ AllTrunk \in Seq(Names) /\ Distinct(AllTrunk) /\ Set(AllTrunk) \subseteq Names
    /\ \A k \in Set(AllTrunk) : \/ \E g \in Globals : k = GlobalKey(g)
                               \/ \E L \in Layers : k \in Set(TensorSpec(L))
<1> DEFINE n == 3 + 2 * (LastLayer + 1)
           L(i) == (i - 4) \div 2
           e(i) == ((i - 4) % 2) + 1
<1>1. LastLayer \in Nat
    BY CheckpointAssumption
<1>2. n \in Nat
    BY <1>1
<1>3. AllTrunk = [i \in 1 .. n |-> IF i <= 3 THEN GlobalKey(i) ELSE TensorSpec(L(i))[e(i)]]
    BY DEF AllTrunk
<1>4. ASSUME NEW i \in 4 .. n
      PROVE  L(i) \in Layers /\ e(i) \in {1, 2} /\ i = 3 + 2 * L(i) + e(i)
    BY <1>1 DEF Layers
<1>5. ASSUME NEW i \in 1 .. n
      PROVE  /\ AllTrunk[i] \in Names
             /\ i <= 3 => i \in Globals /\ AllTrunk[i] = GlobalKey(i)
             /\ i > 3 => /\ L(i) \in Layers /\ AllTrunk[i] \in Set(TensorSpec(L(i)))
                         /\ AllTrunk[i] = TensorSpec(L(i))[e(i)]
    <2>1. CASE i <= 3
        <3>1. i \in Globals
            BY <2>1 DEF Globals
        <3>2. AllTrunk[i] = GlobalKey(i)
            BY <1>3, <2>1
        <3> QED
            BY <2>1, <3>1, <3>2, GlobalsAre
    <2>2. CASE i > 3
        <3>1. i \in 4 .. n
            BY <1>2, <2>2
        <3>2. L(i) \in Layers /\ e(i) \in {1, 2}
            BY <1>4, <3>1
        <3>3. AllTrunk[i] = TensorSpec(L(i))[e(i)]
            BY <1>3, <2>2
        <3>4. AllTrunk[i] \in Set(TensorSpec(L(i))) /\ Set(TensorSpec(L(i))) \subseteq Names
            <4> HIDE DEF L, e
            <4> QED
                BY <3>2, <3>3, TensorsAre
        <3> QED
            BY <2>2, <3>2, <3>3, <3>4
    <2> QED
        BY <2>1, <2>2
<1>6. AllTrunk \in Seq(Names)
    <2>1. AllTrunk \in [1 .. n -> Names]
        BY <1>3, <1>5
    <2> QED
        BY <1>2, <2>1
<1>7. \A k \in Set(AllTrunk) : \/ \E g \in Globals : k = GlobalKey(g)
                               \/ \E M \in Layers : k \in Set(TensorSpec(M))
    <2> SUFFICES ASSUME NEW i \in 1 .. n
                 PROVE  \/ \E g \in Globals : AllTrunk[i] = GlobalKey(g)
                        \/ \E M \in Layers : AllTrunk[i] \in Set(TensorSpec(M))
        BY <1>3 DEF Set
    <2> HIDE DEF L, e
    <2> QED
        BY <1>2, <1>5
<1>8. Set(AllTrunk) \subseteq Names
    BY <1>3, <1>5 DEF Set
<1>9. ASSUME NEW i \in 1 .. n, i <= 3
      PROVE  AllTrunk[i][2] = -1 /\ AllTrunk[i][3] = i
    BY <1>5, <1>9 DEF GlobalKey
<1>10. ASSUME NEW i \in 1 .. n, i > 3
       PROVE  /\ AllTrunk[i][2] = L(i) /\ L(i) # -1
              /\ e(i) = 1 => AllTrunk[i][3] = 1
              /\ e(i) # 1 => AllTrunk[i][3] # 1
    <2>1. L(i) \in Layers /\ e(i) \in {1, 2} /\ AllTrunk[i] = TensorSpec(L(i))[e(i)]
        BY <1>2, <1>4, <1>5, <1>10
    <2>2. L(i) # -1
        BY <1>1, <2>1 DEF Layers
    <2> HIDE DEF L, e
    <2>3. CASE e(i) = 1
        BY <2>1, <2>2, <2>3 DEF TensorSpec
    <2>4. CASE e(i) = 2
        BY <2>1, <2>2, <2>4 DEF TensorSpec
    <2> QED
        BY <2>1, <2>3, <2>4
<1>11. ASSUME NEW i \in 1 .. n, NEW j \in 1 .. n, AllTrunk[i] = AllTrunk[j]
       PROVE  i = j
    <2>0. i \in Int /\ j \in Int
        BY <1>2
    <2>1. CASE i <= 3 /\ j <= 3
        BY <1>9, <1>11, <2>1
    <2>2. CASE i <= 3 /\ j > 3
        BY <1>9, <1>10, <1>11, <2>2
    <2>3. CASE i > 3 /\ j <= 3
        BY <1>9, <1>10, <1>11, <2>3
    <2>4. CASE i > 3 /\ j > 3
        <3>1. i \in 4 .. n /\ j \in 4 .. n
            BY <1>2, <2>4
        <3>2. /\ i = 3 + 2 * L(i) + e(i) /\ j = 3 + 2 * L(j) + e(j)
              /\ e(i) \in {1, 2} /\ e(j) \in {1, 2}
            BY <1>4, <3>1
        <3> HIDE DEF L, e
        <3>3. L(i) = L(j) /\ e(i) = e(j)
            BY <1>10, <1>11, <2>4, <3>2
        <3> QED
            BY <3>2, <3>3
    <2> QED
        BY <2>0, <2>1, <2>2, <2>3, <2>4
<1>12. Distinct(AllTrunk)
    BY <1>3, <1>11 DEF Distinct
<1> QED
    BY <1>6, <1>7, <1>8, <1>12

\* And for the experts.
LEMMA AllExpertsIs ==
    /\ AllExperts \in Seq(Names) /\ Distinct(AllExperts) /\ Set(AllExperts) \subseteq Names
    /\ \A k \in Set(AllExperts) : \E L \in Layers : k \in Set(ExpertSpec(L))
<1> DEFINE n == NExperts * (LastLayer + 1 - FirstDense)
           L(i) == FirstDense + (i - 1) \div NExperts
           e(i) == ((i - 1) % NExperts) + 1
<1>1. /\ LastLayer \in Nat /\ FirstDense \in Nat /\ FirstDense <= LastLayer
      /\ NExperts \in Nat /\ NExperts > 0
    BY CheckpointAssumption DEF Layers
<1>2. n \in Nat
    <2> DEFINE m == LastLayer + 1 - FirstDense
    <2>1. m \in Nat
        BY <1>1
    <2> HIDE DEF m
    <2>2. NExperts * m \in Nat
        BY <1>1, <2>1
    <2> QED
        BY <2>2 DEF m
<1>3. AllExperts = [i \in 1 .. n |-> <<"experts", L(i), e(i)>>]
    BY DEF AllExperts
<1>4. ASSUME NEW i \in 1 .. n
      PROVE  /\ L(i) \in Layers /\ IsMoe(L(i)) /\ e(i) \in 1 .. NExperts
             /\ i = NExperts * (L(i) - FirstDense) + e(i)
    <2> DEFINE q == (i - 1) \div NExperts
               r == (i - 1) % NExperts
               m == LastLayer + 1 - FirstDense
    <2>1. /\ i - 1 \in Nat /\ NExperts \in Nat \ {0}
        BY <1>1, <1>2
    <2>2. q \in Nat /\ r \in 0 .. NExperts - 1 /\ i - 1 = NExperts * q + r
        BY <2>1, DivMod
    <2>3. L(i) = FirstDense + q /\ e(i) = r + 1
        OBVIOUS
    <2>4. m \in Nat /\ i - 1 < NExperts * m
        BY <1>1, <1>2
    <2>5. q < m
        <3> HIDE DEF q, r, m
        <3>1. SUFFICES ASSUME m <= q  PROVE FALSE
            BY <2>2, <2>4
        <3>2. NExperts * m <= NExperts * q
            BY <1>1, <2>2, <2>4, <3>1
        <3>3. NExperts * m \in Nat /\ NExperts * q \in Nat
            BY <1>1, <2>2, <2>4
        <3> HIDE <3>1
        <3> QED
            BY <1>1, <2>2, <2>4, <3>2, <3>3
    <2> HIDE DEF L, e, q, r
    <2>6. L(i) \in Layers /\ IsMoe(L(i))
        BY <1>1, <2>2, <2>3, <2>5 DEF Layers, IsMoe
    <2>7. e(i) \in 1 .. NExperts
        BY <1>1, <2>2, <2>3
    <2>8. L(i) - FirstDense = q
        BY <1>1, <2>2, <2>3
    <2>9. i = NExperts * q + e(i)
        <3>1. NExperts * q \in Nat /\ i \in Int
            BY <1>1, <1>2, <2>2
        <3> HIDE DEF m
        <3> QED
            BY <2>2, <2>3, <3>1
    <2> QED
        BY <2>6, <2>7, <2>8, <2>9
<1>5. ASSUME NEW i \in 1 .. n
      PROVE  \E M \in Layers : AllExperts[i] \in Set(ExpertSpec(M))
    <2>1. ExpertSpec(L(i)) = [x \in 1 .. NExperts |-> <<"experts", L(i), x>>]
        BY <1>4 DEF ExpertSpec
    <2>2. AllExperts[i] = ExpertSpec(L(i))[e(i)] /\ e(i) \in DOMAIN ExpertSpec(L(i))
        BY <1>3, <1>4, <2>1
    <2>3. L(i) \in Layers /\ AllExperts[i] \in Set(ExpertSpec(L(i)))
        BY <1>4, <2>2 DEF Set
    <2> QED
        BY <2>3
<1>6. \A k \in Set(AllExperts) : \E M \in Layers : k \in Set(ExpertSpec(M))
    BY <1>3, <1>5 DEF Set
<1>7. Set(AllExperts) \subseteq Names
    BY <1>6, ExpertsAre
<1>8. AllExperts \in Seq(Names)
    <2>1. AllExperts \in [1 .. n -> Names]
        BY <1>3, <1>7 DEF Set
    <2> HIDE DEF n
    <2> QED
        BY <1>2, <2>1
<1>9. ASSUME NEW i \in 1 .. n, NEW j \in 1 .. n, AllExperts[i] = AllExperts[j]
      PROVE  i = j
    <2>1. <<"experts", L(i), e(i)>> = <<"experts", L(j), e(j)>>
        BY <1>3, <1>9
    <2> HIDE DEF L, e
    <2>2. L(i) = L(j) /\ e(i) = e(j)
        BY <2>1
    <2> QED
        BY <1>4, <2>2
<1>10. Distinct(AllExperts)
    BY <1>3, <1>9 DEF Distinct
<1> QED
    BY <1>6, <1>7, <1>8, <1>10

-----------------------------------------------------------------------------
(* Steps of a packer that does not fail. *)

Moves == OpenStore \/ SkipRecord \/ AppendRecord \/ TruncateIndex \/ WriteIndex

LEMMA JobTypes ==
    ASSUME PackTypeOK
    PROVE  /\ job.store \in Stores /\ job.todo \in Seq(Names) /\ job.append \in BOOLEAN
           /\ job.recs \in SUBSET Recs
           /\ job = [store |-> job.store, todo |-> job.todo, append |-> job.append,
                     recs |-> job.recs, stage |-> job.stage]
           /\ \A s \in Stores : /\ disk[s].bin \in Seq(Entries) /\ disk[s].idx \in Index
                                /\ disk[s] = [bin |-> disk[s].bin, idx |-> disk[s].idx]
BY DEF PackTypeOK

\* Only the files of the packer's store are another.
Touches(bin, idx) ==
    /\ disk' = [s \in Stores |-> disk'[s]]
    /\ disk'[job.store] = [bin |-> bin, idx |-> idx]
    /\ \A s \in Stores : s # job.store => disk'[s] = disk[s]

Becomes(todo, recs, stage) ==
    job' = [store |-> job.store, todo |-> todo, append |-> job.append, recs |-> recs,
            stage |-> stage]

\* What the steps of a packer do to the files, and to its job.
LEMMA MoveIs ==
    ASSUME PackTypeOK
    PROVE  LET old == disk[job.store] IN
           /\ OpenStore =>
                  \/ /\ job.store = "experts" /\ Todo = {}
                     /\ disk' = disk /\ stale' = stale
                     /\ Becomes(job.todo, job.recs, "end")
                  \/ /\ ~(job.store = "experts" /\ Todo = {})
                     /\ Touches(IF job.append THEN old.bin ELSE <<>>, old.idx)
                     /\ Becomes(job.todo, IF job.append THEN old.idx.recs ELSE {}, "write")
           /\ SkipRecord => disk' = disk /\ Becomes(Tail(job.todo), job.recs, "write")
           /\ AppendRecord =>
                  /\ Touches(Append(old.bin, Entry(Head(job.todo), run.rev)), old.idx)
                  /\ Becomes(Tail(job.todo), job.recs \cup
                        {[key |-> Head(job.todo), at |-> Len(old.bin) + 1]}, "write")
           /\ TruncateIndex =>
                  /\ Touches(old.bin, [st |-> "torn", format |-> "none", recs |-> {}])
                  /\ Becomes(job.todo, job.recs, "index")
           /\ WriteIndex =>
                  /\ Touches(old.bin,
                        [st |-> "ok", format |-> StoreFormat(job.store), recs |-> job.recs])
                  /\ Becomes(job.todo, job.recs, "end")
<1> DEFINE old == disk[job.store]
<1>1. /\ job.store \in Stores
      /\ job = [store |-> job.store, todo |-> job.todo, append |-> job.append,
                recs |-> job.recs, stage |-> job.stage]
      /\ disk[job.store] = [bin |-> old.bin, idx |-> old.idx]
      /\ disk = [s \in Stores |-> disk[s]]
    BY JobTypes DEF PackTypeOK
<1>2. ASSUME OpenStore, ~(job.store = "experts" /\ Todo = {})
      PROVE  /\ Touches(IF job.append THEN old.bin ELSE <<>>, old.idx)
             /\ Becomes(job.todo, IF job.append THEN old.idx.recs ELSE {}, "write")
    <2>1. /\ job' = [job EXCEPT !.stage = "write",
                       !.recs = IF job.append THEN old.idx.recs ELSE {}]
          /\ disk' = [disk EXCEPT ![job.store].bin = Opened(job.append, @)]
        BY <1>2 DEF OpenStore
    <2>2. Touches(Opened(job.append, old.bin), old.idx)
        BY <1>1, <2>1 DEF Touches
    <2> QED
        BY <1>1, <2>1, <2>2 DEF Becomes, Opened
<1>3. ASSUME OpenStore, job.store = "experts" /\ Todo = {}
      PROVE  disk' = disk /\ stale' = stale /\ Becomes(job.todo, job.recs, "end")
    BY <1>1, <1>3 DEF OpenStore, Becomes
<1>4. ASSUME SkipRecord  PROVE disk' = disk /\ Becomes(Tail(job.todo), job.recs, "write")
    BY <1>1, <1>4 DEF SkipRecord, Writing, Becomes
<1>5. ASSUME AppendRecord
      PROVE  /\ Touches(Append(old.bin, Entry(Head(job.todo), run.rev)), old.idx)
             /\ Becomes(Tail(job.todo), job.recs \cup
                    {[key |-> Head(job.todo), at |-> Len(old.bin) + 1]}, "write")
    BY <1>1, <1>5 DEF AppendRecord, Writing, Touches, Becomes
<1>6. ASSUME TruncateIndex
      PROVE  /\ Touches(old.bin, [st |-> "torn", format |-> "none", recs |-> {}])
             /\ Becomes(job.todo, job.recs, "index")
    BY <1>1, <1>6 DEF TruncateIndex, Touches, Becomes, NoIndex
<1>7. ASSUME WriteIndex
      PROVE  /\ Touches(old.bin,
                    [st |-> "ok", format |-> StoreFormat(job.store), recs |-> job.recs])
             /\ Becomes(job.todo, job.recs, "end")
    BY <1>1, <1>7 DEF WriteIndex, Touches, Becomes
<1> QED
    BY <1>2, <1>3, <1>4, <1>5, <1>6, <1>7

\* What a step of a packer leaves alone.
LEMMA MoveFrame ==
    ASSUME PackTypeOK, Moves
    PROVE  /\ UNCHANGED <<work, run, pc, progress>>
           /\ job.stage \in {"open", "write", "index"}
           /\ job'.stage \in {"write", "index", "end"}
           /\ job'.store = job.store /\ job'.append = job.append
           /\ \A s \in Stores : s # job.store => disk'[s] = disk[s]
           /\ stale' \in SUBSET Stores
           /\ \A s \in Stores : s # job.store => (s \in stale' <=> s \in stale)
<1>1. job.store \in Stores /\ stale \in SUBSET Stores
    BY DEF PackTypeOK
<1>2. CASE OpenStore
    <2>1. /\ UNCHANGED <<work, run, pc, progress>> /\ job.stage = "open"
          /\ stale' = stale \/ stale' = stale \cup {job.store}
        BY <1>2 DEF OpenStore
    <2> QED
        BY <1>1, <1>2, <2>1, MoveIs DEF Touches, Becomes
<1>3. CASE SkipRecord
    BY <1>1, <1>3, MoveIs DEF SkipRecord, Becomes, Writing
<1>4. CASE AppendRecord
    <2>1. UNCHANGED <<work, run, pc, progress, stale>> /\ job.stage = "write"
        BY <1>4 DEF AppendRecord, Writing
    <2> QED
        BY <1>1, <1>4, <2>1, MoveIs DEF Touches, Becomes
<1>5. CASE TruncateIndex
    <2>1. UNCHANGED <<work, run, pc, progress, stale>> /\ job.stage = "write"
        BY <1>5 DEF TruncateIndex
    <2> QED
        BY <1>1, <1>5, <2>1, MoveIs DEF Touches, Becomes
<1>6. CASE WriteIndex
    <2>1. /\ UNCHANGED <<work, run, pc, progress>> /\ job.stage = "index"
          /\ stale' = stale \/ stale' = stale \ {job.store}
        BY <1>6 DEF WriteIndex
    <2> QED
        BY <1>1, <1>6, <2>1, MoveIs DEF Touches, Becomes
<1> QED
    BY <1>2, <1>3, <1>4, <1>5, <1>6 DEF Moves

\* A list of records still to do that is not empty.
LEMMA HeadIs ==
    ASSUME PackTypeOK, Asked, Writing
    PROVE  /\ Head(job.todo) \in Names /\ Tail(job.todo) \in Seq(Names)
           /\ Distinct(Tail(job.todo))
           /\ Set(job.todo) = Set(Tail(job.todo)) \cup {Head(job.todo)}
           /\ Head(job.todo) \notin Set(Tail(job.todo))
           /\ job.stage = "write"
           /\ Entry(Head(job.todo), run.rev) \in Entries
           /\ Entry(Head(job.todo), run.rev).key = Head(job.todo)
           /\ Len(disk[job.store].bin) \in Nat
<1>1. job.todo \in Seq(Names) /\ job.todo # <<>> /\ Distinct(job.todo) /\ job.stage = "write"
    BY JobTypes DEF Asked, Writing
<1>2. /\ Head(job.todo) \in Names /\ Tail(job.todo) \in Seq(Names)
      /\ Distinct(Tail(job.todo))
      /\ Set(job.todo) = Set(Tail(job.todo)) \cup {Head(job.todo)}
      /\ Head(job.todo) \notin Set(Tail(job.todo))
    BY <1>1, TakesHead
<1>3. run.rev \in Revs
    BY DEF PackTypeOK
<1>4. Entry(Head(job.todo), run.rev) \in Entries
    BY <1>2, <1>3 DEF Entry, Entries
<1>5. Len(disk[job.store].bin) \in Nat
    BY JobTypes
<1> QED
    BY <1>1, <1>2, <1>4, <1>5 DEF Entry

LEMMA TouchTypes ==
    ASSUME PackTypeOK, NEW bin \in Seq(Entries), NEW idx \in Index, Touches(bin, idx)
    PROVE  disk' \in [Stores -> [bin : Seq(Entries), idx : Index]]
<1>1. \A s \in Stores : disk[s] \in [bin : Seq(Entries), idx : Index]
    BY DEF PackTypeOK
<1>2. job.store \in Stores
    BY JobTypes
<1> QED
    BY <1>1, <1>2 DEF Touches

LEMMA MoveTypes ==
    ASSUME PackTypeOK, Asked, Moves
    PROVE  PackTypeOK'
<1> DEFINE old == disk[job.store]
<1>1. /\ job.store \in Stores /\ job.todo \in Seq(Names) /\ job.append \in BOOLEAN
      /\ job.recs \in SUBSET Recs /\ old.bin \in Seq(Entries) /\ old.idx \in Index
      /\ \A s \in Stores : disk[s] \in [bin : Seq(Entries), idx : Index]
    BY JobTypes DEF PackTypeOK
<1>2. SUFFICES /\ disk' \in [Stores -> [bin : Seq(Entries), idx : Index]]
               /\ job' \in [store : Stores, todo : Seq(Names), append : BOOLEAN,
                            recs : SUBSET Recs,
                            stage : {"none", "open", "write", "index", "end"}]
    BY MoveFrame DEF PackTypeOK, progress
<1>3. ASSUME NEW bin \in Seq(Entries), NEW idx \in Index, Touches(bin, idx)
      PROVE  disk' \in [Stores -> [bin : Seq(Entries), idx : Index]]
    BY <1>3, TouchTypes
<1>4. ASSUME NEW todo \in Seq(Names), NEW recs \in SUBSET Recs,
             NEW stage \in {"write", "index", "end"}, Becomes(todo, recs, stage)
      PROVE  job' \in [store : Stores, todo : Seq(Names), append : BOOLEAN,
                       recs : SUBSET Recs,
                       stage : {"none", "open", "write", "index", "end"}]
    BY <1>1, <1>4 DEF Becomes
<1>5. old.idx.recs \in SUBSET Recs
    BY <1>1 DEF Index
<1>6. disk \in [Stores -> [bin : Seq(Entries), idx : Index]]
    BY DEF PackTypeOK
<1>7. CASE OpenStore
    <2>1. (IF job.append THEN old.bin ELSE <<>>) \in Seq(Entries)
        BY <1>1
    <2>2. (IF job.append THEN old.idx.recs ELSE {}) \in SUBSET Recs
        BY <1>5
    <2> HIDE DEF old
    <2>3. CASE disk' = disk /\ Becomes(job.todo, job.recs, "end")
        BY <1>1, <1>4, <1>6, <2>3
    <2>4. CASE /\ Touches(IF job.append THEN old.bin ELSE <<>>, old.idx)
               /\ Becomes(job.todo, IF job.append THEN old.idx.recs ELSE {}, "write")
        BY <1>1, <1>3, <1>4, <2>1, <2>2, <2>4
    <2> QED
        BY <1>7, <2>3, <2>4, MoveIs DEF old
<1>8. CASE SkipRecord
    <2>1. Tail(job.todo) \in Seq(Names)
        BY <1>8, HeadIs DEF SkipRecord
    <2> QED
        BY <1>1, <1>4, <1>6, <1>8, <2>1, MoveIs
<1>9. CASE AppendRecord
    <2> DEFINE k == Head(job.todo)
               x == Entry(k, run.rev)
               r == [key |-> k, at |-> Len(old.bin) + 1]
    <2>1. Tail(job.todo) \in Seq(Names) /\ k \in Names /\ x \in Entries /\ Len(old.bin) \in Nat
        BY <1>9, HeadIs DEF AppendRecord
    <2>2. r \in Recs
        BY <2>1 DEF Recs
    <2>3. Touches(Append(old.bin, x), old.idx) /\ Becomes(Tail(job.todo), job.recs \cup {r}, "write")
        BY <1>9, MoveIs
    <2> HIDE DEF r, x, k
    <2>4. Append(old.bin, x) \in Seq(Entries) /\ job.recs \cup {r} \in SUBSET Recs
        BY <1>1, <2>1, <2>2
    <2> QED
        BY <1>1, <1>3, <1>4, <2>1, <2>3, <2>4
<1>10. CASE TruncateIndex
    <2>1. [st |-> "torn", format |-> "none", recs |-> {}] \in Index
        BY DEF Index, AnyFormat
    <2> QED
        BY <1>1, <1>3, <1>4, <1>10, <2>1, MoveIs
<1>11. CASE WriteIndex
    <2>1. StoreFormat(job.store) \in AnyFormat
        BY DEF PackTypeOK, StoreFormat, AnyFormat
    <2>2. [st |-> "ok", format |-> StoreFormat(job.store), recs |-> job.recs] \in Index
        BY <1>1, <2>1 DEF Index
    <2> QED
        BY <1>1, <1>3, <1>4, <1>11, <2>2, MoveIs
<1> QED
    BY <1>7, <1>8, <1>9, <1>10, <1>11 DEF Moves

LEMMA MoveWhere ==
    ASSUME PackTypeOK, Where, Moves
    PROVE  Where' /\ Wanted' = Wanted /\ ~Between /\ ReadyLayers' = ReadyLayers
<1>1. /\ run' = run /\ pc' = pc /\ si' = si /\ loaded' = loaded
      /\ done_layers' = done_layers /\ done_globals' = done_globals
      /\ job'.store = job.store /\ job'.append = job.append /\ job'.stage # "none"
      /\ job.stage # "none"
    BY MoveFrame DEF progress
<1>2. ~Between
    <2>1. NoJob.stage = "none"
        BY DEF NoJob
    <2> QED
        BY <1>1, <2>1 DEF Where
<1>3. ReadyLayers' = ReadyLayers /\ ReadyGlobals' = ReadyGlobals
    BY <1>1 DEF ReadyLayers, ReadyGlobals
<1>4. Converting' = Converting /\ Between' = Between /\ Fresh' = Fresh
    BY <1>1 DEF Converting, Between, Fresh
<1>5. Where'
    BY <1>1, <1>2, <1>3, <1>4 DEF Where
<1>6. Wanted' = Wanted
    BY <1>1, <1>3 DEF Wanted
<1> QED
    BY <1>2, <1>3, <1>5, <1>6

LEMMA MoveHeld ==
    ASSUME PackTypeOK, Held, Moves
    PROVE  Held'
<1>1. /\ run' = run /\ pc' = pc /\ si' = si /\ loaded' = loaded /\ work' = work
      /\ done_layers' = done_layers /\ done_globals' = done_globals
    BY MoveFrame DEF progress
<1>2. ReadyLayers' = ReadyLayers /\ ReadyGlobals' = ReadyGlobals /\ Still' = Still
    BY <1>1 DEF ReadyLayers, ReadyGlobals, Still
<1>3. Holding' = Holding /\ Converting' = Converting
    BY <1>1, <1>2 DEF Holding, Converting
<1> QED
    BY <1>1, <1>3 DEF Held

LEMMA MoveDisks ==
    ASSUME PackTypeOK, Disks, Asked, Written, Moves
    PROVE  Disks'
<1> DEFINE old == disk[job.store]
           new == disk'[job.store]
<1>1. /\ job.store \in Stores /\ old.bin \in Seq(Entries) /\ stale \in SUBSET Stores
    BY JobTypes DEF PackTypeOK
<1>2. SUFFICES /\ new.idx.st # "ok" => new.idx.recs = {}
               /\ Once(new.idx.recs)
               /\ job.store \notin stale' => Whole(new.idx.recs, new.bin)
    BY <1>1, MoveFrame DEF Disks
<1>3. /\ old.idx.st # "ok" => old.idx.recs = {}
      /\ Once(old.idx.recs)
      /\ job.store \notin stale => Whole(old.idx.recs, old.bin)
    BY <1>1 DEF Disks
<1>4. CASE disk' = disk /\ (stale' = stale \/ stale' = stale \cup {job.store})
    BY <1>3, <1>4
<1>5. CASE OpenStore
    <2>1. CASE job.store = "experts" /\ Todo = {}
        BY <1>4, <1>5, <2>1 DEF OpenStore
    <2>2. CASE ~(job.store = "experts" /\ Todo = {})
        <3>1. /\ Touches(IF job.append THEN old.bin ELSE <<>>, old.idx)
              /\ stale' = stale \cup (IF ~job.append /\ Appends(job.store) THEN {job.store} ELSE {})
            BY <1>5, <2>2, MoveIs DEF OpenStore
        <3>2. new.idx = old.idx /\ new.bin = IF job.append THEN old.bin ELSE <<>>
            BY <3>1 DEF Touches
        <3>3. ASSUME job.store \notin stale'  PROVE Whole(new.idx.recs, new.bin)
            <4>1. CASE job.append
                BY <1>3, <3>1, <3>2, <3>3, <4>1
            <4>2. CASE ~job.append
                <5>1. old.idx.st = "absent"
                    BY <3>1, <3>3, <4>2 DEF Appends
                <5> QED
                    BY <1>3, <3>2, <5>1 DEF Whole
            <4> QED
                BY <4>1, <4>2
        <3> QED
            BY <1>3, <3>2, <3>3
    <2> QED
        BY <2>1, <2>2
<1>6. CASE SkipRecord
    BY <1>4, <1>6, MoveIs DEF SkipRecord
<1>7. CASE AppendRecord
    <2> DEFINE x == Entry(Head(job.todo), run.rev)
    <2>1. x \in Entries
        BY <1>7, HeadIs DEF AppendRecord
    <2>2. new.bin = Append(old.bin, x) /\ new.idx = old.idx /\ stale' = stale
        BY <1>7, MoveIs DEF AppendRecord, Touches
    <2> HIDE DEF x
    <2> QED
        BY <1>1, <1>3, <2>1, <2>2, WholeKept
<1>8. CASE TruncateIndex
    <2>1. new.idx.recs = {}
        BY <1>8, MoveIs DEF Touches
    <2> QED
        BY <2>1 DEF Once, Whole
<1>9. CASE WriteIndex
    <2>1. /\ new.bin = old.bin /\ new.idx.recs = job.recs /\ new.idx.st = "ok"
        BY <1>9, MoveIs DEF Touches
    <2>2. Midway /\ stale' = (IF job.append THEN stale ELSE stale \ {job.store})
        BY <1>9 DEF WriteIndex, Midway
    <2>3. Once(job.recs) /\ (~job.append \/ job.store \notin stale => Whole(job.recs, old.bin))
        BY <2>2 DEF Written
    <2> QED
        BY <1>1, <2>1, <2>2, <2>3
<1> QED
    BY <1>5, <1>6, <1>7, <1>8, <1>9 DEF Moves

\* What the packer has to write is in its list or in its index to be.
LEMMA MoveAsked ==
    ASSUME PackTypeOK, Where, Asked, Written, Moves
    PROVE  Asked'
<1> DEFINE old == disk[job.store]
           new == disk'[job.store]
<1>1. /\ job'.store = job.store /\ job'.append = job.append /\ pc' = pc /\ Wanted' = Wanted
      /\ job.todo \in Seq(Names)
    BY MoveFrame, MoveWhere, JobTypes
<1>2. CASE OpenStore
    <2>1. job.stage = "open" /\ job'.todo = job.todo /\ job'.stage \in {"write", "end"}
        BY <1>2, MoveIs DEF OpenStore, Becomes
    <2>2. ASSUME job'.stage = "end"  PROVE Wanted \subseteq Keys(new.idx)
        <3>1. Todo = {} /\ disk' = disk
            BY <1>2, <2>2, MoveIs DEF OpenStore, Becomes
        <3>2. Set(job.todo) \subseteq Keys(old.idx)
            BY <3>1 DEF Todo, Skips
        <3> QED
            BY <2>1, <3>1, <3>2 DEF Asked
    <2> QED
        BY <1>1, <2>1, <2>2 DEF Asked, Midway
<1>3. CASE SkipRecord
    <2>1. /\ Writing /\ Skips(Head(job.todo)) /\ disk' = disk
          /\ job'.todo = Tail(job.todo) /\ job'.recs = job.recs /\ job'.stage = "write"
        BY <1>3, MoveIs DEF SkipRecord, Becomes
    <2>2. Distinct(Tail(job.todo)) /\ Set(job.todo) = Set(Tail(job.todo)) \cup {Head(job.todo)}
          /\ job.stage = "write"
        BY <2>1, HeadIs
    <2>3. Head(job.todo) \in KeysIn(job.recs)
        BY <2>1, <2>2 DEF Written, Skips, Keys, KeysIn
    <2>4. Wanted \subseteq Set(Tail(job.todo)) \cup KeysIn(job.recs)
        BY <2>2, <2>3 DEF Asked, Midway
    <2>5. pc # "packer" => Set(Tail(job.todo)) \subseteq Wanted
        BY <2>2 DEF Asked
    <2> QED
        BY <1>1, <2>1, <2>2, <2>4, <2>5 DEF Asked, Midway
<1>4. CASE AppendRecord
    <2> DEFINE r == [key |-> Head(job.todo), at |-> Len(old.bin) + 1]
    <2>1. Writing /\ job'.todo = Tail(job.todo) /\ job'.recs = job.recs \cup {r}
          /\ job'.stage = "write"
        BY <1>4, MoveIs DEF AppendRecord, Becomes
    <2>2. Distinct(Tail(job.todo)) /\ Set(job.todo) = Set(Tail(job.todo)) \cup {Head(job.todo)}
          /\ job.stage = "write"
        BY <2>1, HeadIs
    <2>3. KeysIn(job'.recs) = KeysIn(job.recs) \cup {Head(job.todo)}
        <3>1. KeysIn(job.recs \cup {r}) = KeysIn(job.recs) \cup {Head(job.todo)}
            BY KeysMore
        <3> QED
            BY <2>1, <3>1
    <2>4. Wanted \subseteq Set(Tail(job.todo)) \cup KeysIn(job'.recs)
        BY <2>2, <2>3 DEF Asked, Midway
    <2>5. pc # "packer" => Set(Tail(job.todo)) \subseteq Wanted
        BY <2>2 DEF Asked
    <2> HIDE DEF r
    <2> QED
        BY <1>1, <2>1, <2>2, <2>4, <2>5 DEF Asked, Midway
<1>5. CASE TruncateIndex
    <2>1. /\ job.stage = "write" /\ job.todo = <<>> /\ new.idx.st = "torn"
          /\ job'.todo = job.todo /\ job'.recs = job.recs /\ job'.stage = "index"
        BY <1>5, MoveIs DEF TruncateIndex, Touches, Becomes
    <2> QED
        BY <1>1, <2>1 DEF Asked, Midway
<1>6. CASE WriteIndex
    <2>1. /\ job.stage = "index" /\ new.idx.recs = job.recs
          /\ job'.todo = job.todo /\ job'.recs = job.recs /\ job'.stage = "end"
        BY <1>6, MoveIs DEF WriteIndex, Touches, Becomes
    <2>2. job.todo = <<>> /\ Set(job.todo) = {}
        BY <2>1 DEF Asked, Set
    <2>3. Wanted \subseteq Keys(new.idx)
        BY <2>1, <2>2 DEF Asked, Midway, Keys, KeysIn
    <2> QED
        BY <1>1, <2>1, <2>3 DEF Asked, Midway
<1> QED
    BY <1>2, <1>3, <1>4, <1>5, <1>6 DEF Moves

\* What it wrote is whole, and has what the index had.
LEMMA MoveWritten ==
    ASSUME PackTypeOK, Where, Disks, Asked, Written, Moves
    PROVE  Written'
<1> DEFINE old == disk[job.store]
           new == disk'[job.store]
<1>1. /\ job'.store = job.store /\ job'.append = job.append /\ pc' = pc /\ run' = run
      /\ job.todo \in Seq(Names) /\ job.store \in Stores /\ old.bin \in Seq(Entries)
      /\ Converting' = Converting
    BY MoveFrame, JobTypes DEF Converting
<1>2. CASE OpenStore
    <2>1. CASE job.store = "experts" /\ Todo = {}
        <3>1. job'.stage = "end" /\ pc # "vision"
            BY <1>2, <2>1, MoveIs DEF Becomes, Where
        <3> QED
            BY <1>1, <3>1 DEF Written, Midway
    <2>2. CASE ~(job.store = "experts" /\ Todo = {})
        <3>1. /\ job.stage = "open" /\ job'.stage = "write" /\ job'.todo = job.todo
              /\ job'.recs = IF job.append THEN old.idx.recs ELSE {}
              /\ new.bin = IF job.append THEN old.bin ELSE <<>>
              /\ new.idx = old.idx
            <4>1. /\ Touches(IF job.append THEN old.bin ELSE <<>>, old.idx)
                  /\ Becomes(job.todo, IF job.append THEN old.idx.recs ELSE {}, "write")
                BY <1>2, <2>2, MoveIs
            <4>2. job.stage = "open"
                BY <1>2 DEF OpenStore
            <4> QED
                BY <4>1, <4>2 DEF Touches, Becomes
        <3>2. job.store \notin stale' => job.store \notin stale
            BY <1>2, <2>2 DEF OpenStore
        <3>3. /\ Once(old.idx.recs)
              /\ job.store \notin stale => Whole(old.idx.recs, old.bin)
            BY <1>1 DEF Disks
        <3>4. Once({}) /\ \A b : Whole({}, b)
            BY DEF Once, Whole
        <3>5. KeysIn(job'.recs) = IF job.append THEN Keys(old.idx) ELSE {}
            BY <3>1 DEF KeysIn, Keys
        <3>6. pc = "vision" => ~job.append
            BY DEF Where
        <3>7. \A k : k \in KeysIn(job'.recs) => Skips(k)'
            BY <1>1, <3>1, <3>5 DEF Skips
        <3>8. Converting /\ pc # "vision" /\ ~job.append => new.idx.st = "absent"
            BY <3>1 DEF Written, Appends
        <3>9. Once(job'.recs)
            BY <3>1, <3>3, <3>4
        <3>10. ~job.append \/ job.store \notin stale' => Whole(job'.recs, new.bin)
            BY <3>1, <3>2, <3>3, <3>4
        <3> QED
            BY <1>1, <3>1, <3>5, <3>6, <3>7, <3>8, <3>9, <3>10 DEF Written, Midway
    <2> QED
        BY <2>1, <2>2
<1>3. CASE SkipRecord
    <2>1. /\ Writing /\ disk' = disk /\ stale' = stale
          /\ job'.todo = Tail(job.todo) /\ job'.recs = job.recs /\ job'.stage = "write"
        BY <1>3, MoveIs DEF SkipRecord, Becomes
    <2>2. Set(Tail(job.todo)) \subseteq Set(job.todo) /\ job.stage = "write"
        BY <2>1, HeadIs
    <2>3. \A k : Skips(k)' = Skips(k)
        BY <1>1, <2>1 DEF Skips
    <2> QED
        BY <1>1, <2>1, <2>2, <2>3 DEF Written, Midway
<1>4. CASE AppendRecord
    <2> DEFINE k == Head(job.todo)
               x == Entry(k, run.rev)
               r == [key |-> k, at |-> Len(old.bin) + 1]
    <2>1. /\ Writing /\ job'.todo = Tail(job.todo) /\ job'.recs = job.recs \cup {r}
          /\ job'.stage = "write" /\ stale' = stale /\ ~Skips(k)
          /\ new.bin = Append(old.bin, x) /\ new.idx = old.idx
        <3>1. Writing /\ stale' = stale /\ ~Skips(k)
            BY <1>4 DEF AppendRecord
        <3>2. Touches(Append(old.bin, x), old.idx) /\ Becomes(Tail(job.todo), job.recs \cup {r}, "write")
            BY <1>4, MoveIs
        <3> QED
            BY <3>1, <3>2 DEF Touches, Becomes
    <2>2. /\ Set(job.todo) = Set(Tail(job.todo)) \cup {k} /\ k \notin Set(Tail(job.todo))
          /\ job.stage = "write" /\ x \in Entries /\ x.key = k
        BY <2>1, HeadIs
    <2>3. KeysIn(job'.recs) = KeysIn(job.recs) \cup {k}
        <3>1. KeysIn(job.recs \cup {r}) = KeysIn(job.recs) \cup {k}
            BY KeysMore
        <3> QED
            BY <2>1, <3>1
    <2>4. k \notin KeysIn(job.recs)
        BY <2>1, <2>2 DEF Written
    <2>5. Once(job'.recs)
        <3>1. Once(job.recs)
            BY <2>2 DEF Written, Midway
        <3>2. Once(job.recs \cup {r})
            BY <2>4, <3>1, OnceMore
        <3> QED
            BY <2>1, <3>2
    <2>6. ~job.append \/ job.store \notin stale' => Whole(job'.recs, new.bin)
        <3> HIDE DEF x, k
        <3>1. r = [key |-> x.key, at |-> Len(old.bin) + 1]
            BY <2>2
        <3> HIDE DEF r, old
        <3>2. ASSUME Whole(job.recs, old.bin)  PROVE Whole(job'.recs, new.bin)
            BY <1>1, <2>1, <2>2, <3>1, <3>2, WholeMore
        <3> QED
            BY <2>1, <2>2, <3>2 DEF Written, Midway, old
    <2>7. \A y : Skips(y)' = Skips(y)
        BY <1>1, <2>1 DEF Skips
    <2>8. \A y \in Set(job'.todo) : y \in KeysIn(job'.recs) => Skips(y)'
        BY <2>1, <2>2, <2>3, <2>7 DEF Written
    <2>9. job.append => new.idx.recs \subseteq job'.recs
        BY <2>1, <2>2 DEF Written
    <2>10. pc = "vision" => KeysIn(job'.recs) \subseteq Set(VisionSpec)
        <3>1. pc = "vision" => k \in Set(VisionSpec)
            BY <2>2 DEF Asked, Wanted
        <3> QED
            BY <2>2, <2>3, <3>1 DEF Written, Midway
    <2>11. Converting /\ pc # "vision" /\ ~job.append => new.idx.st = "absent"
        BY <2>1, <2>2 DEF Written
    <2> HIDE DEF k, x, r
    <2> QED
        BY <1>1, <2>1, <2>5, <2>6, <2>8, <2>9, <2>10, <2>11 DEF Written, Midway
<1>5. CASE TruncateIndex
    <2>1. /\ job.stage = "write" /\ new.bin = old.bin /\ stale' = stale
          /\ job'.recs = job.recs /\ job'.stage = "index"
        BY <1>5, MoveIs DEF TruncateIndex, Touches, Becomes
    <2> QED
        BY <1>1, <2>1 DEF Written, Midway
<1>6. CASE WriteIndex
    <2>1. /\ job.stage = "index" /\ new.idx.recs = job.recs /\ job'.stage = "end"
        BY <1>6, MoveIs DEF WriteIndex, Touches, Becomes
    <2>2. Keys(new.idx) = KeysIn(job.recs)
        BY <2>1 DEF Keys, KeysIn
    <2> QED
        BY <1>1, <2>1, <2>2 DEF Written, Midway
<1> QED
    BY <1>2, <1>3, <1>4, <1>5, <1>6 DEF Moves

\* A packer of the converter takes back nothing.
LEMMA MovePacked ==
    ASSUME PackTypeOK, Where, Disks, Asked, Written, Moves, Converting,
           NEW s \in {"trunk", "experts"}
    PROVE  Packed(s) \subseteq Packed(s)'
<1> DEFINE old == disk[job.store]
           new == disk'[job.store]
<1>1. job'.store = job.store /\ s \in Stores /\ job.store \in Stores
    BY MoveFrame, JobTypes DEF Stores
<1>2. CASE s # job.store
    BY <1>1, <1>2, MoveFrame DEF Packed, Midway
<1>3. CASE s = job.store
    <2>0. pc # "vision"
        BY <1>3 DEF Where
    <2>1. CASE OpenStore
        <3>1. CASE job.store = "experts" /\ Todo = {}
            <4>1. job.stage = "open" /\ disk' = disk /\ job'.stage = "end"
                BY <2>1, <3>1, MoveIs DEF OpenStore, Becomes
            <4> QED
                BY <1>1, <4>1 DEF Packed, Midway
        <3>2. CASE ~(job.store = "experts" /\ Todo = {})
            <4>1. Becomes(job.todo, IF job.append THEN old.idx.recs ELSE {}, "write")
                BY <2>1, <3>2, MoveIs
            <4>2. job.stage = "open"
                BY <2>1 DEF OpenStore
            <4>3. job.append = Appends(job.store)
                BY <2>0, <4>2 DEF Written
            <4>4. ~job.append => old.idx.recs = {}
                BY <1>1, <4>3 DEF Appends, Disks
            <4>5. job'.recs = old.idx.recs /\ job'.stage = "write"
                BY <4>1, <4>4 DEF Becomes
            <4> QED
                BY <1>1, <1>3, <4>2, <4>5 DEF Packed, Midway, Keys, KeysIn
        <3> QED
            BY <3>1, <3>2
    <2>2. CASE SkipRecord
        <3>1. job.stage = "write" /\ job'.stage = "write" /\ job'.recs = job.recs
            BY <2>2, MoveIs DEF SkipRecord, Writing, Becomes
        <3> QED
            BY <1>1, <1>3, <3>1 DEF Packed, Midway
    <2>3. CASE AppendRecord
        <3>1. job.stage = "write" /\ job'.stage = "write" /\ job.recs \subseteq job'.recs
            BY <2>3, MoveIs DEF AppendRecord, Writing, Becomes
        <3> QED
            BY <1>1, <1>3, <3>1 DEF Packed, Midway, KeysIn
    <2>4. CASE TruncateIndex
        <3>1. job.stage = "write" /\ job'.stage = "index" /\ job'.recs = job.recs
            BY <2>4, MoveIs DEF TruncateIndex, Becomes
        <3> QED
            BY <1>1, <1>3, <3>1 DEF Packed, Midway
    <2>5. CASE WriteIndex
        <3>1. job.stage = "index" /\ job'.stage = "end" /\ new.idx.recs = job.recs
            BY <2>5, MoveIs DEF WriteIndex, Touches, Becomes
        <3> QED
            BY <1>1, <1>3, <3>1 DEF Packed, Midway, Keys, KeysIn
    <2> QED
        BY <2>1, <2>2, <2>3, <2>4, <2>5 DEF Moves
<1> QED
    BY <1>2, <1>3

LEMMA MoveAchieved ==
    ASSUME PackTypeOK, Where, Disks, Asked, Written, Achieved, Moves
    PROVE  Achieved'
<1>1. /\ pc' = pc /\ run' = run /\ done_layers' = done_layers /\ done_globals' = done_globals
      /\ Converting' = Converting /\ ReadyLayers' = ReadyLayers /\ ~Between
      /\ \A s \in Stores : s # job.store => disk'[s] = disk[s]
    BY MoveFrame, MoveWhere DEF progress, Converting
<1>2. ASSUME Converting  PROVE Converted'
    <2>1. /\ Packed("trunk") \subseteq Packed("trunk")'
          /\ Packed("experts") \subseteq Packed("experts")'
        BY <1>2, MovePacked
    <2>2. Converted
        BY <1>2 DEF Achieved
    <2>3. ASSUME NEW L, LayerPacked(L)  PROVE LayerPacked(L)'
        BY <1>1, <2>1, <2>3 DEF LayerPacked
    <2> QED
        BY <1>1, <2>1, <2>2, <2>3 DEF Converted
<1>3. pc = "experts" => disk'["trunk"] = disk["trunk"]
    BY <1>1 DEF Where, Stores
<1>4. run.prog = "prepare" /\ pc # "vision" => VisionPacked'
    <2>1. SUFFICES ASSUME run.prog = "prepare" /\ pc # "vision"  PROVE VisionPacked'
        OBVIOUS
    <2>2. pc \in {"global", "layer", "experts"}
        BY <1>1, <2>1 DEF PackTypeOK, Where, Between, TextPcs
    <2>3. disk'["vision"] = disk["vision"]
        BY <1>1, <2>2 DEF Where, Stores
    <2> QED
        BY <2>1, <2>3 DEF Achieved, VisionPacked
<1>5. run.prog = "full" /\ pc # "full_trunk" => disk'["trunk"] = disk["trunk"]
    BY <1>1 DEF PackTypeOK, Where, Between, TextPcs, Converting, Stores
<1>6. run.prog = "full" /\ pc \in {"vision", "frontend"} => disk'["experts"] = disk["experts"]
    BY <1>1 DEF Where, Between, Stores
<1>7. pc # "frontend"
    BY <1>1 DEF Between
<1> QED
    BY <1>1, <1>2, <1>3, <1>4, <1>5, <1>6, <1>7 DEF Achieved

LEMMA MoveInv ==
    ASSUME PackInv, Moves
    PROVE  PackInv'
BY MoveTypes, MoveWhere, MoveHeld, MoveDisks, MoveAsked, MoveWritten, MoveAchieved DEF PackInv

-----------------------------------------------------------------------------
(* Steps that end a program. *)

\* Nothing is asked of a packer that does not run, nor of a program.
LEMMA IdleInv ==
    ASSUME pc' = "idle", job' = NoJob, Fresh', run'.prog = "none"
    PROVE  Where' /\ Asked' /\ Written' /\ Achieved' /\ Held'
<1>1. job'.stage = "none" /\ job'.todo = <<>>
    BY DEF NoJob
<1>2. Where'
    BY <1>1 DEF Where, TextPcs, Between, Converting
<1>3. Asked'
    BY <1>1 DEF Asked, Distinct, Set, Midway
<1>4. Written'
    BY <1>1 DEF Written, Midway, Converting
<1>5. Achieved'
    BY DEF Achieved, Converting
<1>6. Held'
    BY DEF Held, Converting
<1> QED
    BY <1>2, <1>3, <1>4, <1>5, <1>6

LEMMA EndRunIs ==
    ASSUME PackTypeOK, NEW result \in {"ready", "failed", "killed"}, EndRun(result)
    PROVE  /\ pc' = "idle" /\ job' = NoJob /\ Fresh' /\ run'.prog = "none"
           /\ run'.result = result
           /\ run' \in [prog : {"none", "prepare", "text", "full", "packer"}, format : AnyFormat,
                        rev : Revs, keep : BOOLEAN,
                        result : {"none", "ready", "failed", "killed"}]
           /\ NoJob \in [store : Stores, todo : Seq(Names), append : BOOLEAN,
                         recs : SUBSET Recs,
                         stage : {"none", "open", "write", "index", "end"}]
           /\ si' \in 0 .. NShards /\ loaded' \in SUBSET Shards
           /\ done_layers' \in SUBSET Layers /\ done_globals' \in SUBSET Globals
<1>1. NoJob \in [store : Stores, todo : Seq(Names), append : BOOLEAN, recs : SUBSET Recs,
                 stage : {"none", "open", "write", "index", "end"}]
    BY DEF NoJob, Stores
<1>2. 0 \in 0 .. NShards
    BY CheckpointAssumption
<1>3. run \in [prog : {"none", "prepare", "text", "full", "packer"}, format : AnyFormat,
               rev : Revs, keep : BOOLEAN, result : {"none", "ready", "failed", "killed"}]
    BY DEF PackTypeOK
<1>4. run' = [run EXCEPT !.prog = "none", !.result = result]
    BY DEF EndRun
<1> QED
    BY <1>1, <1>2, <1>3, <1>4 DEF EndRun, Fresh

\* A program ends, and the files are as they were.
LEMMA EndInv ==
    ASSUME PackInv, NEW result \in {"ready", "failed", "killed"}, EndRun(result),
           work' \in SUBSET Shards, UNCHANGED <<disk, stale>>
    PROVE  PackInv'
<1>1. Where' /\ Asked' /\ Written' /\ Achieved' /\ Held'
    BY EndRunIs, IdleInv DEF PackInv
<1>2. Disks'
    BY DEF PackInv, Disks
<1>3. PackTypeOK'
    BY EndRunIs DEF PackInv, PackTypeOK
<1> QED
    BY <1>1, <1>2, <1>3 DEF PackInv

LEMMA KillInv ==
    ASSUME PackInv, Kill
    PROVE  PackInv'
<1>1. EndRun("killed") /\ UNCHANGED <<work, stale>> /\ PackTypeOK
    BY DEF Kill, PackInv
<1>2. CASE UNCHANGED disk
    BY <1>1, <1>2, EndInv DEF PackTypeOK
<1>3. CASE disk' = [disk EXCEPT ![job.store].bin = Append(@, Partial)]
    <2> DEFINE old == disk[job.store]
    <2>1. /\ job.store \in Stores /\ old.bin \in Seq(Entries) /\ old.idx \in Index
          /\ disk[job.store] = [bin |-> old.bin, idx |-> old.idx]
          /\ disk \in [Stores -> [bin : Seq(Entries), idx : Index]]
        BY <1>1, JobTypes DEF PackTypeOK
    <2>2. Touches(Append(old.bin, Partial), old.idx)
        <3>1. disk = [s \in Stores |-> disk[s]]
            BY <2>1
        <3> QED
            BY <1>3, <2>1, <3>1 DEF Touches
    <2>3. Partial \in Entries
        BY DEF Partial, Entry, Entries, Revs
    <2>4. Append(old.bin, Partial) \in Seq(Entries)
        BY <2>1, <2>3
    <2>5. disk' \in [Stores -> [bin : Seq(Entries), idx : Index]]
        BY <1>1, <2>1, <2>2, <2>4, TouchTypes
    <2>6. PackTypeOK'
        BY <1>1, <2>5, EndRunIs DEF PackTypeOK
    <2>7. \A s \in Stores : disk'[s].idx = disk[s].idx
        BY <2>2 DEF Touches
    <2>8. ASSUME NEW s \in Stores, Whole(disk[s].idx.recs, disk[s].bin)
          PROVE  Whole(disk'[s].idx.recs, disk'[s].bin)
        <3>1. CASE s # job.store
            BY <2>2, <2>8, <3>1 DEF Touches
        <3>2. CASE s = job.store
            <4>1. disk'[s].bin = Append(old.bin, Partial) /\ disk'[s].idx = old.idx
                BY <2>2, <3>2 DEF Touches
            <4>2. Whole(old.idx.recs, old.bin)
                BY <2>8, <3>2
            <4> HIDE DEF old
            <4> QED
                BY <2>1, <2>3, <4>1, <4>2, WholeKept
        <3> QED
            BY <3>1, <3>2
    <2>9. Disks'
        BY <1>1, <2>7, <2>8 DEF PackInv, Disks
    <2> QED
        BY <1>1, <2>6, <2>9, EndRunIs, IdleInv DEF PackInv
<1> QED
    BY <1>2, <1>3 DEF Kill

-----------------------------------------------------------------------------
(* Shards that records need, and what a program asks of a packer. *)

LEMMA Needs ==
    /\ \A k \in Names : Source[k] \subseteq Shards /\ Source[k] # {}
    /\ \A ks \in SUBSET Names : ShardsOf(ks) \subseteq Shards
<1>1. \A k \in Names : Source[k] \in (SUBSET Shards) \ {{}}
    BY CheckpointAssumption DEF Names
<1> QED
    BY <1>1 DEF ShardsOf

LEMMA LayerNeeds ==
    ASSUME NEW L \in Layers, NEW format
    PROVE  LayerReq(L, format) \subseteq Shards /\ LayerReq(L, format) # {}
<1> DEFINE ks == Set(TensorSpec(L)) \cup IF format = "none" THEN {} ELSE Set(ExpertSpec(L))
<1>1. ks \subseteq Names
    BY TensorsAre, ExpertsAre
<1>2. PICK k \in ks : k \in Names
    BY <1>1, TensorsAre
<1>3. LayerReq(L, format) = ShardsOf(ks)
    BY DEF LayerReq
<1> HIDE DEF ks
<1>4. Source[k] \subseteq ShardsOf(ks)
    BY <1>2 DEF ShardsOf
<1> QED
    BY <1>1, <1>2, <1>3, <1>4, Needs

LEMMA GlobalNeeds ==
    ASSUME NEW g \in Globals
    PROVE  GlobalReq(g) = Source[GlobalKey(g)] /\ GlobalReq(g) \subseteq Shards /\ GlobalReq(g) # {}
<1>1. GlobalReq(g) = Source[GlobalKey(g)]
    BY DEF GlobalReq, ShardsOf
<1> QED
    BY <1>1, GlobalsAre, Needs

LEMMA AllAre ==
    ASSUME NEW format
    PROVE  AllShards(format) \subseteq Shards
<1> DEFINE layers  == UNION {LayerReq(L, format) : L \in Layers}
           globals == UNION {GlobalReq(g) : g \in Globals}
<1>1. layers \subseteq Shards
    BY LayerNeeds
<1>2. globals \subseteq Shards
    BY GlobalNeeds
<1> QED
    BY <1>1, <1>2 DEF AllShards

LEMMA StillIs ==
    ASSUME PackTypeOK
    PROVE  Still \subseteq AllShards(run.format) /\ Still \subseteq Shards
<1>1. Still \subseteq AllShards(run.format)
    BY DEF Still, AllShards
<1> QED
    BY <1>1, AllAre

\* The layer and the global a program takes next.
LEMMA LeastReady ==
    ASSUME PackTypeOK
    PROVE  /\ ReadyGlobals # {} => Least(ReadyGlobals) \in ReadyGlobals
           /\ ReadyLayers # {} => Least(ReadyLayers) \in ReadyLayers
<1>1. ReadyGlobals \in SUBSET (0 .. 3)
    BY DEF ReadyGlobals, Globals
<1>2. ReadyLayers \in SUBSET (0 .. LastLayer) /\ LastLayer \in Nat
    BY CheckpointAssumption DEF ReadyLayers, Layers
<1> QED
    BY <1>1, <1>2, LeastIs, 3 \in Nat

LEMMA StartIs ==
    ASSUME NEW s \in Stores, NEW todo \in Seq(Names), NEW append \in BOOLEAN,
           Start(s, todo, append)
    PROVE  /\ job' \in [store : Stores, todo : Seq(Names), append : BOOLEAN,
                        recs : SUBSET Recs,
                        stage : {"none", "open", "write", "index", "end"}]
           /\ job'.store = s /\ job'.todo = todo /\ job'.append = append /\ job'.stage = "open"
BY DEF Start

\* A packer that has just been started.
LEMMA StartAsks ==
    ASSUME NEW s \in Stores, NEW todo \in Seq(Names), NEW append \in BOOLEAN,
           Start(s, todo, append), Distinct(todo), Wanted' \subseteq Set(todo),
           pc' # "packer" => Set(todo) \subseteq Wanted',
           Converting' /\ pc' # "vision" => append = Appends(s)'
    PROVE  Asked' /\ Written' /\ \A x : Packed(x)' = Keys(disk'[x].idx)
<1>1. job'.store = s /\ job'.todo = todo /\ job'.append = append /\ job'.stage = "open"
    BY StartIs
<1>2. ~Midway'
    BY <1>1 DEF Midway
<1>3. Asked'
    BY <1>1, <1>2 DEF Asked
<1>4. Written'
    BY <1>1, <1>2 DEF Written
<1> QED
    BY <1>2, <1>3, <1>4 DEF Packed

LEMMA NoJobAsks ==
    ASSUME job' = NoJob, Between'
    PROVE  Asked' /\ Written' /\ \A x : Packed(x)' = Keys(disk'[x].idx)
<1>1. job'.stage = "none" /\ job'.todo = <<>>
    BY DEF NoJob
<1>2. Wanted' = {} /\ pc' # "vision"
    BY DEF Wanted, Between
<1>3. ~Midway'
    BY <1>1 DEF Midway
<1>4. Asked'
    BY <1>1, <1>2, <1>3 DEF Asked, Distinct, Set
<1>5. Written'
    BY <1>1, <1>2, <1>3 DEF Written
<1> QED
    BY <1>3, <1>4, <1>5 DEF Packed

\* A program that has seen no shard holds none.
LEMMA FreshHolds ==
    ASSUME Fresh', pc' # "frontend"
    PROVE  Holding'
<1>1. AllShards(run'.format) \subseteq Shards
    BY AllAre
<1>2. Still' \subseteq AllShards(run'.format)
    BY DEF Still, AllShards
<1>3. \A x \in Shards : ~(x <= si')
    BY CheckpointAssumption DEF Shards, Fresh
<1>4. ReadyLayers' = {}
    BY LayerNeeds DEF ReadyLayers, Fresh
<1>5. ReadyGlobals' = {}
    BY GlobalNeeds DEF ReadyGlobals, Fresh
<1> QED
    BY <1>1, <1>2, <1>3, <1>4, <1>5 DEF Holding, Fresh

\* What a user starts begins with nothing seen and nothing done.
LEMMA IdleIs ==
    ASSUME PackInv, run.prog = "none"
    PROVE  pc = "idle" /\ job = NoJob /\ Fresh
BY DEF PackInv, Where, TextPcs, Between

LEMMA PrepareInv ==
    ASSUME PackInv, NEW rev \in Revisions, NEW keep \in BOOLEAN, StartPrepare(rev, keep)
    PROVE  PackInv'
<1> DEFINE r == [prog |-> "prepare", format |-> "q8", rev |-> rev, keep |-> keep,
                 result |-> "none"]
<1>1. /\ run.prog = "none" /\ run' = r /\ work' = work \cup VisionShards /\ pc' = "vision"
      /\ Start("vision", VisionSpec, FALSE) /\ UNCHANGED <<disk, stamp, progress, stale>>
    BY DEF StartPrepare, Begin
<1>2. Fresh /\ PackTypeOK /\ Fresh'
    BY <1>1, IdleIs DEF PackInv, Fresh, progress
<1>3. VisionShards \subseteq Shards
    BY VisionIs, Needs DEF VisionShards
<1>4. "vision" \in Stores /\ FALSE \in BOOLEAN
    BY DEF Stores
<1>5. /\ job' \in [store : Stores, todo : Seq(Names), append : BOOLEAN, recs : SUBSET Recs,
                   stage : {"none", "open", "write", "index", "end"}]
      /\ job'.store = "vision" /\ job'.append = FALSE /\ job'.stage = "open"
    BY <1>1, <1>4, VisionIs, StartIs
<1>6. PackTypeOK'
    BY <1>1, <1>2, <1>3, <1>5 DEF PackTypeOK, progress, Revs, AnyFormat
<1>7. Where'
    BY <1>1, <1>2, <1>5 DEF Where, TextPcs, Converting, Between
<1>8. Asked' /\ Written'
    BY <1>1, <1>4, VisionIs, StartAsks DEF Wanted
<1>9. Disks'
    BY <1>1 DEF PackInv, Disks
<1>10. Achieved'
    BY <1>1, <1>2 DEF Achieved, Converted, Fresh
<1>11. Held'
    <2>1. Holding'
        BY <1>1, <1>2, FreshHolds
    <2> QED
        BY <1>1, <2>1 DEF Held
<1> QED
    BY <1>6, <1>7, <1>8, <1>9, <1>10, <1>11 DEF PackInv

LEMMA TextInv ==
    ASSUME PackInv, NEW format \in Formats, NEW rev \in Revisions, NEW keep \in BOOLEAN,
           StartText(format, rev, keep)
    PROVE  PackInv'
<1> DEFINE r == [prog |-> "text", format |-> format, rev |-> rev, keep |-> keep,
                 result |-> "none"]
<1>1. /\ run.prog = "none" /\ run' = r /\ pc' = "shard"
      /\ UNCHANGED <<work, disk, stamp, job, progress, stale>>
    BY DEF StartText, Begin
<1>2. Fresh /\ PackTypeOK /\ Fresh' /\ job = NoJob
    BY <1>1, IdleIs DEF PackInv, Fresh, progress
<1>3. format \in AnyFormat
    BY CheckpointAssumption DEF AnyFormat
<1>4. PackTypeOK'
    BY <1>1, <1>2, <1>3 DEF PackTypeOK, progress, Revs, TextPcs
<1>5. Where'
    BY <1>1, <1>2 DEF Where, TextPcs, Converting, Between, NoJob
<1>6. Asked' /\ Written'
    BY <1>1, <1>2, NoJobAsks DEF Between
<1>7. Disks'
    BY <1>1 DEF PackInv, Disks
<1>8. Achieved'
    BY <1>1, <1>2 DEF Achieved, Converted, Fresh
<1>9. Held'
    <2>1. Holding'
        BY <1>1, <1>2, FreshHolds
    <2> QED
        BY <1>1, <2>1 DEF Held
<1> QED
    BY <1>4, <1>5, <1>6, <1>7, <1>8, <1>9 DEF PackInv

LEMMA FullInv ==
    ASSUME PackInv, NEW format \in Formats, StartFull(format)
    PROVE  PackInv'
<1> DEFINE r == [prog |-> "full", format |-> format, rev |-> "local", keep |-> TRUE,
                 result |-> "none"]
<1>1. /\ run.prog = "none" /\ run' = r /\ pc' = "full_trunk" /\ format # "none"
      /\ Start("trunk", AllTrunk, FALSE)
      /\ UNCHANGED <<work, disk, stamp, progress, stale>>
    BY DEF StartFull, Begin
<1>2. Fresh /\ PackTypeOK /\ Fresh'
    BY <1>1, IdleIs DEF PackInv, Fresh, progress
<1>3. format \in AnyFormat
    BY CheckpointAssumption DEF AnyFormat
<1>4. "trunk" \in Stores /\ FALSE \in BOOLEAN
    BY DEF Stores
<1>5. /\ job' \in [store : Stores, todo : Seq(Names), append : BOOLEAN, recs : SUBSET Recs,
                   stage : {"none", "open", "write", "index", "end"}]
      /\ job'.store = "trunk" /\ job'.append = FALSE /\ job'.stage = "open"
    BY <1>1, <1>4, AllTrunkIs, StartIs
<1>6. PackTypeOK'
    BY <1>1, <1>2, <1>3, <1>5 DEF PackTypeOK, progress, Revs
<1>7. Where'
    BY <1>1, <1>2, <1>5 DEF Where, TextPcs, Converting, Between
<1>8. Asked' /\ Written'
    BY <1>1, <1>4, AllTrunkIs, StartAsks DEF Wanted, Converting
<1>9. Disks'
    BY <1>1 DEF PackInv, Disks
<1>10. Achieved'
    BY <1>1 DEF Achieved, Converting
<1>11. Held'
    BY <1>1 DEF Held, Converting
<1> QED
    BY <1>6, <1>7, <1>8, <1>9, <1>10, <1>11 DEF PackInv

LEMMA PackerInv ==
    ASSUME PackInv, NEW s \in {"trunk", "experts"}, NEW L \in Layers,
           NEW append \in BOOLEAN, NEW format \in Formats, StartPacker(s, L, format, append)
    PROVE  PackInv'
<1> DEFINE r == [prog |-> "packer", format |-> format, rev |-> "local", keep |-> TRUE,
                 result |-> "none"]
           todo == IF s = "trunk" THEN TensorSpec(L) ELSE ExpertSpec(L)
<1>1. /\ run.prog = "none" /\ run' = r /\ pc' = "packer" /\ Start(s, todo, append)
      /\ UNCHANGED <<work, disk, stamp, progress, stale>>
    BY DEF StartPacker, Begin
<1>2. Fresh /\ PackTypeOK /\ Fresh'
    BY <1>1, IdleIs DEF PackInv, Fresh, progress
<1>3. format \in AnyFormat
    BY CheckpointAssumption DEF AnyFormat
<1>4. s \in Stores /\ todo \in Seq(Names) /\ Distinct(todo) /\ s # "vision"
    BY TensorsAre, ExpertsAre DEF Stores
<1> HIDE DEF todo
<1>5. /\ job' \in [store : Stores, todo : Seq(Names), append : BOOLEAN, recs : SUBSET Recs,
                   stage : {"none", "open", "write", "index", "end"}]
      /\ job'.store = s /\ job'.stage = "open"
    BY <1>1, <1>4, StartIs
<1>6. PackTypeOK'
    BY <1>1, <1>2, <1>3, <1>5 DEF PackTypeOK, progress, Revs
<1>7. Where'
    BY <1>1, <1>2, <1>4, <1>5 DEF Where, TextPcs, Converting, Between
<1>8. Asked' /\ Written'
    <2>1. Wanted' = {} /\ ~Converting'
        BY <1>1 DEF Wanted, Converting
    <2> QED
        BY <1>1, <1>4, <2>1, StartAsks
<1>9. Disks'
    BY <1>1 DEF PackInv, Disks
<1>10. Achieved'
    BY <1>1 DEF Achieved, Converting
<1>11. Held'
    BY <1>1 DEF Held, Converting
<1> QED
    BY <1>6, <1>7, <1>8, <1>9, <1>10, <1>11 DEF PackInv

LEMMA FetchInv ==
    ASSUME PackInv, NEW names \in SUBSET Names, FetchReal(names)
    PROVE  PackInv'
<1>1. /\ run.prog = "none" /\ work' = work \cup ShardsOf(names)
      /\ UNCHANGED <<disk, stamp, run, pc, job, progress, stale>>
    BY DEF FetchReal
<1>2. pc' = "idle" /\ job' = NoJob /\ Fresh' /\ run'.prog = "none"
    BY <1>1, IdleIs DEF Fresh, progress
<1>3. Where' /\ Asked' /\ Written' /\ Achieved' /\ Held'
    BY <1>2, IdleInv
<1>4. PackTypeOK'
    BY <1>1, Needs DEF PackInv, PackTypeOK, progress
<1>5. Disks'
    BY <1>1 DEF PackInv, Disks
<1> QED
    BY <1>3, <1>4, <1>5 DEF PackInv

LEMMA UserInv ==
    ASSUME PackInv, User
    PROVE  PackInv'
<1>1. ASSUME NEW L \in Layers
      PROVE  MlpNames(L) \in SUBSET Names /\ LayerNames(L) \in SUBSET Names
    BY TensorsAre, ExpertsAre DEF MlpNames, LayerNames
<1>2. ASSUME NEW Ls \in SUBSET Layers  PROVE LayersNames(Ls) \in SUBSET Names
    BY <1>1 DEF LayersNames
<1>3. ASSUME NEW rev \in Revisions, NEW keep \in BOOLEAN,
             \/ StartPrepare(rev, keep)
             \/ \E format \in Formats : StartText(format, rev, keep)
      PROVE  PackInv'
    BY <1>3, PrepareInv, TextInv
<1>4. ASSUME NEW format \in Formats, StartFull(format)  PROVE PackInv'
    BY <1>4, FullInv
<1>5. ASSUME NEW s \in {"trunk", "experts"}, NEW L \in {l \in Layers : IsMoe(l)},
             NEW append \in BOOLEAN, NEW format \in Formats \ {"none"},
             StartPacker(s, L, format, append)
      PROVE  PackInv'
    BY <1>5, PackerInv
<1>6. ASSUME NEW L \in Layers, FetchReal(MlpNames(L)) \/ FetchReal(LayerNames(L))
      PROVE  PackInv'
    BY <1>1, <1>6, FetchInv
<1>7. ASSUME NEW Ls \in SUBSET Layers, FetchReal(LayersNames(Ls))  PROVE PackInv'
    BY <1>2, <1>7, FetchInv
<1> QED
    BY <1>3, <1>4, <1>5, <1>6, <1>7 DEF User

-----------------------------------------------------------------------------
(* Steps of the converter.  They leave the stores alone. *)

\* A step from one place of the converter's loop to another.
Loops == /\ Converting /\ pc' \in TextPcs /\ ~Midway
         /\ UNCHANGED <<disk, run, stale>>

LEMMA LoopConverted ==
    ASSUME Converted, Loops, UNCHANGED <<done_layers, done_globals>>,
           \A x : Packed(x)' = Keys(disk'[x].idx)
    PROVE  Converted'
<1>1. \A x : Packed(x)' = Packed(x)
    BY DEF Loops, Packed
<1>2. \A L : LayerPacked(L)' = LayerPacked(L)
    BY <1>1 DEF LayerPacked, Loops
<1> QED
    BY <1>1, <1>2 DEF Converted

LEMMA LoopAchieved ==
    ASSUME Achieved, Loops, Converted', pc # "vision",
           pc' = "experts" => Set(TensorSpec(Least(ReadyLayers')))
                                  \subseteq Keys(disk["trunk"].idx)
    PROVE  Achieved'
<1>1. run.prog = "prepare" => VisionPacked'
    BY DEF Achieved, Loops, VisionPacked
<1>2. pc' # "frontend" /\ Converting' /\ run.prog # "full" /\ run' = run /\ disk' = disk
    BY DEF Loops, TextPcs, Converting
<1> QED
    BY <1>1, <1>2 DEF Achieved

LEMMA LoopHeld ==
    ASSUME Held, Loops, UNCHANGED <<work, progress>>, pc' # "shard"
    PROVE  Held'
<1>1. Holding /\ pc' # "vision" /\ pc' # "frontend"
    BY DEF Held, Loops, TextPcs
<1>2. Still' = Still
    BY DEF Still, Loops, progress
<1>3. Holding'
    BY <1>1, <1>2 DEF Holding, Loops, progress
<1> QED
    BY <1>1, <1>3 DEF Held

LEMMA LoopDisks ==
    ASSUME Disks, Loops
    PROVE  Disks'
BY DEF Disks, Loops

LEMMA LoopWhere ==
    ASSUME PackTypeOK, Where, Loops,
           pc' \in {"shard", "pack"} => job' = NoJob,
           pc' \in {"global", "layer", "experts"} => job'.stage = "open",
           pc' \in {"global", "layer"} => job'.store = "trunk",
           pc' = "experts" => job'.store = "experts" /\ run.format # "none",
           pc' = "global" => ReadyGlobals' # {},
           pc' \in {"layer", "experts"} => ReadyLayers' # {}
    PROVE  Where'
<1>1. run' = run /\ run.prog \in {"prepare", "text"} /\ Converting'
    BY DEF Loops, Converting
<1>2. pc # "idle" /\ run.result = "none" /\ (run.prog = "prepare" => run.format # "none")
    BY <1>1 DEF Where
<1>3. pc' \in {"shard", "pack", "global", "layer", "experts"}
    BY DEF Loops, TextPcs
<1> QED
    BY <1>1, <1>2, <1>3 DEF Where, TextPcs, Between

\* A program that waits for no packer has no job.
LEMMA AtRest ==
    ASSUME PackTypeOK, Where, pc \in {"shard", "pack"}
    PROVE  job = NoJob /\ ~Midway /\ Converting
<1>1. job = NoJob /\ Converting
    BY DEF Where, Between, TextPcs
<1> QED
    BY <1>1 DEF NoJob, Midway

LEMMA NextShardInv ==
    ASSUME PackInv, NextShard
    PROVE  PackInv'
<1> DEFINE A == AllShards(run.format)
           next == {s \in A : s > si}
<1>1. /\ pc = "shard" /\ next # {} /\ si' = Least(next) /\ work' = work \cup {si'}
      /\ loaded' = loaded \cup {si'} /\ pc' = "pack"
      /\ UNCHANGED <<disk, stamp, run, job, done_layers, done_globals, stale>>
    BY DEF NextShard
<1>2. PackTypeOK /\ Where /\ Disks /\ Achieved /\ Held
    BY DEF PackInv
<1>3. job = NoJob /\ ~Midway /\ Converting /\ Holding
    BY <1>1, <1>2, AtRest DEF Held
<1>4. Loops
    BY <1>1, <1>3 DEF Loops, TextPcs
<1>5. /\ A \subseteq Shards /\ Still \subseteq A /\ si \in Int
      /\ \A x \in Shards : x \in 0 .. NShards /\ x \in Int
    BY <1>2, AllAre, StillIs, CheckpointAssumption DEF PackTypeOK, Shards
<1>6. /\ si' \in next /\ \A x \in next : si' <= x
    <2>1. next \in SUBSET (0 .. NShards) /\ NShards \in Nat
        BY <1>5, CheckpointAssumption
    <2> HIDE DEF next
    <2> QED
        BY <1>1, <2>1, LeastIs
<1>7. si' \in A /\ si' \in Shards /\ si < si' /\ \A x \in A : x <= si' => x <= si \/ x = si'
    BY <1>5, <1>6
<1>8. PackTypeOK'
    BY <1>1, <1>2, <1>5, <1>7 DEF PackTypeOK, TextPcs
<1>9. Where'
    BY <1>1, <1>2, <1>3, <1>4, LoopWhere
<1>10. Asked' /\ Written' /\ \A x : Packed(x)' = Keys(disk'[x].idx)
    BY <1>1, <1>3, NoJobAsks DEF Between
<1>11. Achieved'
    BY <1>1, <1>2, <1>3, <1>4, <1>10, LoopConverted, LoopAchieved DEF Achieved
<1>12. Held'
    <2>1. Still' = Still
        BY <1>1 DEF Still
    <2>2. /\ loaded \subseteq work \cap A /\ \A s \in loaded : s <= si
          /\ \A s \in Still : s <= si => s \in loaded
          /\ ~run.keep => \A s \in work \cap A : s <= si => s \in loaded
        BY <1>3 DEF Holding
    <2>3. loaded' \subseteq work' \cap A /\ \A s \in loaded' : s <= si'
        BY <1>1, <1>5, <1>7, <2>2
    <2>4. \A s \in Still : s <= si' => s \in loaded'
        BY <1>1, <1>5, <1>7, <2>2
    <2>5. ~run.keep => \A s \in work' \cap A : s <= si' => s \in loaded'
        BY <1>1, <1>5, <1>7, <2>2
    <2>6. Holding'
        BY <1>1, <2>1, <2>3, <2>4, <2>5 DEF Holding
    <2> QED
        BY <1>1, <2>6 DEF Held
<1> QED
    BY <1>2, <1>4, <1>8, <1>9, <1>10, <1>11, <1>12, LoopDisks DEF PackInv

LEMMA PackGlobalInv ==
    ASSUME PackInv, PackGlobal
    PROVE  PackInv'
<1> DEFINE g == Least(ReadyGlobals)
           todo == <<GlobalKey(g)>>
<1>1. /\ pc = "pack" /\ ReadyGlobals # {} /\ pc' = "global"
      /\ Start("trunk", todo, Appends("trunk"))
      /\ UNCHANGED <<work, disk, stamp, run, progress, stale>>
    BY DEF PackGlobal
<1>2. PackTypeOK /\ Where /\ Disks /\ Achieved /\ Held
    BY DEF PackInv
<1>3. ~Midway /\ Converting
    BY <1>1, <1>2, AtRest
<1>4. Loops
    BY <1>1, <1>3 DEF Loops, TextPcs
<1>5. g \in Globals
    BY <1>1, <1>2, LeastReady DEF ReadyGlobals
<1>6. todo \in Seq(Names) /\ Distinct(todo) /\ Set(todo) = {GlobalKey(g)}
    BY <1>5, GlobalsAre DEF Distinct, Set
<1>7. "trunk" \in Stores /\ Appends("trunk") \in BOOLEAN
    BY DEF Stores, Appends
<1>8. ReadyGlobals' = ReadyGlobals
    BY <1>1 DEF ReadyGlobals, progress
<1>9. Wanted' = {GlobalKey(g)} /\ Appends("trunk")' = Appends("trunk")
    BY <1>1, <1>8 DEF Wanted, Appends
<1> HIDE DEF g, todo
<1>10. /\ job' \in [store : Stores, todo : Seq(Names), append : BOOLEAN, recs : SUBSET Recs,
                    stage : {"none", "open", "write", "index", "end"}]
       /\ job'.store = "trunk" /\ job'.stage = "open"
    BY <1>1, <1>6, <1>7, StartIs
<1>11. PackTypeOK'
    BY <1>1, <1>2, <1>10 DEF PackTypeOK, progress, TextPcs
<1>12. Where'
    BY <1>1, <1>2, <1>4, <1>8, <1>10, LoopWhere
<1>13. Asked' /\ Written' /\ \A x : Packed(x)' = Keys(disk'[x].idx)
    BY <1>1, <1>6, <1>7, <1>9, StartAsks
<1>14. Achieved'
    BY <1>1, <1>2, <1>3, <1>4, <1>13, LoopConverted, LoopAchieved DEF Achieved, progress
<1>15. Held'
    BY <1>1, <1>2, <1>4, LoopHeld
<1> QED
    BY <1>2, <1>4, <1>11, <1>12, <1>13, <1>14, <1>15, LoopDisks DEF PackInv

LEMMA PackLayerInv ==
    ASSUME PackInv, PackLayer
    PROVE  PackInv'
<1> DEFINE L == Least(ReadyLayers)
           todo == TensorSpec(L)
<1>1. /\ pc = "pack" /\ ReadyLayers # {} /\ pc' = "layer"
      /\ Start("trunk", todo, Appends("trunk"))
      /\ UNCHANGED <<work, disk, stamp, run, progress, stale>>
    BY DEF PackLayer
<1>2. PackTypeOK /\ Where /\ Disks /\ Achieved /\ Held
    BY DEF PackInv
<1>3. ~Midway /\ Converting
    BY <1>1, <1>2, AtRest
<1>4. Loops
    BY <1>1, <1>3 DEF Loops, TextPcs
<1>5. L \in Layers
    BY <1>1, <1>2, LeastReady DEF ReadyLayers
<1>6. todo \in Seq(Names) /\ Distinct(todo)
    BY <1>5, TensorsAre
<1>7. "trunk" \in Stores /\ Appends("trunk") \in BOOLEAN
    BY DEF Stores, Appends
<1>8. ReadyLayers' = ReadyLayers
    BY <1>1 DEF ReadyLayers, progress
<1>9. Wanted' = Set(todo) /\ Appends("trunk")' = Appends("trunk")
    BY <1>1, <1>8 DEF Wanted, Appends
<1> HIDE DEF L, todo
<1>10. /\ job' \in [store : Stores, todo : Seq(Names), append : BOOLEAN, recs : SUBSET Recs,
                    stage : {"none", "open", "write", "index", "end"}]
       /\ job'.store = "trunk" /\ job'.stage = "open"
    BY <1>1, <1>6, <1>7, StartIs
<1>11. PackTypeOK'
    BY <1>1, <1>2, <1>10 DEF PackTypeOK, progress, TextPcs
<1>12. Where'
    BY <1>1, <1>2, <1>4, <1>8, <1>10, LoopWhere
<1>13. Asked' /\ Written' /\ \A x : Packed(x)' = Keys(disk'[x].idx)
    BY <1>1, <1>6, <1>7, <1>9, StartAsks
<1>14. Achieved'
    BY <1>1, <1>2, <1>3, <1>4, <1>13, LoopConverted, LoopAchieved DEF Achieved, progress
<1>15. Held'
    BY <1>1, <1>2, <1>4, LoopHeld
<1> QED
    BY <1>2, <1>4, <1>11, <1>12, <1>13, <1>14, <1>15, LoopDisks DEF PackInv

LEMMA PackLayerExpertsInv ==
    ASSUME PackInv, PackLayerExperts
    PROVE  PackInv'
<1> DEFINE L == Least(ReadyLayers)
           todo == ExpertSpec(L)
<1>1. /\ pc = "layer" /\ job.stage = "end" /\ run.format # "none" /\ pc' = "experts"
      /\ Start("experts", todo, Appends("experts"))
      /\ UNCHANGED <<work, disk, stamp, run, progress, stale>>
    BY DEF PackLayerExperts
<1>2. PackTypeOK /\ Where /\ Disks /\ Asked /\ Achieved /\ Held
    BY DEF PackInv
<1>3. ~Midway /\ Converting /\ ReadyLayers # {} /\ job.store = "trunk"
    BY <1>1, <1>2 DEF Where, TextPcs, Midway
<1>4. Loops
    BY <1>1, <1>3 DEF Loops, TextPcs
<1>5. L \in Layers
    BY <1>2, <1>3, LeastReady DEF ReadyLayers
<1>6. todo \in Seq(Names) /\ Distinct(todo)
    BY <1>5, ExpertsAre
<1>7. "experts" \in Stores /\ Appends("experts") \in BOOLEAN
    BY DEF Stores, Appends
<1>8. ReadyLayers' = ReadyLayers
    BY <1>1 DEF ReadyLayers, progress
<1>9. Wanted' = Set(todo) /\ Appends("experts")' = Appends("experts")
    BY <1>1, <1>8 DEF Wanted, Appends
<1>10. Set(TensorSpec(L)) \subseteq Keys(disk["trunk"].idx)
    BY <1>1, <1>2, <1>3 DEF Asked, Wanted
<1> HIDE DEF L, todo
<1>11. /\ job' \in [store : Stores, todo : Seq(Names), append : BOOLEAN, recs : SUBSET Recs,
                    stage : {"none", "open", "write", "index", "end"}]
       /\ job'.store = "experts" /\ job'.stage = "open"
    BY <1>1, <1>6, <1>7, StartIs
<1>12. PackTypeOK'
    BY <1>1, <1>2, <1>11 DEF PackTypeOK, progress, TextPcs
<1>13. Where'
    BY <1>1, <1>2, <1>3, <1>4, <1>8, <1>11, LoopWhere
<1>14. Asked' /\ Written' /\ \A x : Packed(x)' = Keys(disk'[x].idx)
    BY <1>1, <1>6, <1>7, <1>9, StartAsks
<1>15. Converted'
    BY <1>1, <1>2, <1>3, <1>4, <1>14, LoopConverted DEF Achieved, progress
<1>16. Achieved'
    BY <1>1, <1>2, <1>4, <1>8, <1>10, <1>15, LoopAchieved DEF L
<1>17. Held'
    BY <1>1, <1>2, <1>4, LoopHeld
<1> QED
    BY <1>2, <1>4, <1>12, <1>13, <1>14, <1>16, <1>17, LoopDisks DEF PackInv

\* What is packed once more needs less.
LEMMA DoneHeld ==
    ASSUME PackTypeOK, Held, Loops, pc' = "pack", UNCHANGED <<work, si, loaded>>,
           done_layers \subseteq done_layers', done_globals \subseteq done_globals'
    PROVE  Held'
<1>1. Holding
    BY DEF Held, Loops
<1>2. Still' \subseteq Still
    BY DEF Still, Loops
<1>3. Holding'
    BY <1>1, <1>2 DEF Holding, Loops
<1> QED
    BY <1>3 DEF Held

LEMMA GlobalDoneInv ==
    ASSUME PackInv, GlobalDone
    PROVE  PackInv'
<1> DEFINE g == Least(ReadyGlobals)
<1>1. /\ pc = "global" /\ job.stage = "end" /\ pc' = "pack" /\ job' = NoJob
      /\ done_globals' = done_globals \cup {g}
      /\ UNCHANGED <<work, disk, stamp, run, si, loaded, done_layers, stale>>
    BY DEF GlobalDone
<1>2. PackTypeOK /\ Where /\ Disks /\ Asked /\ Achieved /\ Held
    BY DEF PackInv
<1>3. ~Midway /\ Converting /\ ReadyGlobals # {} /\ job.store = "trunk"
    BY <1>1, <1>2 DEF Where, TextPcs, Midway
<1>4. Loops
    BY <1>1, <1>3 DEF Loops, TextPcs
<1>5. g \in Globals
    BY <1>2, <1>3, LeastReady DEF ReadyGlobals
<1>6. GlobalKey(g) \in Keys(disk["trunk"].idx)
    BY <1>1, <1>2, <1>3 DEF Asked, Wanted
<1> HIDE DEF g
<1>7. PackTypeOK'
    <2>1. NoJob \in [store : Stores, todo : Seq(Names), append : BOOLEAN, recs : SUBSET Recs,
                     stage : {"none", "open", "write", "index", "end"}]
        BY DEF NoJob, Stores
    <2> QED
        BY <1>1, <1>2, <1>5, <2>1 DEF PackTypeOK, TextPcs
<1>8. Where'
    BY <1>1, <1>2, <1>4, LoopWhere
<1>9. Asked' /\ Written' /\ \A x : Packed(x)' = Keys(disk'[x].idx)
    BY <1>1, NoJobAsks DEF Between
<1>10. Converted'
    <2>1. \A x : Packed(x)' = Packed(x)
        BY <1>1, <1>3, <1>9 DEF Packed
    <2>2. \A L : LayerPacked(L)' = LayerPacked(L)
        BY <1>1, <2>1 DEF LayerPacked
    <2>3. GlobalKey(g) \in Packed("trunk")'
        BY <1>1, <1>6, <1>9
    <2>4. Converted
        BY <1>2, <1>3 DEF Achieved
    <2> QED
        BY <1>1, <2>1, <2>2, <2>3, <2>4 DEF Converted
<1>11. Achieved'
    BY <1>1, <1>2, <1>4, <1>10, LoopAchieved
<1>12. Held'
    BY <1>1, <1>2, <1>4, DoneHeld
<1> QED
    BY <1>2, <1>4, <1>7, <1>8, <1>9, <1>11, <1>12, LoopDisks DEF PackInv

LEMMA LayerDoneInv ==
    ASSUME PackInv, LayerDone
    PROVE  PackInv'
<1> DEFINE L == Least(ReadyLayers)
<1>1. /\ job.stage = "end" /\ pc' = "pack" /\ job' = NoJob
      /\ \/ pc = "experts"
         \/ pc = "layer" /\ (run.format = "none" \/ ~IsMoe(L))
      /\ done_layers' = done_layers \cup {L}
      /\ UNCHANGED <<work, disk, stamp, run, si, loaded, done_globals, stale>>
    BY DEF LayerDone
<1>2. PackTypeOK /\ Where /\ Disks /\ Asked /\ Achieved /\ Held
    BY DEF PackInv
<1>3. ~Midway /\ Converting /\ ReadyLayers # {}
    BY <1>1, <1>2 DEF Where, TextPcs, Midway
<1>4. Loops
    BY <1>1, <1>3 DEF Loops, TextPcs
<1>5. L \in Layers
    BY <1>2, <1>3, LeastReady DEF ReadyLayers
<1>6. /\ Set(TensorSpec(L)) \subseteq Keys(disk["trunk"].idx)
      /\ run.format # "none" => Set(ExpertSpec(L)) \subseteq Keys(disk["experts"].idx)
    <2>1. CASE pc = "experts"
        <3>1. job.store = "experts"
            BY <1>2, <2>1 DEF Where
        <3>2. Set(ExpertSpec(L)) \subseteq Keys(disk["experts"].idx)
            BY <1>1, <1>2, <2>1, <3>1 DEF Asked, Wanted
        <3> QED
            BY <1>2, <2>1, <3>2 DEF Achieved
    <2>2. CASE pc = "layer" /\ (run.format = "none" \/ ~IsMoe(L))
        <3>1. job.store = "trunk"
            BY <1>2, <2>2 DEF Where
        <3>2. Set(TensorSpec(L)) \subseteq Keys(disk["trunk"].idx)
            BY <1>1, <1>2, <2>2, <3>1 DEF Asked, Wanted
        <3>3. ~IsMoe(L) => Set(ExpertSpec(L)) = {}
            BY <1>5, ExpertsAre
        <3> HIDE DEF L
        <3> QED
            BY <2>2, <3>2, <3>3
    <2> QED
        BY <1>1, <2>1, <2>2
<1> HIDE DEF L
<1>7. PackTypeOK'
    <2>1. NoJob \in [store : Stores, todo : Seq(Names), append : BOOLEAN, recs : SUBSET Recs,
                     stage : {"none", "open", "write", "index", "end"}]
        BY DEF NoJob, Stores
    <2> QED
        BY <1>1, <1>2, <1>5, <2>1 DEF PackTypeOK, TextPcs
<1>8. Where'
    BY <1>1, <1>2, <1>4, LoopWhere
<1>9. Asked' /\ Written' /\ \A x : Packed(x)' = Keys(disk'[x].idx)
    BY <1>1, NoJobAsks DEF Between
<1>10. Converted'
    <2>1. \A x : Packed(x)' = Packed(x)
        BY <1>1, <1>3, <1>9 DEF Packed
    <2>2. \A M : LayerPacked(M)' = LayerPacked(M)
        BY <1>1, <2>1 DEF LayerPacked
    <2>3. ASSUME NEW M, M = L  PROVE LayerPacked(M)'
        BY <1>1, <1>6, <1>9, <2>3 DEF LayerPacked
    <2>4. Converted
        BY <1>2, <1>3 DEF Achieved
    <2> QED
        BY <1>1, <2>1, <2>2, <2>3, <2>4 DEF Converted
<1>11. Achieved'
    <2>1. pc # "vision"
        BY <1>1
    <2> QED
        BY <1>1, <1>2, <1>4, <1>10, <2>1, LoopAchieved
<1>12. Held'
    BY <1>1, <1>2, <1>4, DoneHeld
<1> QED
    BY <1>2, <1>4, <1>7, <1>8, <1>9, <1>11, <1>12, LoopDisks DEF PackInv

\* After the deletion it holds, of the shards seen, those still needed.
LEMMA DeleteConsumedInv ==
    ASSUME PackInv, DeleteConsumed
    PROVE  PackInv'
<1> DEFINE A == AllShards(run.format)
<1>1. /\ pc = "pack" /\ ReadyGlobals = {} /\ ReadyLayers = {}
      /\ work' = work \ Consumed /\ loaded' = loaded \ Consumed /\ pc' = "shard"
      /\ UNCHANGED <<disk, stamp, run, job, si, done_layers, done_globals, stale>>
    BY DEF DeleteConsumed
<1>2. PackTypeOK /\ Where /\ Disks /\ Achieved /\ Held
    BY DEF PackInv
<1>3. job = NoJob /\ ~Midway /\ Converting /\ Holding
    BY <1>1, <1>2, AtRest DEF Held
<1>4. Loops
    BY <1>1, <1>3 DEF Loops, TextPcs
<1>5. PackTypeOK'
    BY <1>1, <1>2 DEF PackTypeOK, TextPcs
<1>6. Where'
    BY <1>1, <1>2, <1>3, <1>4, LoopWhere
<1>7. Asked' /\ Written' /\ \A x : Packed(x)' = Keys(disk'[x].idx)
    BY <1>1, <1>3, NoJobAsks DEF Between
<1>8. Achieved'
    BY <1>1, <1>2, <1>3, <1>4, <1>7, LoopConverted, LoopAchieved DEF Achieved
<1>9. Held'
    <2>1. Still' = Still /\ A' = A
        BY <1>1 DEF Still
    <2>2. /\ loaded \subseteq work \cap A /\ \A s \in loaded : s <= si
          /\ \A s \in Still : s <= si => s \in loaded
          /\ ~run.keep => \A s \in work \cap A : s <= si => s \in loaded
        BY <1>3 DEF Holding
    <2>3. /\ Consumed \subseteq loaded /\ Consumed \cap Still = {}
          /\ ~run.keep => loaded \ Consumed \subseteq Still
        BY DEF Consumed
    <2>4. ReadyLayers' = {} /\ ReadyGlobals' = {}
        <3>1. loaded' \subseteq loaded
            BY <1>1
        <3> QED
            BY <1>1, <3>1 DEF ReadyLayers, ReadyGlobals
    <2>5. /\ loaded' \subseteq work' \cap A /\ \A s \in loaded' : s <= si
          /\ \A s \in Still : s <= si => s \in loaded'
          /\ ~run.keep => \A s \in work' \cap A : s <= si => s \in loaded'
          /\ ~run.keep => loaded' \subseteq Still
        BY <1>1, <2>2, <2>3
    <2>6. Holding'
        BY <1>1, <2>1, <2>4, <2>5 DEF Holding
    <2> QED
        BY <1>1, <2>6 DEF Held
<1> QED
    BY <1>2, <1>4, <1>5, <1>6, <1>7, <1>8, <1>9, LoopDisks DEF PackInv

\* When all is packed nothing is needed, and nothing is held.
LEMMA TextDoneInv ==
    ASSUME PackInv, TextDone
    PROVE  PackInv'
<1>1. /\ pc = "shard" /\ \A s \in AllShards(run.format) : s <= si
      /\ done_layers = Layers /\ done_globals = Globals
      /\ UNCHANGED <<work, disk, stamp, stale>>
    BY DEF TextDone
<1>2. PackTypeOK /\ Where /\ Disks /\ Asked /\ Achieved /\ Held
    BY DEF PackInv
<1>3. job = NoJob /\ ~Midway /\ Converting /\ Holding
    BY <1>1, <1>2, AtRest DEF Held
<1>4. CASE run.prog = "text" /\ EndRun("ready")
    BY <1>1, <1>2, <1>4, EndInv DEF PackTypeOK
<1>5. CASE run.prog = "prepare" /\ pc' = "frontend" /\ UNCHANGED <<run, job, progress>>
    <2>1. PackTypeOK'
        BY <1>1, <1>2, <1>5 DEF PackTypeOK, progress
    <2>2. Where'
        BY <1>1, <1>2, <1>3, <1>5 DEF Where, Between, TextPcs
    <2>3. Asked' /\ Written' /\ \A x : Packed(x)' = Keys(disk'[x].idx)
        BY <1>3, <1>5, NoJobAsks DEF Between
    <2>4. Disks'
        BY <1>1, <1>2 DEF Disks
    <2>5. Achieved'
        <3>1. \A x : Packed(x)' = Packed(x)
            BY <1>1, <1>3, <2>3 DEF Packed
        <3>2. \A L : LayerPacked(L)' = LayerPacked(L)
            BY <1>5, <3>1 DEF LayerPacked
        <3>3. Converted'
            BY <1>2, <1>3, <1>5, <3>1, <3>2 DEF Achieved, Converted, progress
        <3>4. VisionPacked'
            BY <1>1, <1>2, <1>5 DEF Achieved, VisionPacked
        <3> QED
            BY <1>1, <1>5, <3>3, <3>4 DEF Achieved, progress
    <2>6. Held'
        <3>1. Still = {} /\ Still' = {}
            BY <1>1, <1>5 DEF Still, progress
        <3>2. ~run.keep => loaded = {} /\ work \cap AllShards(run.format) = {}
            BY <1>1, <1>3, <3>1 DEF Holding
        <3>3. Holding'
            BY <1>1, <1>3, <1>5, <3>1, <3>2 DEF Holding, progress
        <3> QED
            BY <1>5, <3>3 DEF Held
    <2> QED
        BY <2>1, <2>2, <2>3, <2>4, <2>5, <2>6 DEF PackInv
<1> QED
    BY <1>4, <1>5 DEF TextDone

-----------------------------------------------------------------------------
(* Steps of the other programs. *)

LEMMA VisionDoneInv ==
    ASSUME PackInv, VisionDone
    PROVE  PackInv'
<1>1. /\ pc = "vision" /\ job.stage = "end" /\ job' = NoJob
      /\ pc' = (IF run.prog = "prepare" THEN "shard" ELSE "frontend")
      /\ UNCHANGED <<work, disk, stamp, run, progress, stale>>
    BY DEF VisionDone
<1>2. PackTypeOK /\ Where /\ Disks /\ Asked /\ Written /\ Achieved /\ Held
    BY DEF PackInv
<1>3. /\ run.prog \in {"prepare", "full"} /\ job.store = "vision" /\ Fresh /\ Fresh'
      /\ ~Midway
    BY <1>1, <1>2 DEF Where, TextPcs, Fresh, progress, Midway
<1>4. VisionPacked'
    BY <1>1, <1>2, <1>3 DEF Asked, Written, Wanted, VisionPacked
<1>5. PackTypeOK'
    <2>1. NoJob \in [store : Stores, todo : Seq(Names), append : BOOLEAN, recs : SUBSET Recs,
                     stage : {"none", "open", "write", "index", "end"}]
        BY DEF NoJob, Stores
    <2> QED
        BY <1>1, <1>2, <2>1 DEF PackTypeOK, TextPcs, progress
<1>6. Where'
    BY <1>1, <1>2, <1>3 DEF Where, TextPcs, Between, Converting
<1>7. Asked' /\ Written'
    BY <1>1, NoJobAsks DEF Between
<1>8. Disks'
    BY <1>1, <1>2 DEF Disks
<1>9. Achieved'
    BY <1>1, <1>2, <1>3, <1>4 DEF Achieved, Converting, Converted, Fresh
<1>10. Held'
    <2>1. CASE run.prog = "prepare"
        <3>1. Holding'
            BY <1>1, <1>3, <2>1, FreshHolds
        <3> QED
            BY <1>1, <2>1, <3>1 DEF Held
    <2>2. CASE run.prog = "full"
        BY <1>1, <2>2 DEF Held, Converting
    <2> QED
        BY <1>3, <2>1, <2>2
<1> QED
    BY <1>5, <1>6, <1>7, <1>8, <1>9, <1>10 DEF PackInv

LEMMA FullTrunkDoneInv ==
    ASSUME PackInv, FullTrunkDone
    PROVE  PackInv'
<1>1. /\ pc = "full_trunk" /\ job.stage = "end" /\ pc' = "full_experts"
      /\ Start("experts", AllExperts, FALSE)
      /\ UNCHANGED <<work, disk, stamp, run, progress, stale>>
    BY DEF FullTrunkDone
<1>2. PackTypeOK /\ Where /\ Disks /\ Asked /\ Achieved
    BY DEF PackInv
<1>3. run.prog = "full" /\ job.store = "trunk" /\ Fresh /\ Fresh'
    BY <1>1, <1>2 DEF Where, TextPcs, Fresh, progress
<1>4. Set(AllTrunk) \subseteq Keys(disk["trunk"].idx)
    BY <1>1, <1>2, <1>3 DEF Asked, Wanted
<1>5. "experts" \in Stores /\ FALSE \in BOOLEAN
    BY DEF Stores
<1>6. /\ job' \in [store : Stores, todo : Seq(Names), append : BOOLEAN, recs : SUBSET Recs,
                   stage : {"none", "open", "write", "index", "end"}]
      /\ job'.store = "experts" /\ job'.append = FALSE /\ job'.stage = "open"
    BY <1>1, <1>5, AllExpertsIs, StartIs
<1>7. PackTypeOK'
    BY <1>1, <1>2, <1>6 DEF PackTypeOK, progress
<1>8. Where'
    BY <1>1, <1>2, <1>3, <1>6 DEF Where, TextPcs, Converting, Between
<1>9. Asked' /\ Written'
    BY <1>1, <1>3, <1>5, AllExpertsIs, StartAsks DEF Wanted, Converting
<1>10. Disks'
    BY <1>1, <1>2 DEF Disks
<1>11. Achieved'
    BY <1>1, <1>3, <1>4 DEF Achieved, Converting
<1>12. Held'
    BY <1>1, <1>3 DEF Held, Converting
<1> QED
    BY <1>7, <1>8, <1>9, <1>10, <1>11, <1>12 DEF PackInv

LEMMA FullExpertsDoneInv ==
    ASSUME PackInv, FullExpertsDone
    PROVE  PackInv'
<1>1. /\ pc = "full_experts" /\ job.stage = "end" /\ pc' = "vision"
      /\ Start("vision", VisionSpec, FALSE)
      /\ UNCHANGED <<work, disk, stamp, run, progress, stale>>
    BY DEF FullExpertsDone
<1>2. PackTypeOK /\ Where /\ Disks /\ Asked /\ Achieved
    BY DEF PackInv
<1>3. run.prog = "full" /\ job.store = "experts" /\ Fresh /\ Fresh'
    BY <1>1, <1>2 DEF Where, TextPcs, Fresh, progress
<1>4. /\ Set(AllTrunk) \subseteq Keys(disk["trunk"].idx)
      /\ Set(AllExperts) \subseteq Keys(disk["experts"].idx)
    BY <1>1, <1>2, <1>3 DEF Asked, Wanted, Achieved
<1>5. "vision" \in Stores /\ FALSE \in BOOLEAN
    BY DEF Stores
<1>6. /\ job' \in [store : Stores, todo : Seq(Names), append : BOOLEAN, recs : SUBSET Recs,
                   stage : {"none", "open", "write", "index", "end"}]
      /\ job'.store = "vision" /\ job'.append = FALSE /\ job'.stage = "open"
    BY <1>1, <1>5, VisionIs, StartIs
<1>7. PackTypeOK'
    BY <1>1, <1>2, <1>6 DEF PackTypeOK, progress
<1>8. Where'
    BY <1>1, <1>2, <1>3, <1>6 DEF Where, TextPcs, Converting, Between
<1>9. Asked' /\ Written'
    BY <1>1, <1>3, <1>5, VisionIs, StartAsks DEF Wanted, Converting
<1>10. Disks'
    BY <1>1, <1>2 DEF Disks
<1>11. Achieved'
    BY <1>1, <1>3, <1>4 DEF Achieved, Converting
<1>12. Held'
    BY <1>1, <1>3 DEF Held, Converting
<1> QED
    BY <1>7, <1>8, <1>9, <1>10, <1>11, <1>12 DEF PackInv

LEMMA ProgramInv ==
    ASSUME PackInv, Program
    PROVE  PackInv'
<1>1. CASE PackerDone
    BY <1>1, EndInv DEF PackerDone, PackInv, PackTypeOK
<1>2. CASE Frontend
    BY <1>2, EndInv DEF Frontend, PackInv, PackTypeOK
<1> QED
    BY <1>1, <1>2, NextShardInv, PackGlobalInv, GlobalDoneInv, PackLayerInv,
       PackLayerExpertsInv, LayerDoneInv, DeleteConsumedInv, TextDoneInv, VisionDoneInv,
       FullTrunkDoneInv, FullExpertsDoneInv DEF Program

LEMMA PackerStepInv ==
    ASSUME PackInv, Packer
    PROVE  PackInv'
<1>1. CASE OpenFails \/ RecordFails
    <2>1. EndRun("failed") /\ UNCHANGED <<work, disk, stale>>
        BY <1>1 DEF OpenFails, RecordFails
    <2> QED
        BY <2>1, EndInv DEF PackInv, PackTypeOK
<1> QED
    BY <1>1, MoveInv DEF Packer, Moves

LEMMA InitInv == PackInit => PackInv
<1> SUFFICES ASSUME PackInit  PROVE PackInv
    OBVIOUS
<1>1. /\ work = {} /\ disk = [s \in Stores |-> [bin |-> <<>>, idx |-> NoIndex]]
      /\ run = NoRun /\ pc = "idle" /\ job = NoJob /\ Fresh /\ stale = {}
    BY DEF PackInit, Fresh
<1>2. job.stage = "none" /\ job.todo = <<>> /\ run.prog = "none"
    BY <1>1 DEF NoJob, NoRun
<1>3. PackTypeOK
    <2>1. 0 \in 0 .. NShards
        BY CheckpointAssumption
    <2>2. NoJob \in [store : Stores, todo : Seq(Names), append : BOOLEAN, recs : SUBSET Recs,
                     stage : {"none", "open", "write", "index", "end"}]
        BY DEF NoJob, Stores
    <2>3. NoIndex \in Index
        BY DEF NoIndex, Index, AnyFormat
    <2>4. disk \in [Stores -> [bin : Seq(Entries), idx : Index]]
        BY <1>1, <2>3
    <2> QED
        BY <1>1, <2>1, <2>2, <2>4 DEF PackTypeOK, NoRun, Fresh, AnyFormat, Revs
<1>4. Where
    BY <1>1, <1>2 DEF Where, TextPcs, Between, Converting
<1>5. Asked /\ Written
    BY <1>1, <1>2 DEF Asked, Written, Distinct, Set, Midway, Converting
<1>6. Disks
    BY <1>1 DEF Disks, NoIndex, Once, Whole
<1>7. Achieved /\ Held
    BY <1>1, <1>2 DEF Achieved, Held, Converting
<1> QED
    BY <1>3, <1>4, <1>5, <1>6, <1>7 DEF PackInv

LEMMA StutterInv ==
    ASSUME PackInv, UNCHANGED packvars
    PROVE  PackInv'
<1> USE DEF packvars, progress, PackInv
<1>1. PackTypeOK'
    BY DEF PackTypeOK
<1>2. ReadyLayers' = ReadyLayers /\ ReadyGlobals' = ReadyGlobals /\ Still' = Still
    BY DEF ReadyLayers, ReadyGlobals, Still
<1>3. /\ Converting' = Converting /\ Between' = Between /\ Fresh' = Fresh /\ Midway' = Midway
      /\ Holding' = Holding
    BY <1>2 DEF Converting, Between, Fresh, Midway, Holding
<1>4. Where'
    BY <1>2, <1>3 DEF Where
<1>5. Wanted' = Wanted /\ \A x : Packed(x)' = Packed(x)
    BY <1>2, <1>3 DEF Wanted, Packed
<1>6. Asked' /\ Disks'
    BY <1>3, <1>5 DEF Asked, Disks
<1>7. Written'
    BY <1>3 DEF Written, Skips, Appends
<1>8. \A L : LayerPacked(L)' = LayerPacked(L)
    BY <1>5 DEF LayerPacked
<1>9. Achieved' /\ Held'
    BY <1>2, <1>3, <1>5, <1>8 DEF Achieved, Held, Converted, VisionPacked
<1> QED
    BY <1>1, <1>4, <1>6, <1>7, <1>9

\* The invariant, from which the properties follow: what a store's index names, what a
\* packer still has to write and has written, what a program has packed when it is at a
\* later step, and which shards the converter holds.
THEOREM PackInvariant == PackSpec => []PackInv
<1>1. PackInv /\ [PackNext]_packvars => PackInv'
    BY MoveInv, PackerStepInv, ProgramInv, KillInv, UserInv, StutterInv DEF PackNext
<1> QED
    BY <1>1, InitInv, PTL DEF PackSpec

-----------------------------------------------------------------------------
(* The properties. *)

\* What a user does reports nothing.
LEMMA UserStarts ==
    ASSUME User
    PROVE  run' = run \/ run'.result = "none"
<1>1. ASSUME NEW rev, NEW keep, StartPrepare(rev, keep)  PROVE run'.result = "none"
    BY <1>1 DEF StartPrepare, Begin
<1>2. ASSUME NEW format, NEW rev, NEW keep, StartText(format, rev, keep)
      PROVE  run'.result = "none"
    BY <1>2 DEF StartText, Begin
<1>3. ASSUME NEW format, StartFull(format)  PROVE run'.result = "none"
    BY <1>3 DEF StartFull, Begin
<1>4. ASSUME NEW s, NEW L, NEW append, NEW format, StartPacker(s, L, format, append)
      PROVE  run'.result = "none"
    BY <1>4 DEF StartPacker, Begin
<1>5. ASSUME NEW names, FetchReal(names)  PROVE run' = run
    BY <1>5 DEF FetchReal
<1> QED
    BY <1>1, <1>2, <1>3, <1>4, <1>5 DEF User

\* A program that reports success is at its last step.
LEMMA WhenReady ==
    ASSUME PackInv, PackNext, run.prog # "none", run'.result = "ready"
    PROVE  /\ run.prog # "packer" =>
                  \/ Frontend
                  \/ TextDone /\ run.prog = "text" /\ EndRun("ready")
           /\ run.result = "none" /\ UNCHANGED <<disk, stale>>
<1>1. PackTypeOK /\ Where /\ run.result = "none"
    BY DEF PackInv, Where
<1>2. run' # run
    BY <1>1
<1>3. ~User
    BY DEF User, StartPrepare, StartText, StartFull, StartPacker, FetchReal, Begin
<1>4. ~Kill
    BY <1>1, EndRunIs DEF Kill
<1>5. ~Packer
    <2>1. ~(OpenFails \/ RecordFails)
        BY <1>1, EndRunIs DEF OpenFails, RecordFails
    <2>2. ~Moves
        BY <1>1, <1>2, MoveFrame
    <2> QED
        BY <2>1, <2>2 DEF Packer, Moves
<1>6. Program
    BY <1>3, <1>4, <1>5 DEF PackNext
<1>7. PackerDone \/ Frontend \/ (TextDone /\ run.prog = "text" /\ EndRun("ready"))
    BY <1>2, <1>6 DEF Program, NextShard, PackGlobal, GlobalDone, PackLayer, PackLayerExperts,
       LayerDone, DeleteConsumed, TextDone, VisionDone, FullTrunkDone, FullExpertsDone
<1>8. PackerDone => run.prog = "packer"
    BY <1>1 DEF PackerDone, Where
<1> QED
    BY <1>1, <1>7, <1>8 DEF PackerDone, Frontend, TextDone

\* What the converter packed, when it packed every layer.
LEMMA AllConverted ==
    ASSUME Converted, ~Midway, done_layers = Layers, done_globals = Globals
    PROVE  /\ Set(AllTrunk) \subseteq Keys(disk["trunk"].idx)
           /\ run.format # "none" => Set(AllExperts) \subseteq Keys(disk["experts"].idx)
<1>1. \A s : Packed(s) = Keys(disk[s].idx)
    BY DEF Packed
<1>2. ASSUME NEW k \in Set(AllTrunk)  PROVE k \in Keys(disk["trunk"].idx)
    BY <1>1, AllTrunkIs DEF Converted, LayerPacked
<1>3. ASSUME run.format # "none", NEW k \in Set(AllExperts)
      PROVE  k \in Keys(disk["experts"].idx)
    BY <1>1, <1>3, AllExpertsIs DEF Converted, LayerPacked
<1> QED
    BY <1>2, <1>3

\* When a program reports success, the stores it packs are complete (ReadyIsComplete).
THEOREM SuccessIsComplete == PackSpec => ReadyIsComplete
<1> DEFINE P == run.result = "none" /\ run'.result = "ready" /\ run.prog # "packer" =>
                /\ \A s \in Stores \ stale : Sound(s)
                /\ Set(AllTrunk) \subseteq Keys(disk["trunk"].idx)
                /\ run.format # "none" => Set(AllExperts) \subseteq Keys(disk["experts"].idx)
                /\ run.prog # "text" => Set(VisionSpec) = Keys(disk["vision"].idx)
<1>1. ASSUME PackInv, PackNext  PROVE P
    <2> SUFFICES ASSUME run.result = "none", run'.result = "ready", run.prog # "packer"
                 PROVE  /\ \A s \in Stores \ stale : Sound(s)
                        /\ Set(AllTrunk) \subseteq Keys(disk["trunk"].idx)
                        /\ run.format # "none" =>
                               Set(AllExperts) \subseteq Keys(disk["experts"].idx)
                        /\ run.prog # "text" => Set(VisionSpec) = Keys(disk["vision"].idx)
        OBVIOUS
    <2>1. PackTypeOK /\ Where /\ Disks /\ Achieved
        BY <1>1 DEF PackInv
    <2>2. run.prog # "none"
        <3>1. SUFFICES ASSUME run.prog = "none"  PROVE FALSE
            OBVIOUS
        <3>2. job.stage = "none" /\ pc = "idle"
            BY <1>1, <3>1, IdleIs DEF NoJob
        <3>3. ~Packer
            BY <3>2 DEF Packer, OpenStore, OpenFails, SkipRecord, AppendRecord, RecordFails,
               TruncateIndex, WriteIndex, Writing
        <3>4. ~Kill
            BY <3>1 DEF Kill
        <3>5. ~Program
            BY <3>2 DEF Program, NextShard, PackGlobal, GlobalDone, PackLayer,
               PackLayerExperts, LayerDone, DeleteConsumed, TextDone, VisionDone,
               FullTrunkDone, FullExpertsDone, PackerDone, Frontend
        <3>6. ~User
            BY UserStarts
        <3> QED
            BY <1>1, <3>3, <3>4, <3>5, <3>6 DEF PackNext
    <2>3. Frontend \/ (TextDone /\ run.prog = "text")
        BY <1>1, <2>2, WhenReady
    <2>4. \A s \in Stores \ stale : Sound(s)
        BY <2>1 DEF Disks, Sound, Whole, Once
    <2>5. CASE TextDone /\ run.prog = "text"
        <3>1. pc = "shard" /\ done_layers = Layers /\ done_globals = Globals
            BY <2>5 DEF TextDone
        <3>2. Converted /\ ~Midway
            BY <2>1, <3>1, AtRest DEF Achieved
        <3> QED
            BY <2>4, <2>5, <3>1, <3>2, AllConverted
    <2>6. CASE Frontend
        <3>1. pc = "frontend"
            BY <2>6 DEF Frontend
        <3>2. run.prog \in {"prepare", "full"} /\ job = NoJob
            BY <2>1, <3>1 DEF Where, Between
        <3>3. VisionPacked
            BY <2>1, <3>1, <3>2 DEF Achieved
        <3>4. CASE run.prog = "full"
            BY <2>1, <2>4, <3>1, <3>3, <3>4 DEF Achieved, VisionPacked
        <3>5. CASE run.prog = "prepare"
            <4>1. Converted /\ done_layers = Layers /\ done_globals = Globals
                BY <2>1, <3>1, <3>5 DEF Achieved, Converting
            <4>2. ~Midway
                BY <3>2 DEF Midway, NoJob
            <4> QED
                BY <2>4, <3>3, <4>1, <4>2, AllConverted DEF VisionPacked
        <3> QED
            BY <3>2, <3>4, <3>5
    <2> QED
        BY <2>3, <2>5, <2>6
<1>2. ASSUME PackInv, UNCHANGED packvars  PROVE P
    BY <1>2 DEF packvars
<1>3. PackInv /\ [PackNext]_packvars => [P]_packvars
    BY <1>1, <1>2
<1> QED
    BY <1>3, PackInvariant, PTL DEF PackSpec, ReadyIsComplete

LEMMA EmptyHanded ==
    ASSUME PackInv, NEW s \in Stores
    PROVE  disk[s].idx.st # "ok" => disk[s].idx.recs = {}
BY DEF PackInv, Disks

LEMMA LongerIsPrefix ==
    ASSUME NEW bin \in Seq(Entries), NEW x \in Entries
    PROVE  IsPrefixOf(bin, Append(bin, x)) /\ IsPrefixOf(bin, bin)
<1>1. /\ DOMAIN bin = 1 .. Len(bin) /\ Len(bin) \in Nat
      /\ Len(Append(bin, x)) = Len(bin) + 1
      /\ \A i \in 1 .. Len(bin) : Append(bin, x)[i] = bin[i]
    OBVIOUS
<1> QED
    BY <1>1 DEF IsPrefixOf

\* What a step keeps of a store.
Keeps(s) ==
    /\ disk[s].idx.st # "absent" => IsPrefixOf(disk[s].bin, disk'[s].bin)
    /\ \/ Named(s) \subseteq Named(s)'
       \/ run'.result = "killed" /\ Rewriting(s) /\ disk'[s].idx.st = "torn"

LEMMA SameKeeps ==
    ASSUME PackInv, NEW s \in Stores, disk'[s] = disk[s], ~Rewriting(s), ~Rewriting(s)'
    PROVE  Keeps(s)
<1>1. disk[s].bin \in Seq(Entries)
    BY JobTypes DEF PackInv
<1>2. IsPrefixOf(disk[s].bin, disk[s].bin)
    BY <1>1 DEF IsPrefixOf
<1> QED
    BY <1>2 DEF Keeps, Named

LEMMA MoveKeeps ==
    ASSUME PackInv, Converting, Moves, NEW s \in {"trunk", "experts"}
    PROVE  Keeps(s)
<1> DEFINE old == disk[job.store]
           new == disk'[job.store]
<1>0. PackTypeOK /\ Where /\ Asked /\ Written
    BY DEF PackInv
<1>1. s \in Stores /\ job.store \in Stores /\ job'.store = job.store
    BY <1>0, JobTypes, MoveFrame DEF Stores
<1>2. CASE s # job.store
    <2>1. disk'[s] = disk[s] /\ ~Rewriting(s) /\ ~Rewriting(s)'
        BY <1>0, <1>1, <1>2, MoveFrame DEF Rewriting
    <2> QED
        BY <1>1, <2>1, SameKeeps
<1>3. CASE s = job.store
    <2>1. pc # "vision" /\ old.bin \in Seq(Entries)
        BY <1>0, <1>1, <1>3, JobTypes DEF Where
    <2>2. IsPrefixOf(old.bin, old.bin)
        <3>1. Len(old.bin) \in Nat
            BY <2>1
        <3> QED
            BY <3>1 DEF IsPrefixOf
    <2>3. CASE OpenStore
        <3>1. ~Rewriting(s) /\ ~Rewriting(s)'
            <4>1. job.stage = "open"
                BY <2>3 DEF OpenStore
            <4>2. job'.stage \in {"end", "write"}
                BY <1>0, <2>3, MoveIs DEF Becomes
            <4> QED
                BY <4>1, <4>2 DEF Rewriting
        <3>2. CASE job.store = "experts" /\ Todo = {}
            <4>1. disk' = disk
                BY <2>3, <3>2 DEF OpenStore
            <4> QED
                BY <1>1, <3>1, <4>1, SameKeeps
        <3>3. CASE ~(job.store = "experts" /\ Todo = {})
            <4>1. Touches(IF job.append THEN old.bin ELSE <<>>, old.idx)
                BY <1>0, <2>3, <3>3, MoveIs
            <4>2. ~job.append => old.idx.st = "absent"
                BY <1>0, <2>1, <2>3 DEF Written, Appends, OpenStore
            <4>3. new.idx = old.idx /\ (job.append => new.bin = old.bin)
                BY <4>1 DEF Touches
            <4> QED
                BY <1>3, <2>2, <3>1, <4>2, <4>3 DEF Keeps, Named
        <3> QED
            BY <3>2, <3>3
    <2>4. CASE SkipRecord
        <3>1. disk' = disk /\ job.stage = "write" /\ job'.stage = "write"
            BY <1>0, <2>4, MoveIs DEF SkipRecord, Writing, Becomes
        <3> QED
            BY <1>1, <3>1, SameKeeps DEF Rewriting
    <2>5. CASE AppendRecord
        <3> DEFINE x == Entry(Head(job.todo), run.rev)
        <3>1. x \in Entries
            BY <1>0, <2>5, HeadIs DEF AppendRecord
        <3>2. new.bin = Append(old.bin, x) /\ new.idx = old.idx
            BY <1>0, <2>5, MoveIs DEF Touches
        <3>3. job.stage = "write" /\ job'.stage = "write"
            BY <1>0, <2>5, MoveIs DEF AppendRecord, Writing, Becomes
        <3> HIDE DEF x
        <3>4. IsPrefixOf(old.bin, new.bin)
            BY <2>1, <3>1, <3>2, LongerIsPrefix
        <3> QED
            BY <1>3, <3>2, <3>3, <3>4 DEF Keeps, Named, Rewriting
    <2>6. CASE TruncateIndex
        <3>1. /\ new.bin = old.bin /\ job'.recs = job.recs
              /\ job.stage = "write" /\ job'.stage = "index"
            BY <1>0, <2>6, MoveIs DEF Touches, Becomes, TruncateIndex
        <3>2. old.idx.recs \subseteq job.recs
            <4>1. CASE job.append
                BY <1>0, <3>1, <4>1 DEF Written
            <4>2. CASE ~job.append
                <5>1. old.idx.st = "absent"
                    BY <1>0, <2>1, <3>1, <4>2 DEF Written
                <5> QED
                    BY <1>1, <5>1, EmptyHanded
            <4> QED
                BY <1>0, <4>1, <4>2, JobTypes
        <3> QED
            BY <1>1, <1>3, <2>2, <3>1, <3>2 DEF Keeps, Named, Rewriting
    <2>7. CASE WriteIndex
        <3>1. /\ new.bin = old.bin /\ job.stage = "index" /\ job'.stage = "end"
              /\ new.idx.recs = job.recs
            BY <1>0, <2>7, MoveIs DEF Touches, Becomes, WriteIndex
        <3> QED
            BY <1>3, <2>2, <3>1 DEF Keeps, Named, Rewriting
    <2> QED
        BY <2>3, <2>4, <2>5, <2>6, <2>7 DEF Moves
<1> QED
    BY <1>2, <1>3

\* A kill takes an index along only where its packer had emptied it.
LEMMA KillKeeps ==
    ASSUME PackInv, Kill, NEW s \in Stores
    PROVE  Keeps(s)
<1>1. PackTypeOK /\ Asked /\ run'.result = "killed" /\ ~Rewriting(s)'
    BY EndRunIs DEF PackInv, Kill, Rewriting, NoJob
<1>2. /\ disk[s].bin \in Seq(Entries) /\ Partial \in Entries
      /\ disk[s] = [bin |-> disk[s].bin, idx |-> disk[s].idx]
    BY <1>1, JobTypes DEF Partial, Entry, Entries, Revs
<1>3. CASE disk' = disk
    <2>1. Rewriting(s) => disk'[s].idx.st = "torn"
        BY <1>1, <1>3 DEF Asked, Rewriting
    <2>2. IsPrefixOf(disk[s].bin, disk'[s].bin)
        BY <1>2, <1>3, LongerIsPrefix
    <2> QED
        BY <1>1, <1>3, <2>1, <2>2 DEF Keeps, Named
<1>4. CASE /\ Writing
           /\ disk' = [disk EXCEPT ![job.store].bin = Append(@, Partial)]
    <2>1. ~Rewriting(s)
        BY <1>4 DEF Writing, Rewriting
    <2>2. CASE s # job.store
        <3>1. disk'[s] = disk[s]
            BY <1>1, <1>4, <2>2 DEF PackTypeOK
        <3> QED
            BY <1>1, <2>1, <3>1, SameKeeps
    <2>3. CASE s = job.store
        <3>1. /\ disk'[s].bin = Append(disk[s].bin, Partial)
              /\ disk'[s].idx = disk[s].idx
            BY <1>1, <1>2, <1>4, <2>3 DEF PackTypeOK
        <3>2. IsPrefixOf(disk[s].bin, disk'[s].bin)
            BY <1>2, <3>1, LongerIsPrefix
        <3> QED
            BY <1>1, <2>1, <3>1, <3>2 DEF Keeps, Named
    <2> QED
        BY <2>2, <2>3
<1> QED
    BY <1>3, <1>4 DEF Kill

\* A resumed run keeps what an earlier one packed (ResumeKeeps): data files only grow, and
\* what an index named it still names, or the packer that rewrites it remembers, unless a
\* kill catches that packer before it has written, over an index that is refused from then.
THEOREM ResumedRunKeeps == PackSpec => ResumeKeeps
<1> DEFINE P == run.prog \in {"prepare", "text"} => \A s \in {"trunk", "experts"} :
            /\ disk[s].idx.st # "absent" => IsPrefixOf(disk[s].bin, disk'[s].bin)
            /\ \/ Named(s) \subseteq Named(s)'
               \/ run'.result = "killed" /\ Rewriting(s) /\ disk'[s].idx.st = "torn"
<1>1. ASSUME PackInv, PackNext \/ UNCHANGED packvars  PROVE P
    <2> SUFFICES ASSUME Converting, NEW s \in {"trunk", "experts"}  PROVE Keeps(s)
        BY DEF Converting, Keeps
    <2>1. s \in Stores /\ PackTypeOK /\ Where /\ run.prog # "none"
        BY <1>1 DEF Stores, PackInv, Converting
    <2>2. CASE Moves
        BY <1>1, <2>2, MoveKeeps
    <2>3. CASE Kill
        BY <1>1, <2>1, <2>3, KillKeeps
    <2>4. CASE Program \/ OpenFails \/ RecordFails
        <3>1. disk' = disk
            BY <2>4 DEF Program, NextShard, PackGlobal, GlobalDone, PackLayer,
               PackLayerExperts, LayerDone, DeleteConsumed, TextDone, VisionDone,
               FullTrunkDone, FullExpertsDone, PackerDone, Frontend, OpenFails, RecordFails
        <3>2. job.stage # "index"
            <4>1. CASE OpenFails \/ RecordFails
                BY <4>1 DEF OpenFails, RecordFails, Writing
            <4>2. CASE Program
                <5>1. Between \/ job.stage = "end"
                    BY <4>2 DEF Program, NextShard, PackGlobal, GlobalDone, PackLayer,
                       PackLayerExperts, LayerDone, DeleteConsumed, TextDone, VisionDone,
                       FullTrunkDone, FullExpertsDone, PackerDone, Frontend, Between
                <5> QED
                    BY <2>1, <5>1 DEF Where, NoJob
            <4> QED
                BY <2>4, <4>1, <4>2
        <3>3. job'.stage # "index"
            <4>1. job' \in {job, NoJob} \/ job'.stage = "open"
                BY <2>4 DEF Program, NextShard, PackGlobal, GlobalDone, PackLayer,
                   PackLayerExperts, LayerDone, DeleteConsumed, TextDone, VisionDone,
                   FullTrunkDone, FullExpertsDone, PackerDone, Frontend, OpenFails,
                   RecordFails, EndRun, Start
            <4> QED
                BY <3>2, <4>1 DEF NoJob
        <3> QED
            BY <1>1, <2>1, <3>1, <3>2, <3>3, SameKeeps DEF Rewriting
    <2>5. ~User
        BY <2>1 DEF User, StartPrepare, StartText, StartFull, StartPacker, FetchReal, Begin
    <2>6. CASE UNCHANGED packvars
        <3>1. disk' = disk /\ Named(s)' = Named(s)
            BY <2>6 DEF packvars, Named, Rewriting
        <3>2. IsPrefixOf(disk[s].bin, disk[s].bin)
            BY <2>1, JobTypes DEF IsPrefixOf
        <3> QED
            BY <3>1, <3>2 DEF Keeps
    <2> QED
        BY <1>1, <2>2, <2>3, <2>4, <2>5, <2>6 DEF PackNext, Packer, Moves
<1>2. PackInv /\ [PackNext]_packvars => [P]_packvars
    BY <1>1
<1> QED
    BY <1>2, PackInvariant, PTL DEF PackSpec, ResumeKeeps

\* The shards of what a packer of the converter is asked to pack are there.
LEMMA WantedIsThere ==
    ASSUME PackInv, Converting, pc \in {"vision", "global", "layer", "experts"}
    PROVE  \A k \in Wanted : Source[k] \subseteq work
<1>1. PackTypeOK /\ Where /\ Holding /\ loaded \subseteq work
    BY DEF PackInv, Held, Holding
<1>2. CASE pc = "vision"
    <2>1. run.prog = "prepare"
        BY <1>1, <1>2 DEF Where, Converting
    <2>2. VisionShards \subseteq work
        BY <1>2, <2>1 DEF PackInv, Held
    <2> QED
        BY <1>2, <2>2 DEF Wanted, VisionShards, ShardsOf
<1>3. CASE pc = "global"
    <2>1. Least(ReadyGlobals) \in ReadyGlobals
        BY <1>1, <1>3, LeastReady DEF Where
    <2>2. GlobalReq(Least(ReadyGlobals)) \subseteq loaded
        BY <2>1 DEF ReadyGlobals
    <2> QED
        BY <1>1, <1>3, <2>2 DEF Wanted, GlobalReq, ShardsOf
<1>4. CASE pc \in {"layer", "experts"}
    <2> DEFINE L == Least(ReadyLayers)
    <2>1. L \in ReadyLayers
        BY <1>1, <1>4, LeastReady DEF Where
    <2>2. LayerReq(L, run.format) \subseteq loaded
        BY <2>1 DEF ReadyLayers
    <2>3. pc = "experts" => run.format # "none"
        BY <1>1 DEF Where
    <2>4. Wanted = IF pc = "layer" THEN Set(TensorSpec(L)) ELSE Set(ExpertSpec(L))
        BY <1>4 DEF Wanted
    <2> HIDE DEF L
    <2> QED
        BY <1>1, <1>4, <2>2, <2>3, <2>4 DEF LayerReq, ShardsOf
<1> QED
    BY <1>2, <1>3, <1>4

\* The converter fails only on an index it cannot read (FailsOnlyOnIndex): it never misses
\* a shard that it deleted, or did not fetch.
THEOREM ConverterMissesNothing == PackSpec => FailsOnlyOnIndex
<1> DEFINE P == run.prog \in {"prepare", "text"} /\ run'.result = "failed" =>
                    \E s \in {"trunk", "experts"} : ~Loadable(s)
<1>1. ASSUME PackInv, PackNext \/ UNCHANGED packvars  PROVE P
    <2> SUFFICES ASSUME Converting, run'.result = "failed"
                 PROVE  \E s \in {"trunk", "experts"} : ~Loadable(s)
        BY DEF Converting
    <2>1. PackTypeOK /\ Where /\ Asked
        BY <1>1 DEF PackInv
    <2>2. run.prog # "none" /\ run.result = "none" /\ run' # run
        BY <2>1 DEF Converting, Where
    <2>3. ~User /\ ~UNCHANGED packvars
        BY <2>2, UserStarts DEF packvars
    <2>4. ~Kill
        BY <2>1, EndRunIs DEF Kill
    <2>5. ~Moves
        BY <2>1, <2>2, MoveFrame
    <2>6. ~Program
        <3>1. ~EndRun("ready")
            BY <2>1, EndRunIs
        <3> QED
            BY <2>2, <3>1 DEF Program, NextShard, PackGlobal, GlobalDone, PackLayer,
               PackLayerExperts, LayerDone, DeleteConsumed, TextDone, VisionDone,
               FullTrunkDone, FullExpertsDone, PackerDone, Frontend
    <2>7. OpenFails \/ RecordFails
        BY <1>1, <2>3, <2>4, <2>5, <2>6 DEF PackNext, Packer, Moves
    <2>8. pc \in {"vision", "global", "layer", "experts"}
        <3>1. job.stage # "none"
            BY <2>7 DEF OpenFails, RecordFails, Writing
        <3>2. ~Between
            BY <2>1, <3>1 DEF Where, NoJob
        <3> QED
            BY <2>1, <3>2 DEF PackTypeOK, Where, Between, TextPcs, Converting
    <2>9. \A k \in Set(job.todo) : Source[k] \subseteq work
        BY <1>1, <2>1, <2>8, WantedIsThere DEF Asked
    <2>10. CASE job.append /\ ~Loadable(job.store)
        <3>1. job.store \in {"trunk", "experts"}
            BY <2>1, <2>8, <2>10 DEF Where
        <3> QED
            BY <2>10, <3>1
    <2>11. CASE ~(ShardsOf(Todo) \subseteq work)
        BY <2>9, <2>11 DEF Todo, ShardsOf
    <2>12. CASE RecordFails
        <3>1. Head(job.todo) \in Set(job.todo)
            BY <2>1, <2>12, HeadIs DEF RecordFails
        <3> QED
            BY <2>9, <2>12, <3>1 DEF RecordFails
    <2> QED
        BY <2>7, <2>10, <2>11, <2>12 DEF OpenFails
<1>2. PackInv /\ [PackNext]_packvars => [P]_packvars
    BY <1>1
<1> QED
    BY <1>2, PackInvariant, PTL DEF PackSpec, FailsOnlyOnIndex

\* After success the converter has left no shard of the text model (ShardsConsumed).
THEOREM NothingLeft == PackSpec => ShardsConsumed
<1> DEFINE P == run.prog \in {"prepare", "text"} /\ run'.result = "ready" /\ ~run.keep =>
                    work' \cap AllShards(run.format) = {}
<1>1. ASSUME PackInv, PackNext \/ UNCHANGED packvars  PROVE P
    <2> SUFFICES ASSUME Converting, run'.result = "ready", ~run.keep
                 PROVE  work' \cap AllShards(run.format) = {}
        BY DEF Converting
    <2>1. PackTypeOK /\ Where /\ Held /\ Holding
        BY <1>1 DEF PackInv, Held
    <2>2. run.prog # "none" /\ run.result = "none" /\ run.prog # "packer"
        BY <2>1 DEF Converting, Where
    <2>3. Frontend \/ (TextDone /\ run.prog = "text")
        BY <1>1, <2>2, WhenReady DEF packvars
    <2>4. CASE Frontend
        BY <2>1, <2>4 DEF Frontend, Holding
    <2>5. CASE TextDone /\ run.prog = "text"
        <3>1. /\ pc = "shard" /\ \A s \in AllShards(run.format) : s <= si
              /\ done_layers = Layers /\ done_globals = Globals /\ work' = work
            BY <2>5 DEF TextDone
        <3>2. Still = {}
            BY <3>1 DEF Still
        <3> QED
            BY <2>1, <3>1, <3>2 DEF Holding
    <2> QED
        BY <2>3, <2>4, <2>5
<1>2. PackInv /\ [PackNext]_packvars => [P]_packvars
    BY <1>1
<1> QED
    BY <1>2, PackInvariant, PTL DEF PackSpec, ShardsConsumed

-----------------------------------------------------------------------------
(* Two shards at a time. *)

\* Of the shards the converter holds, all but one are the shard it is at.
Near ==
    Converting =>
        /\ si # 0 => si \in AllShards(run.format)
        /\ pc = "shard" /\ ~run.keep => loaded \subseteq {si}
        /\ pc \in TextPcs /\ ~run.keep => \E x \in Shards : loaded \subseteq {x, si}

\* What is still needed of the shards before the one it is at: nothing, as what needs it
\* also needs a later one.
LEMMA DeletesAllButOne ==
    ASSUME Neighbours, PackInv, Near, DeleteConsumed, ~run.keep
    PROVE  loaded' \subseteq {si}
<1> DEFINE A == AllShards(run.format)
<1>1. /\ pc = "pack" /\ ReadyGlobals = {} /\ ReadyLayers = {}
      /\ loaded' = loaded \ Consumed
    BY DEF DeleteConsumed
<1>2. PackTypeOK /\ Converting /\ Holding
    BY <1>1 DEF PackInv, Held, Where, TextPcs
<1>3. /\ loaded \subseteq A /\ \A s \in loaded : s <= si
      /\ \A s \in Still : s <= si => s \in loaded
      /\ A \subseteq Shards /\ Still \subseteq A
      /\ si \in 0 .. NShards /\ Shards = 1 .. NShards /\ NShards \in Nat
    BY <1>2, AllAre, StillIs, CheckpointAssumption DEF Holding, PackTypeOK, Shards
<1>4. ASSUME NEW req, NEW s \in req, s < si, si \in A, s \in loaded, req \subseteq Still,
             ~(req \subseteq loaded), \A x, y \in req, z \in A : ~(x < z /\ z < y)
      PROVE  FALSE
    <2>1. PICK y \in req : y \notin loaded
        BY <1>4
    <2>2. y \in Still /\ ~(y <= si)
        BY <1>3, <1>4, <2>1
    <2>3. si < y
        BY <1>3, <2>2
    <2> QED
        BY <1>4, <2>3
<1>5. SUFFICES ASSUME NEW s \in loaded, s \in Still, s # si  PROVE FALSE
    BY <1>1 DEF Consumed
<1>6. s < si /\ si # 0
    BY <1>3, <1>5
<1>7. si \in A
    BY <1>2, <1>6 DEF Near
<1>8. run.format \in {"bf16", "q8", "q5", "none"}
    BY <1>2 DEF PackTypeOK, AnyFormat
<1>9. CASE \E L \in Layers \ done_layers : s \in LayerReq(L, run.format)
    <2>1. PICK L \in Layers \ done_layers : s \in LayerReq(L, run.format)
        BY <1>9
    <2> DEFINE req == LayerReq(L, run.format)
    <2>2. req \subseteq Still /\ ~(req \subseteq loaded)
        BY <1>1, <2>1 DEF Still, ReadyLayers
    <2>3. \A x, y \in req, z \in A : ~(x < z /\ z < y)
        BY <1>8, <2>1 DEF Neighbours
    <2> HIDE DEF req
    <2> QED
        BY <1>4, <1>5, <1>6, <1>7, <2>1, <2>2, <2>3 DEF req
<1>10. CASE \E g \in Globals \ done_globals : s \in GlobalReq(g)
    <2>1. PICK g \in Globals \ done_globals : s \in GlobalReq(g)
        BY <1>10
    <2> DEFINE req == GlobalReq(g)
    <2>2. req \subseteq Still /\ ~(req \subseteq loaded)
        BY <1>1, <2>1 DEF Still, ReadyGlobals
    <2>3. \A x, y \in req, z \in A : ~(x < z /\ z < y)
        BY <1>8, <2>1 DEF Neighbours
    <2> HIDE DEF req
    <2> QED
        BY <1>4, <1>5, <1>6, <1>7, <2>1, <2>2, <2>3 DEF req
<1> QED
    BY <1>5, <1>9, <1>10 DEF Still

\* The steps that leave the shards alone.
LEMMA NearKept ==
    ASSUME Near, UNCHANGED <<run, si, loaded>>, pc \in TextPcs \ {"shard"},
           pc' \in (TextPcs \ {"shard"}) \cup {"frontend"}
    PROVE  Near'
BY DEF Near, Converting, TextPcs

LEMMA NearStarts ==
    ASSUME Fresh'
    PROVE  Near'
<1>1. PICK x : x \in Shards
    <2>1. GlobalReq(1) \subseteq Shards /\ GlobalReq(1) # {}
        BY GlobalNeeds DEF Globals
    <2> QED
        BY <2>1
<1> QED
    BY <1>1 DEF Near, Fresh

LEMMA NearStep ==
    ASSUME Neighbours, PackInv, Near, PackNext
    PROVE  Near'
<1>1. PackTypeOK /\ Where
    BY DEF PackInv
<1>2. ASSUME Moves  PROVE Near'
    BY <1>1, <1>2, MoveFrame DEF Near, Converting, progress
<1>3. ASSUME NEW result \in {"ready", "failed", "killed"}, EndRun(result)  PROVE Near'
    BY <1>1, <1>3, EndRunIs, NearStarts
<1>4. ASSUME User  PROVE Near'
    <2>1. run.prog = "none" /\ UNCHANGED progress
        BY <1>4 DEF User, StartPrepare, StartText, StartFull, StartPacker, FetchReal, Begin
    <2>2. Fresh'
        BY <2>1, IdleIs DEF Fresh, progress
    <2> QED
        BY <2>2, NearStarts
<1>5. ASSUME NextShard  PROVE Near'
    <2> DEFINE A == AllShards(run.format)
               next == {s \in A : s > si}
    <2>1. /\ pc = "shard" /\ next # {} /\ si' = Least(next)
          /\ loaded' = loaded \cup {si'} /\ pc' = "pack" /\ run' = run
        BY <1>5 DEF NextShard
    <2>2. si' \in next /\ next \subseteq A /\ A \subseteq Shards
        <3>1. A \subseteq Shards /\ NShards \in Nat /\ next \subseteq A
            BY AllAre, CheckpointAssumption
        <3>2. next \in SUBSET (0 .. NShards)
            BY <3>1 DEF Shards
        <3> HIDE DEF next
        <3> QED
            BY <2>1, <3>1, <3>2, LeastIs
    <2>3. Converting /\ (~run.keep => loaded \subseteq {si})
        BY <1>1, <2>1 DEF Where, TextPcs, Near
    <2>4. ~run.keep => \E x \in Shards : loaded' \subseteq {x, si'}
        <3>1. CASE loaded = {}
            BY <2>1, <2>2, <3>1
        <3>2. CASE loaded # {} /\ ~run.keep
            BY <1>1, <2>1, <2>3, <3>2 DEF PackTypeOK
        <3> QED
            BY <3>1, <3>2
    <2> QED
        BY <2>1, <2>2, <2>4 DEF Near, Converting
<1>6. ASSUME DeleteConsumed  PROVE Near'
    <2>1. /\ pc = "pack" /\ pc' = "shard" /\ loaded' \subseteq loaded
          /\ UNCHANGED <<run, si>>
        BY <1>6 DEF DeleteConsumed
    <2>2. ~run.keep => loaded' \subseteq {si}
        BY <1>6, DeletesAllButOne
    <2> QED
        BY <2>1, <2>2 DEF Near, Converting, TextPcs
<1>7. ASSUME PackGlobal \/ GlobalDone \/ PackLayer \/ PackLayerExperts \/ LayerDone
      PROVE  Near'
    <2>1. /\ pc \in {"pack", "global", "layer", "experts"}
          /\ pc' \in {"pack", "global", "layer", "experts"}
          /\ UNCHANGED <<run, si, loaded>>
        BY <1>7 DEF PackGlobal, GlobalDone, PackLayer, PackLayerExperts, LayerDone, progress
    <2> QED
        BY <2>1, NearKept DEF TextPcs
<1>8. ASSUME TextDone  PROVE Near'
    <2>1. CASE EndRun("ready")
        BY <1>3, <2>1
    <2>2. CASE pc' = "frontend" /\ UNCHANGED <<run, job, progress>>
        BY <2>2 DEF Near, Converting, TextPcs, progress
    <2> QED
        BY <1>8, <2>1, <2>2 DEF TextDone
<1>9. ASSUME VisionDone \/ FullTrunkDone \/ FullExpertsDone  PROVE Near'
    <2>1. pc \in {"vision", "full_trunk", "full_experts"} /\ UNCHANGED progress
        BY <1>9 DEF VisionDone, FullTrunkDone, FullExpertsDone
    <2>2. Fresh'
        BY <1>1, <2>1 DEF Where, TextPcs, Fresh, progress
    <2> QED
        BY <2>2, NearStarts
<1>10. CASE Packer
    BY <1>2, <1>3, <1>10 DEF Packer, Moves, OpenFails, RecordFails
<1>11. CASE Program
    BY <1>3, <1>5, <1>6, <1>7, <1>8, <1>9, <1>11 DEF Program, PackerDone, Frontend
<1>12. CASE Kill
    BY <1>3, <1>12 DEF Kill
<1> QED
    BY <1>4, <1>10, <1>11, <1>12 DEF PackNext

LEMMA FewOfTwo ==
    ASSUME NEW x, NEW y, NEW S, S \subseteq {x, y}
    PROVE  Cardinality(S) <= 2
<1>1. IsFiniteSet({x}) /\ Cardinality({x}) = 1
    BY FS_Singleton
<1>2. /\ IsFiniteSet({x} \cup {y})
      /\ Cardinality({x} \cup {y}) = 1 \/ Cardinality({x} \cup {y}) = 2
    BY <1>1, FS_AddElement
<1>3. S \subseteq {x} \cup {y}
    OBVIOUS
<1>4. Cardinality(S) <= Cardinality({x} \cup {y}) /\ IsFiniteSet(S)
    BY <1>2, <1>3, FS_Subset
<1>5. Cardinality(S) \in Nat
    BY <1>4, FS_CardinalityType
<1> QED
    BY <1>2, <1>4, <1>5

\* The text shards in work_dir up to the one the converter is at are those it holds.
Few == Converting /\ ~run.keep =>
           Cardinality({s \in work \cap AllShards(run.format) : s <= si}) <= 2

LEMMA FewOnDisk == PackInv /\ Near => Few
<1> SUFFICES ASSUME PackInv, Near, Converting, ~run.keep
             PROVE  Cardinality({s \in work \cap AllShards(run.format) : s <= si}) <= 2
    BY DEF Few
<1> DEFINE D == {s \in work \cap AllShards(run.format) : s <= si}
<1>1. Holding /\ D \subseteq loaded
    BY DEF PackInv, Held, Holding
<1>2. CASE pc \in TextPcs
    <2>1. PICK x \in Shards : loaded \subseteq {x, si}
        BY <1>2 DEF Near
    <2>2. D \subseteq {x, si}
        BY <1>1, <2>1
    <2> HIDE DEF D
    <2> QED
        BY <2>2, FewOfTwo DEF D
<1>3. CASE pc \notin TextPcs
    <2>1. D \subseteq {0, 0}
        <3>1. CASE pc = "frontend" /\ run.prog = "prepare"
            BY <1>1, <3>1 DEF Holding
        <3>2. CASE ~(pc = "frontend" /\ run.prog = "prepare")
            <4>1. loaded = {}
                BY <1>3, <3>2 DEF PackInv, Where, Fresh
            <4> QED
                BY <1>1, <4>1
        <3> QED
            BY <3>1, <3>2
    <2> HIDE DEF D
    <2> QED
        BY <2>1, FewOfTwo DEF D
<1> QED
    BY <1>2, <1>3

\* Where nothing spans a shard that is packed from, the converter leaves at most two shards
\* of those it has come to on disk, whatever it found there (TwoShards).
THEOREM TwoShardsAtATime == Neighbours => (PackSpec => TwoShards)
<1> SUFFICES ASSUME Neighbours  PROVE PackSpec => TwoShards
    OBVIOUS
<1> DEFINE P == run.prog \in {"prepare", "text"} /\ ~run.keep /\ run' = run =>
                /\ Cardinality({s \in work' \cap AllShards(run.format) : s <= si'}) <= 2
                /\ work' \subseteq work \cup {si'}
<1>1. PackInit => Near
    BY DEF PackInit, NoRun, Near, Converting
<1>2. PackInv /\ Near /\ [PackNext]_packvars => Near'
    <2>1. ASSUME Near, UNCHANGED packvars  PROVE Near'
        BY <2>1 DEF packvars, progress, Near, Converting
    <2> QED
        BY <2>1, NearStep
<1>3. ASSUME PackInv, Few', PackNext \/ UNCHANGED packvars  PROVE P
    <2> SUFFICES ASSUME Converting, ~run.keep, run' = run
                 PROVE  /\ Cardinality({s \in work' \cap AllShards(run.format) : s <= si'}) <= 2
                        /\ work' \subseteq work \cup {si'}
        BY DEF Converting
    <2>1. PackTypeOK /\ Where
        BY <1>3 DEF PackInv
    <2>2. Cardinality({s \in work' \cap AllShards(run.format) : s <= si'}) <= 2
        <3>1. Converting' /\ ~run'.keep /\ AllShards(run.format)' = AllShards(run.format)
            BY DEF Converting
        <3> QED
            BY <1>3, <3>1 DEF Few
    <2>3. work' \subseteq work \cup {si'}
        <3>1. ~User
            BY <2>1 DEF User, StartPrepare, StartText, StartFull, StartPacker, FetchReal,
               Begin, Converting, Where
        <3>2. CASE Moves
            BY <2>1, <3>2, MoveFrame
        <3>3. CASE OpenFails \/ RecordFails \/ Kill \/ UNCHANGED packvars
            BY <3>3 DEF OpenFails, RecordFails, Kill, packvars
        <3>4. CASE Program
            BY <3>4 DEF Program, NextShard, PackGlobal, GlobalDone, PackLayer,
               PackLayerExperts, LayerDone, DeleteConsumed, TextDone, VisionDone,
               FullTrunkDone, FullExpertsDone, PackerDone, Frontend
        <3> QED
            BY <1>3, <3>1, <3>2, <3>3, <3>4 DEF PackNext, Packer, Moves
    <2> QED
        BY <2>2, <2>3
<1>4. PackInv /\ Few' /\ [PackNext]_packvars => [P]_packvars
    BY <1>3
<1> QED
    BY <1>1, <1>2, <1>4, FewOnDisk, PackInvariant, PTL DEF PackSpec, TwoShards
=============================================================================
