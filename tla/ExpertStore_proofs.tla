-------------------------- MODULE ExpertStore_proofs --------------------------
(***************************************************************************)
(* Proofs about ExpertStore: whatever tools were killed before, a store    *)
(* the runtime accepts is the one that was written, with its mask, and     *)
(* what a compaction reports as done is accepted if it can be.             *)
(***************************************************************************)
EXTENDS ExpertStore, FunctionTheorems, FiniteSetTheorems, TLAPS

\* The index names the keys of f, and f's records are where it says.
Holds(f) ==
    /\ Ids(idx.recs) = DOMAIN f
    /\ \A r \in Set(idx.recs) : Bytes(r) = f[r.key]
    /\ idx.size = Len(bin)
    /\ DOMAIN f = {} => idx.recs = <<>>

IsExact == \A r \in Set(idx.recs) : Bytes(r) = r.key

\* What a tool that runs still has to write, and what it began with.
Writing ==
    /\ tool = [st |-> tool.st, todo |-> tool.todo, recs |-> tool.recs,
               from |-> tool.from, mask |-> tool.mask]
    /\ tool.todo \in Seq(Routed) /\ tool.recs \in Seq(Routed)
    /\ DOMAIN tool.from = Set(tool.recs)
    /\ \A k \in Set(tool.recs) : tool.from[k] \in Set(bin) \cup Set(tool.todo)
    /\ tool.mask # {} => /\ \A k \in Set(tool.recs) : tool.from[k] = k
                         /\ Set(tool.recs) = Set(src.recs) \ tool.mask
    /\ tool.st \in {"index", "side"} => tool.todo = <<>>
    /\ tool.st = "data" /\ ~over => idx.st # "whole"
    /\ tool.st = "index" => idx.st # "whole"
    /\ tool.st = "side" => idx.st = "whole" /\ Holds(tool.from) /\ tool.mask # {}
    /\ interrupted

\* What was left when the last tool ended or was killed.
Left ==
    idx.st = "whole" =>
        /\ ~interrupted => Holds(wrote)
        /\ interrupted /\ ~over => IsExact

\* A compaction that finished left the source without its mask.
Compacted ==
    ~interrupted /\ asked # {} =>
        /\ idx.st = "whole"
        /\ side = [st |-> "there", mask |-> asked]
        /\ DOMAIN wrote = Set(src.recs) \ asked
        /\ \A k \in DOMAIN wrote : wrote[k] = k

Readings ==
    reader.st = "open" =>
        /\ tool.st = "none" /\ idx.st = "whole"
        /\ Missing # {} => reader.mask = Missing

StoreInv ==
    /\ src \in [recs : Seq(Routed), sized : BOOLEAN] /\ bin \in Seq(Routed)
    /\ tool.st \in {"none", "data", "index", "side"}
    /\ tool.st # "none" => Writing
    /\ tool.st = "none" => Left /\ Compacted
    /\ Readings

-----------------------------------------------------------------------------
(* Sorting and copying. *)

LEMMA SortedIs ==
    ASSUME NEW S \in SUBSET Int, IsFiniteSet(S)
    PROVE  Sorted(S) \in Seq(S) /\ \A k \in S : k \in Set(Sorted(S))
<1> DEFINE n == Cardinality(S)
           upto(k) == {j \in S : j <= k}
           rank == [k \in S |-> Cardinality(upto(k))]
<1>1. n \in Nat
    BY FS_CardinalityType
<1>2. ASSUME NEW k \in S  PROVE rank[k] \in 1 .. n
    <2>1. IsFiniteSet(upto(k)) /\ Cardinality(upto(k)) <= n
        BY FS_Subset
    <2>2. Cardinality(upto(k)) \in Nat
        BY <2>1, FS_CardinalityType
    <2>3. upto(k) # {}
        OBVIOUS
    <2>4. Cardinality(upto(k)) # 0
        BY <2>1, <2>3, FS_EmptySet
    <2>5. rank[k] = Cardinality(upto(k))
        OBVIOUS
    <2> HIDE DEF upto, rank
    <2> QED
        BY <1>1, <2>1, <2>2, <2>4, <2>5
<1>3. ASSUME NEW j \in S, NEW k \in S, rank[j] = rank[k], j < k  PROVE FALSE
    <2>0. rank[j] = Cardinality(upto(j)) /\ rank[k] = Cardinality(upto(k)) /\ rank[j] = rank[k]
        <3>1. rank[j] = Cardinality(upto(j)) /\ rank[k] = Cardinality(upto(k))
            OBVIOUS
        <3>2. rank[j] = rank[k]
            <4> HIDE DEF rank
            <4> QED
                BY <1>3
        <3> QED
            BY <3>1, <3>2
    <2>1. upto(j) \subseteq upto(k) /\ k \in upto(k) /\ k \notin upto(j)
        <3>1. j < k /\ j \in Int /\ k \in Int
            <4> HIDE DEF rank
            <4> QED
                BY <1>3
        <3> HIDE DEF rank
        <3>2. upto(j) \subseteq upto(k)
            <4> SUFFICES ASSUME NEW i \in S, i <= j  PROVE i <= k
                OBVIOUS
            <4> QED
                BY <3>1
        <3>3. k <= k /\ ~(k <= j)
            BY <3>1
        <3> QED
            BY <3>2, <3>3
    <2>2. IsFiniteSet(upto(k))
        BY FS_Subset
    <2>3. Cardinality(upto(j)) = Cardinality(upto(k))
        <3> HIDE DEF rank, upto
        <3> QED
            BY <2>0
    <2>4. upto(k) = upto(j)
        <3> HIDE DEF upto
        <3>1. upto(j) \in SUBSET upto(k)
            BY <2>1
        <3> QED
            BY <2>2, <2>3, <3>1, FS_Subset
    <2> QED
        BY <2>1, <2>4
<1>4. rank \in Injection(S, 1 .. n)
    <2>1. rank \in [S -> 1 .. n]
        BY <1>2
    <2> HIDE DEF rank
    <2>2. \A j, k \in S : rank[j] = rank[k] => j = k
        BY <1>3
    <2> QED
        BY <2>1, <2>2 DEF Injection, IsInjective
<1>5. rank \in Surjection(S, 1 .. n)
    <2>1. IsFiniteSet(1 .. n) /\ Cardinality(1 .. n) = n
        BY <1>1, FS_Interval, 1 \in Int, n \in Int
    <2> HIDE DEF rank
    <2> QED
        BY <1>4, <2>1, FS_Injection
<1>6. \A i \in 1 .. n : \E k \in S : Cardinality(upto(k)) = i
    <2> SUFFICES ASSUME NEW i \in 1 .. n  PROVE \E k \in S : rank[k] = i
        OBVIOUS
    <2> HIDE DEF rank
    <2> QED
        BY <1>5 DEF Surjection
<1>7. \A i \in 1 .. n : /\ Sorted(S)[i] \in S
                        /\ Cardinality(upto(Sorted(S)[i])) = i
    BY <1>6 DEF Sorted
<1>8. Sorted(S) \in [1 .. n -> S]
    BY <1>7 DEF Sorted
<1>9. Sorted(S) \in Seq(S) /\ DOMAIN Sorted(S) = 1 .. n
    BY <1>1, <1>8
<1>10. ASSUME NEW k \in S  PROVE k \in Set(Sorted(S))
    <2>1. rank[k] \in 1 .. n
        BY <1>2
    <2>2. Sorted(S)[rank[k]] \in S /\ rank[Sorted(S)[rank[k]]] = rank[k]
        BY <1>7, <2>1
    <2>3. Sorted(S)[rank[k]] = k
        <3> DEFINE j == Sorted(S)[rank[k]]
        <3>1. j \in S /\ rank[j] = rank[k] /\ j \in Int /\ k \in Int
            BY <2>2
        <3> HIDE DEF rank, j
        <3>2. ~(j < k) /\ ~(k < j)
            BY <1>3, <3>1
        <3>3. j = k
            BY <3>1, <3>2
        <3> QED
            BY <3>3 DEF j
    <2> HIDE DEF rank
    <2> QED
        BY <1>9, <2>1, <2>3 DEF Set
<1> QED
    BY <1>9, <1>10

LEMMA KeptIs ==
    ASSUME NEW recs \in Seq(Routed), NEW mask
    PROVE  Kept(recs, mask) \in Seq(Routed) /\ Set(Kept(recs, mask)) = Set(recs) \ mask
<1> DEFINE P == {i \in DOMAIN recs : recs[i] \notin mask}
           left == Sorted(P)
<1>1. P \in SUBSET Int /\ IsFiniteSet(P)
    <2>1. P \in SUBSET (1 .. Len(recs)) /\ Len(recs) \in Nat
        OBVIOUS
    <2>2. IsFiniteSet(1 .. Len(recs))
        BY <2>1, FS_Interval, 1 \in Int, Len(recs) \in Int
    <2> QED
        BY <2>1, <2>2, FS_Subset
<1>2. left \in Seq(P)
    <2> HIDE DEF P
    <2> QED
        BY <1>1, SortedIs
<1>2b. \A i \in P : i \in Set(left)
    <2> HIDE DEF P
    <2> QED
        BY <1>1, SortedIs
<1>3. \A n \in DOMAIN left : recs[left[n]] \in Routed
    <2> SUFFICES ASSUME NEW n \in DOMAIN left  PROVE recs[left[n]] \in Routed
        OBVIOUS
    <2>1. left[n] \in P
        <3> HIDE DEF left
        <3> QED
            BY <1>2
    <2>2. left[n] \in DOMAIN recs
        BY <2>1
    <2> HIDE DEF left
    <2> QED
        BY <2>2
<1>4. DOMAIN left = 1 .. Len(left) /\ Len(left) \in Nat
    <2> HIDE DEF left, P
    <2> QED
        BY <1>2
<1>5. Kept(recs, mask) = [n \in 1 .. Len(left) |-> recs[left[n]]]
    BY <1>4 DEF Kept
<1>6. \A n \in 1 .. Len(left) : left[n] \in P
    <2> HIDE DEF left, P
    <2> QED
        BY <1>2
<1>7. Set(Kept(recs, mask)) = {recs[left[n]] : n \in 1 .. Len(left)}
    <2> HIDE DEF left, P
    <2> QED
        BY <1>5 DEF Set
<1>8. {recs[left[n]] : n \in 1 .. Len(left)} \subseteq Set(recs) \ mask
    <2> HIDE DEF left
    <2> QED
        BY <1>6 DEF Set
<1>9. ASSUME NEW k \in Set(recs) \ mask
      PROVE  k \in {recs[left[n]] : n \in 1 .. Len(left)}
    <2>1. PICK i \in P : recs[i] = k
        BY DEF Set
    <2>2. PICK n \in 1 .. Len(left) : left[n] = i
        <3> HIDE DEF left, P
        <3> QED
            BY <1>2b, <1>4, <2>1 DEF Set
    <2> HIDE DEF left, P
    <2> QED
        BY <2>1, <2>2
<1>10. Set(Kept(recs, mask)) = Set(recs) \ mask
    <2> HIDE DEF left
    <2> QED
        BY <1>7, <1>8, <1>9
<1> HIDE DEF left
<1> QED
    BY <1>3, <1>4, <1>5, <1>10

\* Copying one record more.
LEMMA CopiedMore ==
    ASSUME NEW b \in Seq(Routed), NEW t \in Seq(Routed), t # <<>>
    PROVE  /\ Append(b, Head(t)) \in Seq(Routed) /\ Tail(t) \in Seq(Routed)
           /\ \A k \in Set(b) \cup Set(t) : k \in Set(Append(b, Head(t))) \cup Set(Tail(t))
<1>1. /\ Len(t) \in Nat /\ Len(t) > 0 /\ Head(t) = t[1] /\ Head(t) \in Routed
      /\ Tail(t) \in Seq(Routed) /\ Len(Tail(t)) = Len(t) - 1
      /\ \A i \in 1 .. Len(t) - 1 : Tail(t)[i] = t[i + 1]
    OBVIOUS
<1> DEFINE c == Append(b, Head(t))
<1>2. /\ c \in Seq(Routed) /\ Len(c) = Len(b) + 1 /\ Len(b) \in Nat
      /\ c[Len(b) + 1] = Head(t) /\ \A i \in 1 .. Len(b) : c[i] = b[i]
    BY <1>1
<1> HIDE DEF c
<1>3. ASSUME NEW k \in Set(b)  PROVE k \in Set(c)
    <2>1. PICK i \in 1 .. Len(b) : k = b[i]
        BY DEF Set
    <2> QED
        BY <1>2, <2>1 DEF Set
<1>4. ASSUME NEW k \in Set(t)  PROVE k \in Set(c) \cup Set(Tail(t))
    <2>1. PICK i \in 1 .. Len(t) : k = t[i]
        BY DEF Set
    <2>2. CASE i = 1
        BY <1>1, <1>2, <2>1, <2>2 DEF Set
    <2>3. CASE i # 1
        <3>1. i - 1 \in 1 .. Len(t) - 1 /\ (i - 1) + 1 = i
            BY <1>1, <2>3
        <3>2. i - 1 \in DOMAIN Tail(t) /\ Tail(t)[i - 1] = k
            BY <1>1, <2>1, <3>1
        <3> QED
            BY <3>2 DEF Set
    <2> QED
        BY <2>2, <2>3
<1> QED
    BY <1>1, <1>2, <1>3, <1>4 DEF c

-----------------------------------------------------------------------------
(* The invariant. *)

LEMMA InitStore == StoreInit => StoreInv
BY StoreAssumption DEF StoreInit, StoreInv, Left, Compacted, Readings, Absent, NoTool, NoReader

\* Nothing is open once a tool has touched a file.
LEMMA Touched == Touch => Readings'
BY DEF Touch, Readings, NoReader

LEMMA CompactInv ==
    ASSUME StoreInv, NEW mask \in SUBSET Keys, NEW allow \in BOOLEAN, Compact(mask, allow)
    PROVE  StoreInv'
<1>1. PICK kept : kept = Kept(src.recs, mask)
    OBVIOUS
<1>2. /\ tool' = [st |-> "data", todo |-> kept, recs |-> kept,
                  from |-> [k \in Set(kept) |-> k], mask |-> mask]
      /\ bin' = <<>> /\ interrupted' = TRUE /\ over' = (idx.st = "whole") /\ Touch
      /\ src' = src /\ idx' = idx
    BY <1>1 DEF Compact, Began
<1>3. kept \in Seq(Routed) /\ Set(kept) = Set(src.recs) \ mask
    BY <1>1, KeptIs DEF StoreInv
<1>4. Writing'
    BY <1>2, <1>3 DEF Writing
<1>5. Readings'
    BY <1>2, Touched
<1> QED
    BY <1>2, <1>4, <1>5 DEF StoreInv

LEMMA MergeInv ==
    ASSUME StoreInv, NEW map \in Maps, Merge(map)
    PROVE  StoreInv'
<1> DEFINE images == {map[k] : k \in Set(src.recs)}
<1>1. /\ tool' = [st |-> "data", todo |-> Sorted(images), recs |-> src.recs,
                  from |-> Prototypes(map), mask |-> {}]
      /\ bin' = <<>> /\ interrupted' = TRUE /\ over' = (idx.st = "whole") /\ Touch
      /\ src' = src /\ idx' = idx
      /\ \A k \in Set(src.recs) : map[k] \in Set(src.recs)
    BY DEF Merge, Began
<1>2. src.recs \in Seq(Routed) /\ Set(src.recs) \subseteq Routed
    BY DEF StoreInv, Set
<1>3. images \in SUBSET Int /\ IsFiniteSet(images) /\ images \subseteq Routed
    <2>1. images \subseteq Routed
        BY <1>1, <1>2
    <2>2. IsFiniteSet(Routed)
        <3>1. 1 \in Int /\ N \in Int
            BY StoreAssumption
        <3> QED
            BY <3>1, FS_Interval DEF Routed
    <2> HIDE DEF images
    <2>3. IsFiniteSet(images)
        BY <2>1, <2>2, FS_Subset
    <2>4. Routed \subseteq Int
        BY DEF Routed
    <2> QED
        BY <2>1, <2>3, <2>4
<1>4. Sorted(images) \in Seq(images) /\ \A k \in images : k \in Set(Sorted(images))
    <2> HIDE DEF images
    <2> QED
        BY <1>3, SortedIs
<1>5. Sorted(images) \in Seq(Routed)
    <2> DEFINE t == Sorted(images)
    <2>1. t \in Seq(images) /\ images \subseteq Routed
        BY <1>3, <1>4
    <2> HIDE DEF images, t
    <2>2. t \in [1 .. Len(t) -> images] /\ Len(t) \in Nat
        BY <2>1
    <2>3. t \in [1 .. Len(t) -> Routed]
        BY <2>1, <2>2
    <2>4. t \in Seq(Routed)
        BY <2>2, <2>3
    <2> QED
        BY <2>4 DEF t
<1>6. /\ DOMAIN Prototypes(map) = Set(src.recs)
      /\ \A k \in Set(src.recs) : Prototypes(map)[k] \in images
    BY DEF Prototypes
<1> HIDE DEF images
<1>7. Writing'
    BY <1>1, <1>2, <1>4, <1>5, <1>6 DEF Writing
<1>8. Readings'
    BY <1>1, Touched
<1> QED
    BY <1>1, <1>7, <1>8 DEF StoreInv

LEMMA MergeOntoSourceInv ==
    ASSUME StoreInv, NEW map \in Maps, MergeOntoSource(map)
    PROVE  StoreInv'
<1>1. /\ src' \in [recs : Seq(Routed), sized : BOOLEAN] /\ src'.recs = src.recs
      /\ tool.st = "none"
      /\ UNCHANGED <<bin, idx, side, tool, reader, wrote, asked, interrupted, over>>
    BY DEF MergeOntoSource, StoreInv, Idle, files
<1>2. Left' /\ Compacted'
    BY <1>1 DEF StoreInv, Left, Compacted, Holds, IsExact, Bytes
<1>3. Readings'
    BY <1>1 DEF StoreInv, Readings, Missing
<1> QED
    BY <1>1, <1>2, <1>3 DEF StoreInv

LEMMA CopyRecordInv ==
    ASSUME StoreInv, CopyRecord
    PROVE  StoreInv'
<1>1. /\ tool.st = "data" /\ tool.todo # <<>> /\ bin' = Append(bin, Head(tool.todo))
      /\ tool' = [tool EXCEPT !.todo = Tail(tool.todo)]
      /\ Touch /\ UNCHANGED <<src, idx, side, history>>
    BY DEF CopyRecord
<1>2. Writing /\ bin \in Seq(Routed)
    BY <1>1 DEF StoreInv
<1>3. tool' = [st |-> "data", todo |-> Tail(tool.todo), recs |-> tool.recs,
               from |-> tool.from, mask |-> tool.mask]
    BY <1>1, <1>2 DEF Writing
<1>4. /\ bin' \in Seq(Routed) /\ Tail(tool.todo) \in Seq(Routed)
      /\ \A k \in Set(bin) \cup Set(tool.todo) : k \in Set(bin') \cup Set(Tail(tool.todo))
    BY <1>1, <1>2, CopiedMore DEF Writing
<1>5. Writing'
    BY <1>1, <1>2, <1>3, <1>4 DEF Writing, history
<1>6. Readings'
    BY <1>1, Touched
<1> QED
    BY <1>1, <1>3, <1>4, <1>5, <1>6 DEF StoreInv

LEMMA TruncateIndexInv ==
    ASSUME StoreInv, TruncateIndex
    PROVE  StoreInv'
<1>1. /\ tool.st = "data" /\ tool.todo = <<>> /\ idx' = [st |-> "torn"]
      /\ tool' = [tool EXCEPT !.st = "index"]
      /\ Touch /\ UNCHANGED <<src, bin, side, history>>
    BY DEF TruncateIndex
<1>2. Writing
    BY <1>1 DEF StoreInv
<1>3. tool' = [st |-> "index", todo |-> tool.todo, recs |-> tool.recs,
               from |-> tool.from, mask |-> tool.mask]
    BY <1>1, <1>2 DEF Writing
<1>4. Writing'
    BY <1>1, <1>2, <1>3 DEF Writing, history
<1>5. Readings'
    BY <1>1, Touched
<1> QED
    BY <1>1, <1>3, <1>4, <1>5 DEF StoreInv

\* Every record the new index names is where its prototype was copied.
LEMMA IndexHolds ==
    ASSUME StoreInv, WriteIndex, NEW f, f = tool.from
    PROVE  Holds(f)'
<1>1. /\ tool.st = "index" /\ bin' = bin
      /\ idx' = [st |-> "whole", size |-> Len(bin),
                 recs |-> [i \in DOMAIN tool.recs |->
                              [key |-> tool.recs[i], at |-> Offset(tool.recs[i])]]]
    BY DEF WriteIndex
<1>2. Writing /\ Set(tool.todo) = {}
    <2>1. Writing
        BY <1>1 DEF StoreInv
    <2>2. tool.todo = <<>>
        BY <1>1, <2>1 DEF Writing
    <2> QED
        BY <2>1, <2>2 DEF Set
<1>3. Set(idx'.recs) = {[key |-> tool.recs[i], at |-> Offset(tool.recs[i])] : i \in DOMAIN tool.recs}
    BY <1>1 DEF Set
<1>4. ASSUME NEW i \in DOMAIN tool.recs
      PROVE  Offset(tool.recs[i]) \in DOMAIN bin /\ bin[Offset(tool.recs[i])] = f[tool.recs[i]]
    <2>1. tool.recs[i] \in Set(tool.recs)
        BY DEF Set
    <2>2. f[tool.recs[i]] \in Set(bin)
        BY <1>2, <2>1 DEF Writing
    <2> QED
        BY <2>2 DEF Offset, Set
<1>5. Ids(idx'.recs) = DOMAIN f
    <2>1. Ids(idx'.recs) = {r.key : r \in Set(idx'.recs)}
        BY DEF Ids
    <2>2. {r.key : r \in Set(idx'.recs)} = {tool.recs[i] : i \in DOMAIN tool.recs}
        <3>1. ASSUME NEW r \in Set(idx'.recs)
              PROVE  r.key \in {tool.recs[i] : i \in DOMAIN tool.recs}
            <4>1. PICK i \in DOMAIN tool.recs :
                      r = [key |-> tool.recs[i], at |-> Offset(tool.recs[i])]
                BY <1>3
            <4> QED
                BY <4>1
        <3>2. ASSUME NEW i \in DOMAIN tool.recs
              PROVE  \E r \in Set(idx'.recs) : r.key = tool.recs[i]
            <4>1. [key |-> tool.recs[i], at |-> Offset(tool.recs[i])] \in Set(idx'.recs)
                BY <1>3
            <4> QED
                BY <4>1
        <3> QED
            BY <3>1, <3>2
    <2>3. {tool.recs[i] : i \in DOMAIN tool.recs} = Set(tool.recs)
        BY DEF Set
    <2> QED
        BY <1>2, <2>1, <2>2, <2>3 DEF Writing
<1>6. \A r \in Set(idx'.recs) : (IF r.at \in DOMAIN bin THEN bin[r.at] ELSE 0) = f[r.key]
    BY <1>3, <1>4
<1>7. DOMAIN f = {} => idx'.recs = <<>>
    <2> SUFFICES ASSUME DOMAIN f = {}  PROVE idx'.recs = <<>>
        OBVIOUS
    <2>1. Set(tool.recs) = {} /\ tool.recs \in Seq(Routed)
        BY <1>2 DEF Writing
    <2>2. DOMAIN tool.recs = {}
        BY <2>1 DEF Set
    <2>3. idx'.recs = [i \in {} |-> [key |-> tool.recs[i], at |-> Offset(tool.recs[i])]]
        BY <1>1, <2>2
    <2> QED
        BY <2>3
<1> QED
    BY <1>1, <1>5, <1>6, <1>7 DEF Holds, Bytes

LEMMA WriteIndexInv ==
    ASSUME StoreInv, WriteIndex
    PROVE  StoreInv'
<1>1. /\ tool.st = "index" /\ Touch /\ idx'.st = "whole"
      /\ UNCHANGED <<src, bin, side>>
    BY DEF WriteIndex
<1>2. Writing
    BY <1>1 DEF StoreInv
<1>3. PICK f : f = tool.from
    OBVIOUS
<1>4. Holds(f)'
    BY <1>3, IndexHolds
<1>5. Readings'
    BY <1>1, Touched
<1>6. CASE tool.mask = {} /\ Finish
    <2>1. tool'.st = "none" /\ interrupted' = FALSE /\ wrote' = f /\ asked' = {}
        BY <1>3, <1>6 DEF Finish, NoTool
    <2>2. Holds(wrote)'
        BY <1>4, <2>1 DEF Holds
    <2>3. Left'
        BY <2>1, <2>2 DEF Left
    <2>4. Compacted'
        BY <2>1 DEF Compacted
    <2> QED
        BY <1>1, <1>5, <2>1, <2>3, <2>4 DEF StoreInv
<1>7. CASE tool.mask # {} /\ tool' = [tool EXCEPT !.st = "side"] /\ UNCHANGED history
    <2>1. tool' = [st |-> "side", todo |-> tool.todo, recs |-> tool.recs,
                   from |-> tool.from, mask |-> tool.mask]
        BY <1>2, <1>7 DEF Writing
    <2>2. Holds(tool.from)'
        BY <1>3, <1>4, <2>1 DEF Holds
    <2>3. Writing'
        BY <1>1, <1>2, <1>7, <2>1, <2>2 DEF Writing, history
    <2> QED
        BY <1>1, <1>5, <2>1, <2>3 DEF StoreInv
<1> QED
    BY <1>6, <1>7 DEF WriteIndex

LEMMA WriteSidecarInv ==
    ASSUME StoreInv, WriteSidecar
    PROVE  StoreInv'
<1>1. /\ tool.st = "side" /\ Finish /\ Touch /\ UNCHANGED <<src, bin, idx>>
      /\ side' = [st |-> "there", mask |-> tool.mask]
    BY DEF WriteSidecar, MaskWritten
<1>2. Writing
    BY <1>1 DEF StoreInv
<1>3. tool'.st = "none" /\ wrote' = tool.from /\ interrupted' = FALSE /\ asked' = tool.mask
    BY <1>1 DEF Finish, NoTool
<1>4. Holds(wrote)'
    BY <1>1, <1>2, <1>3 DEF Writing, Holds, Bytes
<1>5. Left' /\ Readings'
    BY <1>1, <1>3, <1>4, Touched DEF Left
<1>6. Compacted'
    BY <1>1, <1>2, <1>3 DEF Compacted, Writing
<1> QED
    BY <1>1, <1>3, <1>5, <1>6 DEF StoreInv

LEMMA KillInv ==
    ASSUME StoreInv, Kill
    PROVE  StoreInv'
<1>1. /\ tool.st \in {"data", "index", "side"} /\ tool'.st = "none" /\ Touch
      /\ UNCHANGED <<src, bin, idx, interrupted, over>>
    BY DEF Kill, StoreInv, NoTool, history
<1>2. Writing
    BY <1>1 DEF StoreInv
<1>3. Left'
    <2> SUFFICES ASSUME idx.st = "whole", ~over  PROVE IsExact'
        BY <1>1, <1>2 DEF Left, Writing
    <2>1. tool.st = "side"
        BY <1>1, <1>2 DEF Writing
    <2>2. Holds(tool.from) /\ \A k \in DOMAIN tool.from : tool.from[k] = k
        BY <1>2, <2>1 DEF Writing
    <2>3. \A r \in Set(idx.recs) : r.key \in DOMAIN tool.from
        BY <2>2 DEF Holds, Ids
    <2>4. IsExact
        BY <2>2, <2>3 DEF Holds, IsExact
    <2> QED
        BY <1>1, <2>4 DEF IsExact, Bytes
<1>4. Readings' /\ Compacted'
    BY <1>1, <1>2, Touched DEF Compacted, Writing
<1> QED
    BY <1>1, <1>3, <1>4 DEF StoreInv

LEMMA OpenInv ==
    ASSUME StoreInv, NEW set, NEW env, Open(set, env)
    PROVE  StoreInv'
<1>1. /\ tool.st = "none"
      /\ UNCHANGED <<src, bin, idx, side, tool, wrote, asked, interrupted, over>>
    BY DEF Open, files, history
<1>2. Left' /\ Compacted'
    BY <1>1 DEF StoreInv, Left, Compacted, Holds, IsExact, Bytes
<1>3. reader'.st = "open" => idx.st = "whole" /\ (Missing # {} => reader'.mask = Missing)
    BY DEF Open, Accepts, Binds
<1>4. Readings'
    BY <1>1, <1>3 DEF StoreInv, Readings, IsExact, Bytes, Missing
<1> QED
    BY <1>1, <1>2, <1>4 DEF StoreInv

LEMMA NextStoreInv == StoreInv /\ [StoreNext]_storevars => StoreInv'
<1> SUFFICES ASSUME StoreInv, [StoreNext]_storevars  PROVE StoreInv'
    OBVIOUS
<1>1. CASE UNCHANGED storevars
    BY <1>1 DEF storevars, files, history, StoreInv, Writing, Left, Compacted, Readings, Holds,
        IsExact, Bytes, Missing
<1>2. CASE StoreNext
    BY <1>2, CompactInv, MergeInv, MergeOntoSourceInv, CopyRecordInv, TruncateIndexInv,
       WriteIndexInv, WriteSidecarInv, KillInv, OpenInv DEF StoreNext
<1> QED
    BY <1>1, <1>2

LEMMA StoreInvariant == StoreSpec => []StoreInv
BY InitStore, NextStoreInv, PTL DEF StoreSpec

-----------------------------------------------------------------------------
(* The theorems, about kvl_expert_store_open (src/expert_store.c) over what *)
(* the tools left.                                                          *)

\* An accepted store serves what the last tool that finished stored, and what
\* a kill leaves where no index was is exact.
THEOREM ServesTheWritten == StoreSpec => []ServesWhatWasWritten
<1>1. StoreInv => ServesWhatWasWritten
    BY DEF StoreInv, Readings, Left, Holds, IsExact, ServesWhatWasWritten
<1> QED
    BY <1>1, StoreInvariant, PTL

\* What a finished compaction leaves passes the verifier and opens, exactly when its mask
\* and its source allow it.
THEOREM FinishedCompactionsOpen == StoreSpec => []CompactionsOpen
<1>1. StoreInv => CompactionsOpen
    <2> SUFFICES ASSUME StoreInv, tool.st = "none", ~interrupted, asked # {}
                 PROVE  /\ Verifies(asked) <=> src.sized /\ asked \subseteq Set(src.recs)
                        /\ Accepts(FALSE, {}) <=> /\ Routed \ Set(src.recs) \subseteq asked
                                                  /\ asked \subseteq Routed
                                                  /\ Set(src.recs) \ asked # {}
        BY DEF CompactionsOpen
    <2>1. /\ idx.st = "whole" /\ side = [st |-> "there", mask |-> asked]
          /\ DOMAIN wrote = Set(src.recs) \ asked
          /\ \A k \in DOMAIN wrote : wrote[k] = k
        BY DEF StoreInv, Compacted
    <2>2. Holds(wrote)
        BY <2>1 DEF StoreInv, Left
    <2>3. Ids(idx.recs) = Set(src.recs) \ asked
        BY <2>1, <2>2 DEF Holds
    <2>4. Payloads
        BY <2>1, <2>2 DEF Holds, Payloads, Ids
    <2>5. Verifies(asked) <=> src.sized /\ asked \subseteq Set(src.recs)
        BY <2>1, <2>2, <2>3, <2>4 DEF Verifies, Holds
    <2>6. idx.recs # <<>> <=> Set(src.recs) \ asked # {}
        <3>1. idx.recs = <<>> => Ids(idx.recs) = {}
            BY DEF Ids, Set
        <3> QED
            BY <2>1, <2>2, <2>3, <3>1 DEF Holds
    <2>7. Set(src.recs) \subseteq Routed
        BY DEF StoreInv, Set
    <2>8. Missing = Routed \ (Set(src.recs) \ asked)
        BY <2>3 DEF Missing
    <2>9. asked = Missing <=> Routed \ Set(src.recs) \subseteq asked /\ asked \subseteq Routed
        BY <2>7, <2>8
    <2>10. Accepts(FALSE, {}) <=> idx.recs # <<>> /\ asked = Missing
        BY <2>1 DEF Accepts, Binds
    <2> QED
        BY <2>5, <2>6, <2>9, <2>10
<1> QED
    BY <1>1, StoreInvariant, PTL

\* The mask in force at an accepted sparse store is its absent experts.
THEOREM MasksAreAbsentExperts == StoreSpec => []MaskIsAbsentExperts
<1>1. StoreInv => MaskIsAbsentExperts
    BY DEF StoreInv, Readings, MaskIsAbsentExperts
<1> QED
    BY <1>1, StoreInvariant, PTL
=============================================================================
