----------------------------- MODULE ExpertStore -----------------------------
(***************************************************************************)
(* Sparse expert stores.  tools/compact_expert_store.py copies a store     *)
(* without the experts of a mask, tools/merge_expert_store.py copies one   *)
(* record for several experts, tools/verify_compact_expert_store.py        *)
(* compares a compaction with its source, and kvl_expert_store_open        *)
(* (src/expert_store.c) decides whether the runtime accepts what it finds. *)
(*                                                                         *)
(* The tools write three files one after the other, data, index and mask   *)
(* sidecar, over whatever is there, and may be killed at any point.        *)
(* Keys 1 .. N are routed experts and 0 is an id of the dense layer, which *)
(* a mask file can name but no store holds.                                *)
(***************************************************************************)
EXTENDS Integers, Sequences, FiniteSets

CONSTANTS
    N,              \* routed experts
    Sources,        \* source stores: their records, and whether the data has its size
    Maps,           \* pruning manifests: functions on 1 .. N
    MaxTools        \* bound: tools run

Keys   == 0 .. N
Routed == 1 .. N

ASSUME StoreAssumption ==
    /\ N \in Nat /\ MaxTools \in Nat
    /\ Sources \subseteq [recs : Seq(Routed), sized : BOOLEAN]
    /\ Maps \subseteq [Routed -> Routed]

VARIABLES
    src,            \* the source store
    bin, idx, side, \* the three output files
    tool,           \* the tool that runs
    reader,         \* the runtime's last open, while nothing was written since
    wrote,          \* history: what the last tool that finished stored for a key,
    asked,          \* the mask of that tool, empty for a merge,
    interrupted,    \* and whether a later one did not finish,
    over,           \* and whether the last one began with an index in place
    ran             \* tools run so far

files    == <<bin, idx, side>>
history  == <<wrote, asked, interrupted, over, ran>>
storevars == <<src, files, tool, reader, history>>

Absent == [st |-> "absent"]
NoTool == [st |-> "none"]
NoReader == [st |-> "none"]
Set(s) == {s[i] : i \in DOMAIN s}
Ids(recs) == {r.key : r \in Set(recs)}

StoreInit ==
    /\ src \in Sources
    /\ bin = <<>> /\ idx = Absent /\ side = Absent
    /\ tool = NoTool /\ reader = NoReader
    /\ wrote = <<>> /\ asked = {} /\ interrupted = FALSE /\ over = FALSE /\ ran = 0

Idle == tool.st = "none" /\ ran < MaxTools
Touch == reader' = NoReader

-----------------------------------------------------------------------------
(* Writing a store. *)

\* A tool has opened the data file for writing.
Began ==
    /\ ran' = ran + 1 /\ interrupted' = TRUE /\ over' = (idx.st = "whole")
    /\ UNCHANGED <<wrote, asked>>

\* The elements of a set of integers in increasing order.
Sorted(S) == [i \in 1 .. Cardinality(S) |->
                CHOOSE k \in S : Cardinality({j \in S : j <= k}) = i]

\* The records the mask leaves, in the order of the source.
Kept(recs, mask) ==
    LET left == Sorted({i \in DOMAIN recs : recs[i] \notin mask})
    IN  [n \in DOMAIN left |-> recs[left[n]]]

\* compact_store: its checks come before it touches a file.
Compact(mask, allow_missing) ==
    /\ Idle /\ src.sized /\ mask # {}
    /\ mask \subseteq Set(src.recs) \/ allow_missing
    /\ LET kept == Kept(src.recs, mask)
       IN  tool' = [st |-> "data", todo |-> kept, recs |-> kept,
                    from |-> [k \in Set(kept) |-> k], mask |-> mask]
    /\ bin' = <<>> /\ Began /\ Touch
    /\ UNCHANGED <<src, idx, side>>

\* prototype_for
Prototypes(map) == [k \in Set(src.recs) |-> map[k]]

\* merge_expert_store.py: every record keeps its id and is stored where its prototype is.
Merge(map) ==
    /\ Idle /\ src.sized
    /\ \A k \in Set(src.recs) : map[k] \in Set(src.recs)
    /\ tool' = [st |-> "data", todo |-> Sorted({map[k] : k \in Set(src.recs)}),
                recs |-> src.recs, from |-> Prototypes(map), mask |-> {}]
    /\ bin' = <<>> /\ Began /\ Touch
    /\ UNCHANGED <<src, idx, side>>

\* It does not ask whether its output is its source, which is then emptied when it is
\* opened: the first read comes short and the tool fails.
MergeOntoSource(map) ==
    /\ Idle /\ src.sized /\ src.recs # <<>>
    /\ \A k \in Set(src.recs) : map[k] \in Set(src.recs)
    /\ src' = [src EXCEPT !.sized = FALSE]
    /\ ran' = ran + 1
    /\ UNCHANGED <<files, tool, reader, wrote, asked, interrupted, over>>

CopyRecord ==
    /\ tool.st = "data" /\ tool.todo # <<>>
    /\ bin' = Append(bin, Head(tool.todo))
    /\ tool' = [tool EXCEPT !.todo = Tail(@)]
    /\ Touch /\ UNCHANGED <<src, idx, side, history>>

\* Mutant: the index keeps the source's offsets.
SourceOffset(k) == CHOOSE i \in DOMAIN src.recs : src.recs[i] = k

\* nr[2], new_location: where a record's bytes are in the new data file.
Offset(k) == CHOOSE i \in DOMAIN bin : bin[i] = tool.from[k]

\* Opening the index for writing empties it.
TruncateIndex ==
    /\ tool.st = "data" /\ tool.todo = <<>>
    /\ idx' = [st |-> "torn"]
    /\ tool' = [tool EXCEPT !.st = "index"]
    /\ Touch /\ UNCHANGED <<src, bin, side, history>>

Finish ==
    /\ tool' = NoTool /\ interrupted' = FALSE
    /\ wrote' = tool.from /\ asked' = tool.mask
    /\ UNCHANGED <<over, ran>>

\* A merge ends here; it leaves a sidecar alone.
WriteIndex ==
    /\ tool.st = "index"
    /\ idx' = [st |-> "whole", size |-> Len(bin),
               recs |-> [i \in DOMAIN tool.recs |->
                            [key |-> tool.recs[i], at |-> Offset(tool.recs[i])]]]
    /\ IF tool.mask = {} THEN Finish
       ELSE tool' = [tool EXCEPT !.st = "side"] /\ UNCHANGED history
    /\ Touch /\ UNCHANGED <<src, bin, side>>

\* Mutant: the sidecar names the records that were removed.
MaskRemoved(mask) == mask \cap Set(src.recs)

\* write_mask_sidecar writes the mask it was given.
MaskWritten(mask) == mask

WriteSidecar ==
    /\ tool.st = "side"
    /\ side' = [st |-> "there", mask |-> MaskWritten(tool.mask)]
    /\ Finish
    /\ Touch /\ UNCHANGED <<src, bin, idx>>

\* A kill while the sidecar is written leaves some of its lines.
Kill ==
    /\ tool.st # "none"
    /\ tool' = NoTool
    /\ \/ UNCHANGED side
       \/ tool.st = "side" /\ \E part \in SUBSET tool.mask : side' = [st |-> "there", mask |-> part]
    /\ Touch /\ UNCHANGED <<src, bin, idx, history>>

-----------------------------------------------------------------------------
(* Checking and opening one. *)

\* What a read of a record's bytes gives; beyond the end it comes short.
Bytes(r) == IF r.at \in DOMAIN bin THEN bin[r.at] ELSE 0

\* The kept records are byte for byte those of the source.
Payloads == \A r \in Set(idx.recs) : Bytes(r) = r.key

\* verify_compaction: what the verifier says of the files as they stand.
Verifies(mask) ==
    /\ idx.st = "whole" /\ mask # {}
    /\ src.sized /\ Len(bin) = idx.size
    /\ mask \subseteq Set(src.recs)
    /\ Ids(idx.recs) = Set(src.recs) \ mask
    /\ Payloads

Missing == Routed \ Ids(idx.recs)

\* Mutant: the sidecar only has to name as many experts as are missing.
BindsCount(mask) == Cardinality(mask) = Cardinality(Missing)

\* bind_sparse_q8_mask compares the sidecar with the absent records, dense ids included.
Binds(mask) == mask = Missing

\* kvl_expert_store_open, with KVL_MOE_MASK set or not, and the mask it names.
\* The data file's size is not compared with the index.
Accepts(set, env) ==
    /\ idx.st = "whole" /\ idx.recs # <<>>
    /\ IF Missing = {} THEN side.st = "absent"
       ELSE side.st = "there" /\ Binds(side.mask) /\ (set => env = side.mask)

\* The mask the router will use: open exports the sidecar when none is set.
Open(set, env) ==
    /\ tool.st = "none"
    /\ reader' = IF Accepts(set, env)
                 THEN [st |-> "open",
                       mask |-> IF set THEN env
                                ELSE IF side.st = "there" THEN side.mask ELSE {}]
                 ELSE [st |-> "refused", set |-> set]
    /\ UNCHANGED <<src, files, tool, history>>

-----------------------------------------------------------------------------
StoreNext ==
    \/ \E mask \in SUBSET Keys, allow \in BOOLEAN : Compact(mask, allow)
    \/ \E map \in Maps : Merge(map) \/ MergeOntoSource(map)
    \/ CopyRecord \/ TruncateIndex \/ WriteIndex \/ WriteSidecar \/ Kill
    \/ \E mask \in SUBSET Keys : Open(TRUE, mask)
    \/ Open(FALSE, {})

StoreSpec == StoreInit /\ [][StoreNext]_storevars

Loads(recs) == [r \in Set(recs) |-> Bytes(r)]

\* A store the runtime accepts serves, for every expert, the record that the last tool to
\* finish stored for it.  Only a tool killed while it works over an older store can change
\* that: with no index in place before, what a kill leaves is refused or exact.
ServesWhatWasWritten ==
    reader.st = "open" =>
        /\ ~interrupted => /\ Ids(idx.recs) = DOMAIN wrote
                           /\ \A r \in Set(idx.recs) : Bytes(r) = wrote[r.key]
        /\ interrupted /\ ~over => \A r \in Set(idx.recs) : Bytes(r) = r.key

\* What compact_expert_store.py reports as done, over whatever an earlier or killed tool
\* left: the verifier passes it exactly if the source is intact and held every expert of
\* the mask, and the runtime opens it exactly if the mask names every routed expert the
\* source already lacked, no dense id, and leaves a record.
CompactionsOpen ==
    tool.st = "none" /\ ~interrupted /\ asked # {} =>
        /\ Verifies(asked) <=> src.sized /\ asked \subseteq Set(src.recs)
        /\ Accepts(FALSE, {}) <=> /\ Routed \ Set(src.recs) \subseteq asked
                                  /\ asked \subseteq Routed
                                  /\ Set(src.recs) \ asked # {}

\* The router never selects an expert whose record is absent: when a sparse store is
\* accepted the mask in force is exactly the absent routed experts, even after a kill
\* between index and sidecar, and with any mask in the environment.
MaskIsAbsentExperts ==
    reader.st = "open" /\ Missing # {} => reader.mask = Missing
=============================================================================
