---------------------------- MODULE PackPipeline ----------------------------
(***************************************************************************)
(* Packing a checkpoint into the runtime's stores:                         *)
(* tools/prepare_kimi_vl_q8.py, the bounded converter pack_full_text.py it *)
(* runs, pack_full_model.py, and the packers these run one at a time:      *)
(* pack_trunk.py, pack_experts*.py and pack_vision.py.                     *)
(*                                                                         *)
(* A store is two files: data, a sequence of aligned records, and an index *)
(* that names some of them.  What a program knows of its progress is only  *)
(* in memory; a kill at any point leaves the two files and the downloaded  *)
(* shards as they are, and the next run starts from those.                 *)
(***************************************************************************)
EXTENDS Integers, Sequences, FiniteSets

CONSTANTS
    NShards,        \* source shards, numbered in filename order
    LastLayer,      \* decoder layers are 0 .. LastLayer
    FirstDense,     \* first_k_dense_replace: the first layer with experts
    NExperts,       \* n_routed_experts
    Source,         \* weight_map: for a record, the shards of its tensors
    Formats,        \* --expert-format values a user passes
    Revisions,      \* --revision values a user passes
    MaxRuns         \* bound: programs started

Shards  == 1 .. NShards
Layers  == 0 .. LastLayer
Stores  == {"trunk", "experts", "vision"}
Entry(key, rev) == [key |-> key, rev |-> rev]
Partial == Entry(<<"partial", -1, 0>>, "none")    \* bytes of a record that was cut off

VARIABLES
    work,           \* shards in work_dir
    disk,           \* the stores in out_dir
    stamp,          \* SOURCE_REVISION.txt
    run,            \* the program that runs, its arguments, and its result
    pc,             \* where it is
    job,            \* the packer it waits for
    si,             \* index of the shard it is at
    loaded, done_layers, done_globals,
    started,        \* programs started so far
    stale           \* history: stores whose data was truncated under an index that stayed

progress == <<si, loaded, done_layers, done_globals>>
packvars == <<work, disk, stamp, run, pc, job, progress, started, stale>>

-----------------------------------------------------------------------------
(* Records and the shards they need. *)

IsMoe(L) == L >= FirstDense

\* tensor_spec: attention and norms, then the dense or the router and shared part.
TensorSpec(L) == << <<"trunk", L, 1>>, <<"trunk", L, IF IsMoe(L) THEN 3 ELSE 2>> >>

\* The globals: embed, final_norm, lm_head.
Globals == {1, 2, 3}
GlobalKey(g) == <<"trunk", -1, g>>

\* The experts an expert packer selects for a layer, in order.
ExpertSpec(L) == IF IsMoe(L) THEN [e \in 1 .. NExperts |-> <<"experts", L, e>>] ELSE <<>>

\* specs of pack_vision.py: the globals, then the blocks.
VisionSpec == << <<"vision", -1, 1>>, <<"vision", 0, 2>> >>

Set(s) == {s[i] : i \in DOMAIN s}

NamesOf(store) ==
    CASE store = "trunk"   -> {GlobalKey(g) : g \in Globals} \cup UNION {Set(TensorSpec(L)) : L \in Layers}
      [] store = "experts" -> UNION {Set(ExpertSpec(L)) : L \in Layers}
      [] store = "vision"  -> Set(VisionSpec)

\* A checkpoint: every tensor is in some shard.
ASSUME CheckpointAssumption ==
    /\ NShards \in Nat /\ LastLayer \in Nat
    /\ FirstDense \in Layers /\ NExperts \in Nat \ {0}
    /\ Source \in [UNION {NamesOf(s) : s \in Stores} -> (SUBSET Shards) \ {{}}]
    /\ Formats \subseteq {"bf16", "q8", "q5", "none"}

ShardsOf(keys) == UNION {Source[k] : k \in keys}

\* Mutant: a layer is taken to need only its trunk tensors.
TrunkReq(L, format) == ShardsOf(Set(TensorSpec(L)))

\* layer_req
LayerReq(L, format) ==
    ShardsOf(Set(TensorSpec(L)) \cup IF format = "none" THEN {} ELSE Set(ExpertSpec(L)))

GlobalReq(g) == ShardsOf({GlobalKey(g)})

AllShards(format) ==
    (UNION {LayerReq(L, format) : L \in Layers}) \cup (UNION {GlobalReq(g) : g \in Globals})

VisionShards == ShardsOf(Set(VisionSpec))

-----------------------------------------------------------------------------
(* Stores on disk. *)

NoIndex == [st |-> "absent", format |-> "none", recs |-> {}]

\* Names and positions; keys of an index.
Keys(idx) == {r.key : r \in idx.recs}

StoreFormat(s) == IF s = "experts" THEN run.format ELSE "bf16"

\* A packer of store s is started for some records, with --append or not.
Start(s, todo, append) ==
    job' = [store |-> s, todo |-> todo, append |-> append, recs |-> {}, stage |-> "open"]

NoJob == [store |-> "trunk", todo |-> <<>>, append |-> FALSE, recs |-> {}, stage |-> "none"]

\* ta() and ea(): append to what has an index.
Appends(s) == disk[s].idx.st # "absent"

NoRun == [prog |-> "none", format |-> "none", rev |-> "none", keep |-> FALSE, result |-> "none"]

EndRun(result) ==
    /\ run' = [run EXCEPT !.prog = "none", !.result = result]
    /\ pc' = "idle" /\ job' = NoJob
    /\ si' = 0 /\ loaded' = {} /\ done_layers' = {} /\ done_globals' = {}

PackInit ==
    /\ work = {} /\ disk = [s \in Stores |-> [bin |-> <<>>, idx |-> NoIndex]]
    /\ stamp = "none" /\ run = NoRun /\ pc = "idle" /\ job = NoJob
    /\ si = 0 /\ loaded = {} /\ done_layers = {} /\ done_globals = {}
    /\ started = 0 /\ stale = {}

-----------------------------------------------------------------------------
(* The packers. *)

\* load_existing: no index gives no records; a torn index is refused, and by the expert
\* packers also one of another format.
Loadable(s) ==
    /\ disk[s].idx.st # "torn"
    /\ disk[s].idx.st = "ok" => disk[s].idx.format = StoreFormat(s)

\* Mutant: a packer skips what has any record of the same layer.
SkipsLayer(k) == job.append /\ \E q \in Keys(disk[job.store].idx) : q[2] = k[2]

\* existing_keys: what a packer told to append finds in the index.
Skips(k) == job.append /\ k \in Keys(disk[job.store].idx)

\* What it has to write.
Todo == {k \in Set(job.todo) : ~Skips(k)}

\* Mutant: the data file is always opened for writing from its start.
OpenTruncated(append, bin) == <<>>

\* "r+b" and a seek to the end with --append, else "wb".
Opened(append, bin) == IF append THEN bin ELSE <<>>

\* The expert packers look for their shards, and return when there is nothing new, before
\* they touch the data.
OpenStore ==
    /\ job.stage = "open" /\ (job.append => Loadable(job.store))
    /\ IF job.store = "experts" /\ Todo = {}
       THEN job' = [job EXCEPT !.stage = "end"] /\ UNCHANGED <<disk, stale>>
       ELSE /\ job.store = "experts" => ShardsOf(Todo) \subseteq work
            /\ job' = [job EXCEPT !.stage = "write",
                           !.recs = IF job.append THEN disk[job.store].idx.recs ELSE {}]
            /\ disk' = [disk EXCEPT ![job.store].bin = Opened(job.append, @)]
            /\ stale' = stale \cup (IF ~job.append /\ Appends(job.store) THEN {job.store} ELSE {})
    /\ UNCHANGED <<work, stamp, run, pc, progress, started>>

\* A packer that fails ends its program too: subprocess.run has check=True.
OpenFails ==
    /\ job.stage = "open"
    /\ \/ job.append /\ ~Loadable(job.store)
       \/ job.store = "experts" /\ ~(ShardsOf(Todo) \subseteq work)
    /\ EndRun("failed")
    /\ UNCHANGED <<work, disk, stamp, started, stale>>

Writing == job.stage = "write" /\ job.todo # <<>>

SkipRecord ==
    /\ Writing /\ Skips(Head(job.todo))
    /\ job' = [job EXCEPT !.todo = Tail(@)]
    /\ UNCHANGED <<work, disk, stamp, run, pc, progress, started, stale>>

\* One record: padding up to its aligned offset, the tensor's bytes, padding.
AppendRecord ==
    /\ Writing /\ ~Skips(Head(job.todo)) /\ Source[Head(job.todo)] \subseteq work
    /\ disk' = [disk EXCEPT ![job.store].bin = Append(@, Entry(Head(job.todo), run.rev))]
    /\ job' = [job EXCEPT !.todo = Tail(@),
                   !.recs = @ \cup {[key |-> Head(job.todo), at |-> Len(disk[job.store].bin) + 1]}]
    /\ UNCHANGED <<work, stamp, run, pc, progress, started, stale>>

\* The other packers look for a shard when they come to its record.
RecordFails ==
    /\ Writing /\ ~Skips(Head(job.todo)) /\ ~(Source[Head(job.todo)] \subseteq work)
    /\ EndRun("failed")
    /\ UNCHANGED <<work, disk, stamp, started, stale>>

\* The index is opened for writing, which empties it, and then written.
TruncateIndex ==
    /\ job.stage = "write" /\ job.todo = <<>>
    /\ disk' = [disk EXCEPT ![job.store].idx = [NoIndex EXCEPT !.st = "torn"]]
    /\ job' = [job EXCEPT !.stage = "index"]
    /\ UNCHANGED <<work, stamp, run, pc, progress, started, stale>>

WriteIndex ==
    /\ job.stage = "index"
    /\ disk' = [disk EXCEPT ![job.store].idx =
                    [st |-> "ok", format |-> StoreFormat(job.store), recs |-> job.recs]]
    /\ job' = [job EXCEPT !.stage = "end"]
    /\ stale' = (IF job.append THEN stale ELSE stale \ {job.store})
    /\ UNCHANGED <<work, stamp, run, pc, progress, started>>

-----------------------------------------------------------------------------
(* What a user starts. *)

Begin(r) == run.prog = "none" /\ started < MaxRuns /\ run' = r /\ started' = started + 1

\* fetch_real_v2.py, v3.py and v4.py download shards for some layers, and only those.
FetchReal(names) ==
    /\ run.prog = "none" /\ ~(ShardsOf(names) \subseteq work)
    /\ work' = work \cup ShardsOf(names)
    /\ UNCHANGED <<disk, stamp, run, pc, job, progress, started, stale>>

MlpNames(L)     == {TensorSpec(L)[2]} \cup Set(ExpertSpec(L))
LayerNames(L)   == Set(TensorSpec(L)) \cup Set(ExpertSpec(L))
LayersNames(Ls) == UNION {LayerNames(L) : L \in Ls}

StartPrepare(rev, keep) ==
    /\ Begin([prog |-> "prepare", format |-> "q8", rev |-> rev, keep |-> keep, result |-> "none"])
    /\ work' = work \cup VisionShards
    /\ pc' = "vision" /\ Start("vision", VisionSpec, FALSE)
    /\ UNCHANGED <<disk, stamp, progress, stale>>

StartText(format, rev, keep) ==
    /\ Begin([prog |-> "text", format |-> format, rev |-> rev, keep |-> keep, result |-> "none"])
    /\ pc' = "shard"
    /\ UNCHANGED <<work, disk, stamp, job, progress, stale>>

\* All layers and globals in one call.
AllTrunk == [i \in 1 .. 3 + 2 * (LastLayer + 1) |->
                IF i <= 3 THEN GlobalKey(i) ELSE TensorSpec((i - 4) \div 2)[((i - 4) % 2) + 1]]
AllExperts == [i \in 1 .. NExperts * (LastLayer + 1 - FirstDense) |->
                <<"experts", FirstDense + (i - 1) \div NExperts, ((i - 1) % NExperts) + 1>>]

\* pack_full_model.py needs the whole checkpoint and appends to nothing.
StartFull(format) ==
    /\ work = Shards /\ format \in {"bf16", "q8"}
    /\ Begin([prog |-> "full", format |-> format, rev |-> "local", keep |-> TRUE, result |-> "none"])
    /\ pc' = "full_trunk" /\ Start("trunk", AllTrunk, FALSE)
    /\ UNCHANGED <<work, disk, stamp, progress, stale>>

\* pack_trunk.py or an expert packer by itself, for a layer of a fetched subset.
StartPacker(s, L, format, append) ==
    /\ Begin([prog |-> "packer", format |-> format, rev |-> "local", keep |-> TRUE, result |-> "none"])
    /\ pc' = "packer"
    /\ Start(s, IF s = "trunk" THEN TensorSpec(L) ELSE ExpertSpec(L), append)
    /\ UNCHANGED <<work, disk, stamp, progress, stale>>

-----------------------------------------------------------------------------
(* The programs. *)

Least(S) == CHOOSE x \in S : \A y \in S : x <= y

ReadyGlobals == {g \in Globals \ done_globals : GlobalReq(g) \subseteq loaded}
ReadyLayers  == {L \in Layers \ done_layers : LayerReq(L, run.format) \subseteq loaded}

\* Mutant: the next shard is any that is not loaded.
NextUnloaded ==
    /\ pc = "shard" /\ \E s \in AllShards(run.format) : s \notin loaded
    /\ si' = Least({s \in AllShards(run.format) : s \notin loaded})
    /\ work' = work \cup {si'} /\ loaded' = loaded \cup {si'}
    /\ pc' = "pack"
    /\ UNCHANGED <<disk, stamp, run, job, done_layers, done_globals, started, stale>>

NextShard ==
    /\ pc = "shard" /\ \E s \in AllShards(run.format) : s > si
    /\ si' = Least({s \in AllShards(run.format) : s > si})
    /\ work' = work \cup {si'} /\ loaded' = loaded \cup {si'}
    /\ pc' = "pack"
    /\ UNCHANGED <<disk, stamp, run, job, done_layers, done_globals, started, stale>>

PackGlobal ==
    /\ pc = "pack" /\ ReadyGlobals # {}
    /\ Start("trunk", <<GlobalKey(Least(ReadyGlobals))>>, Appends("trunk"))
    /\ pc' = "global"
    /\ UNCHANGED <<work, disk, stamp, run, progress, started, stale>>

GlobalDone ==
    /\ pc = "global" /\ job.stage = "end"
    /\ done_globals' = done_globals \cup {Least(ReadyGlobals)}
    /\ pc' = "pack" /\ job' = NoJob
    /\ UNCHANGED <<work, disk, stamp, run, si, loaded, done_layers, started, stale>>

PackLayer ==
    /\ pc = "pack" /\ ReadyGlobals = {} /\ ReadyLayers # {}
    /\ Start("trunk", TensorSpec(Least(ReadyLayers)), Appends("trunk"))
    /\ pc' = "layer"
    /\ UNCHANGED <<work, disk, stamp, run, progress, started, stale>>

PackLayerExperts ==
    /\ pc = "layer" /\ job.stage = "end"
    /\ run.format # "none" /\ IsMoe(Least(ReadyLayers))
    /\ Start("experts", ExpertSpec(Least(ReadyLayers)), Appends("experts"))
    /\ pc' = "experts"
    /\ UNCHANGED <<work, disk, stamp, run, progress, started, stale>>

LayerDone ==
    /\ job.stage = "end"
    /\ \/ pc = "experts"
       \/ pc = "layer" /\ (run.format = "none" \/ ~IsMoe(Least(ReadyLayers)))
    /\ done_layers' = done_layers \cup {Least(ReadyLayers)}
    /\ pc' = "pack" /\ job' = NoJob
    /\ UNCHANGED <<work, disk, stamp, run, si, loaded, done_globals, started, stale>>

\* Shards of what is not packed yet.
Still == (UNION {LayerReq(L, run.format) : L \in Layers \ done_layers}) \cup
         (UNION {GlobalReq(g) : g \in Globals \ done_globals})

\* Mutant: shards are deleted only when all layers are done.
ConsumedLate == IF run.keep \/ done_layers # Layers THEN {} ELSE loaded \ Still

\* Mutant: nothing is deleted once all layers are done.
ConsumedEarly == IF run.keep \/ done_layers = Layers THEN {} ELSE loaded \ Still

Consumed == IF run.keep THEN {} ELSE loaded \ Still

DeleteConsumed ==
    /\ pc = "pack" /\ ReadyGlobals = {} /\ ReadyLayers = {}
    /\ work' = work \ Consumed /\ loaded' = loaded \ Consumed
    /\ pc' = "shard"
    /\ UNCHANGED <<disk, stamp, run, job, si, done_layers, done_globals, started, stale>>

TextDone ==
    /\ pc = "shard" /\ \A s \in AllShards(run.format) : s <= si
    /\ done_layers = Layers /\ done_globals = Globals
    /\ \/ run.prog = "text" /\ EndRun("ready")
       \/ run.prog = "prepare" /\ pc' = "frontend" /\ UNCHANGED <<run, job, progress>>
    /\ UNCHANGED <<work, disk, stamp, started, stale>>

VisionDone ==
    /\ pc = "vision" /\ job.stage = "end"
    /\ pc' = (IF run.prog = "prepare" THEN "shard" ELSE "frontend") /\ job' = NoJob
    /\ UNCHANGED <<work, disk, stamp, run, progress, started, stale>>

FullTrunkDone ==
    /\ pc = "full_trunk" /\ job.stage = "end"
    /\ pc' = "full_experts" /\ Start("experts", AllExperts, FALSE)
    /\ UNCHANGED <<work, disk, stamp, run, progress, started, stale>>

FullExpertsDone ==
    /\ pc = "full_experts" /\ job.stage = "end"
    /\ pc' = "vision" /\ Start("vision", VisionSpec, FALSE)
    /\ UNCHANGED <<work, disk, stamp, run, progress, started, stale>>

PackerDone ==
    /\ pc = "packer" /\ job.stage = "end"
    /\ EndRun("ready")
    /\ UNCHANGED <<work, disk, stamp, started, stale>>

\* fetch_tokenizer.py, the copies, the revision, and the check that the files exist.
Frontend ==
    /\ pc = "frontend"
    /\ stamp' = (IF run.prog = "prepare" THEN run.rev ELSE stamp)
    /\ \A s \in Stores : disk[s].idx.st # "absent"
    /\ EndRun("ready")
    /\ UNCHANGED <<work, disk, started, stale>>

\* A kill or a crash: memory is lost, and a record that was being written is cut off.
Kill ==
    /\ run.prog # "none"
    /\ EndRun("killed")
    /\ \/ UNCHANGED disk
       \/ /\ Writing /\ ~Skips(Head(job.todo))
          /\ disk' = [disk EXCEPT ![job.store].bin = Append(@, Partial)]
    /\ UNCHANGED <<work, stamp, started, stale>>

-----------------------------------------------------------------------------
Packer  == \/ OpenStore \/ OpenFails \/ SkipRecord \/ AppendRecord \/ RecordFails
           \/ TruncateIndex \/ WriteIndex
Program == \/ NextShard \/ PackGlobal \/ GlobalDone \/ PackLayer \/ PackLayerExperts \/ LayerDone
           \/ DeleteConsumed \/ TextDone \/ VisionDone \/ FullTrunkDone \/ FullExpertsDone
           \/ PackerDone \/ Frontend
User ==
    \/ \E rev \in Revisions, keep \in BOOLEAN :
           \/ StartPrepare(rev, keep)
           \/ \E format \in Formats : StartText(format, rev, keep)
    \/ \E format \in Formats : StartFull(format)
    \/ \E s \in {"trunk", "experts"}, L \in {l \in Layers : IsMoe(l)}, append \in BOOLEAN,
          format \in Formats \ {"none"} : StartPacker(s, L, format, append)
    \/ \E L \in Layers : FetchReal(MlpNames(L)) \/ FetchReal(LayerNames(L))
    \/ \E Ls \in SUBSET Layers : FetchReal(LayersNames(Ls))

PackNext == Packer \/ Program \/ Kill \/ User
PackSpec == PackInit /\ [][PackNext]_packvars
PackFairSpec == PackSpec /\ WF_packvars(Packer \/ Program)

-----------------------------------------------------------------------------
(* Properties. *)

\* The prefix order on data files.
IsPrefixOf(a, b) == Len(a) <= Len(b) /\ \A i \in DOMAIN a : b[i] = a[i]

\* Every record an index names is there, whole, at the position it gives, and once.
Sound(s) ==
    /\ \A r \in disk[s].idx.recs : /\ r.at \in DOMAIN disk[s].bin
                                   /\ disk[s].bin[r.at].key = r.key
    /\ \A r, q \in disk[s].idx.recs : r.key = q.key => r = q

\* Whatever was killed before, when a program reports success the indexes of the stores
\* it packs can be read and name a whole record for every tensor: pack_full_text.py for
\* the text model, prepare_kimi_vl_q8.py and pack_full_model.py for the image part too.
ReadyIsComplete ==
    [][run.result = "none" /\ run'.result = "ready" /\ run.prog # "packer" =>
        /\ \A s \in Stores \ stale : Sound(s)
        /\ Set(AllTrunk) \subseteq Keys(disk["trunk"].idx)
        /\ run.format # "none" => Set(AllExperts) \subseteq Keys(disk["experts"].idx)
        /\ run.prog # "text" => Set(VisionSpec) = Keys(disk["vision"].idx)]_packvars

\* prepare_kimi_vl_q8.py:129 prints PASS: the indexes name whole records, whatever
\* programs were run, and killed, on the directory before.
PassIsSound ==
    [][run.prog = "prepare" /\ run'.result = "ready" => \A s \in Stores : Sound(s)]_packvars

\* Between emptying an index and writing it, only its packer knows the records it named.
Rewriting(s) == job.stage = "index" /\ job.store = s

Named(s) == IF Rewriting(s) THEN job.recs ELSE disk[s].idx.recs

\* What an earlier run packed, a run of prepare or of the converter keeps: data files only
\* grow, and every record an index names stays named, over the rewriting of the index too.
\* The one loss is that of a kill between the emptying and the writing, which leaves an
\* index that every later packer refuses (idxp.write_bytes, pack_trunk.py:107).
ResumeKeeps ==
    [][run.prog \in {"prepare", "text"} =>
        \A s \in {"trunk", "experts"} :
            /\ disk[s].idx.st # "absent" => IsPrefixOf(disk[s].bin, disk'[s].bin)
            /\ \/ Named(s) \subseteq Named(s)'
               \/ run'.result = "killed" /\ Rewriting(s) /\ disk'[s].idx.st = "torn"]_packvars

\* The converter never misses a shard it deleted too early and leaves out no layer: apart
\* from a kill, it fails only on an index that is torn or of another format.  Downloads are
\* taken to succeed; one that fails ends the program as a kill there does.
FailsOnlyOnIndex ==
    [][run.prog \in {"prepare", "text"} /\ run'.result = "failed" =>
        \E s \in {"trunk", "experts"} : ~Loadable(s)]_packvars

\* No layer and no global needs two shards with another between them that is packed from.
Neighbours ==
    \A format \in {"bf16", "q8", "q5", "none"} :
        \A req \in {LayerReq(L, format) : L \in Layers} \cup {GlobalReq(g) : g \in Globals} :
            \A x, y \in req, z \in AllShards(format) : ~(x < z /\ z < y)

\* pack_full_text.py:4-8, "needs at most two adjacent source shards simultaneously": of
\* the text model's shards up to the one the converter is at, at most two are in work_dir,
\* whatever prepare downloaded for the image part or a killed run left there; and it puts
\* no shard there but the one it is at.  Shards ahead of it, which it found, come on top.
TwoShards ==
    [][run.prog \in {"prepare", "text"} /\ ~run.keep /\ run' = run =>
        /\ Cardinality({s \in work' \cap AllShards(run.format) : s <= si'}) <= 2
        /\ work' \subseteq work \cup {si'}]_packvars

\* prepare_kimi_vl_q8.py:136: after success no shard of the text model is left.
ShardsConsumed ==
    [][run.prog \in {"prepare", "text"} /\ run'.result = "ready" /\ ~run.keep =>
        work' \cap AllShards(run.format) = {}]_packvars

\* A program that is not killed ends.
ProgramEnds == run.prog # "none" ~> run.prog = "none"

=============================================================================
