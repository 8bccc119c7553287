# A verification project for the Kimi-VL low-RAM runtime

The repository runs a 16-billion-parameter mixture-of-experts model in a few
GiB of RAM: routed experts stay on disk and pass through a small cache, dense
weights come from a second store, and Python tools convert the model, plan the
memory, serve it, and decide by experiment which experts can be left out. The
modules here model the parts of it whose correctness is a matter of control:
tables that must agree, processes that must not overlap, files that a crash must
not spoil, verdicts that must be about what was run. Arithmetic on weights is
left to the repository's reference tests.

Everything is translated from the source; `PROJECT.json` ("map") gives the
lines behind each definition.

## 1. Inventory

| Component | State | Operations | Interacts with | Modules |
|---|---|---|---|---|
| Expert cache (`src/expert_cache.c`) | arena of slots; `slot_of`, `key_of`, `used_at`, `clock`, `record_of_slot`, `pinned_of` | init, pin_layer, resident, get, getmany, close | reads the expert store; called by every MoE step | ExpertCache, ExactCache |
| MoE token step (`src/gguf_q8_moe.c`, `ops.c`, `q8_ops.c`, `q5_ops.c`) | phase detector | route, pin, getmany, get per expert | expert cache, router | MoeToken |
| Dynamic skip (`src/moe_dynamic_skip.c`) | prompt classes, call tracker, policy | runtime_init, classify, token | wraps the MoE step; is told a layer and nothing else | DynSkip |
| Generator (`src/generate.c`, `generate_vl.c`) | prompt, sampled tokens, attention states | prefill, decode loop, stop | everything above; its stdout is read by the server | MoeToken, Decode, ApiServer |
| MLA state (`src/mla_*state.c`) | rows, length, capacity | init, block, truncate, clone | generator, both labs | Decode |
| Block verification, self-speculation (`src/exact_block_verify.c`, `self_spec_sweep.c`) | draft and target states | draft, verify, accept, truncate, commit | MLA state | Decode, Greedy |
| HTTP server (`tools/kvl_api.py`) | one lock, a thread and a generator a request, prompt files, connections | POST messages / chat completions (JSON or stream), count_tokens, GET endpoints | generator over a pipe; clients over sockets | ApiServer, FrontEnds |
| Command-line front ends (`tools/kvl_chat.py`, `kvl_vl_chat.py`, `kvl_vl_two_turn.py`, `kvl_doctor.py`, `kimi_tokenizer.py`, `kimi_image.py`) | arguments, the turns so far | check, plan, format, spawn, decode | planner, generator, model directory | FrontEnds |
| RAM planner (`tools/kvl_memory_plan.py`) | none (a function) | plan, resolve the trunk cache | every front end | RamPlan |
| Packing pipeline (`tools/prepare_kimi_vl_q8.py`, `pack_*.py`, `fetch_real_*.py`) | shards, packed data, index files | fetch, append, rewrite index, delete shard, rerun | stores | PackPipeline |
| Expert store (`src/expert_store.c`) | header, index, file, mask binding | open, bind, find, close | files written by packing and compaction | ExpertStore |
| Sparse compaction (`tools/compact_expert_store.py`, `merge_...`, `verify_...`) | data, index, mask sidecar | compact, merge, verify | expert store | ExpertStore |
| Pruning experiments (`tools/run_kimi_pruning_*.py`, `gate_...`, `compare_kimi_moe_routes.py`, `analyze_kimi_moe_trace.py`) | traces, masks, comparisons, a summary | calibrate, analyse, run, compare, select, rerun | generator, route traces | PruningScreen |
| A/B gates (`tools/run_kimi_*_ab.py`, `*_gate.py`, `*_intelligence.py`, `*_equivalence.py`, the rescorer) | rows read back, a verdict | run both arms, compare, judge, rescore | generator, its environment, its output files | AbGates |
| Trunk store, streaming attention, vision tower, kernels, traces and dumps, offline analysis | see "Not modelled" | | | - |

What makes them hard:

- **Interleaving.** getmany's workers write the arena in parallel; the server's
  handlers, generator processes and clients move independently, and a
  generator's exit, its last output and the handler's next read race.
- **Partial failure.** Some reads of a batch are short; a generator dies after
  half an answer; a client leaves in the middle of a stream; a file write fails.
- **Timeouts and kills.** A generator has three seconds after SIGTERM.
- **Crashes and reruns.** A server stop abandons threads, processes and files;
  packing, compaction and screens are killed between any two writes and run
  again over what they left. Route traces are opened to append.
- **Implicit protocols.** Pin activation and the dynamic skip infer where the
  generator is from the order of calls.
- **Ambient state.** Generators inherit their driver's environment, and gates
  read files that the generator may not have written this time.
- **Limits.** Every slot pinned or reserved; a full pipe; a byte budget; rows of
  an attention state.

What correct means, per component, is the list of properties in section 3.
`PROJECT.json` ("hazards") gives each hazard at its line with the properties
that guard it.

## 2. What is modelled

### ExpertCache, ExactCache

`ExpertCache.tla` is `src/expert_cache.c`. The tables are functions with the
code's names; keys are layer-expert pairs, which the code flattens to an index.
`arena[s]` is the identity of the record whose complete bytes slot *s* holds, or
`Torn`.

A call is one action unless it reads. `get` is `GetHit`, `GetRefused`, or
`GetMiss` (reserve) followed by the read and `GetFinish`. `getmany` is
`GetMany` (which computes the avoid list), then the three phases of the code:
`SkipMember`/`ReserveMember`/`AbandonRest` a member at a time, the workers'
`ReadBegin`/`ReadEnd` in any interleaving with a barrier (`JoinWorkers`), and
`Publish` in file order. `pick_victim` is the operator `Victims`. A read ends
complete or short at will. `work` is the PrefetchWork array; `last_use` is a
history variable that EvictsOldest compares with what `used_at` decides.
Statistics counters are left out. So is a read larger than its slot, which
`init` excludes by sizing the slots, and allocation failure.

`ExactCache.tla` says what callers may rely on, without slots, stamps or
phases. `ImplementsExact` is the refinement.

### MoeToken

`MoeToken.tla` extends ExpertCache with the caller the cache has in the text
generator. A generation walks layer by layer over the prompt (`prefill_prompt`),
then token by token over the layers (`forward_token`), sampling in between
(`Sample`). For each token and routed layer comes one MoE step: `RouteToken` is
the phase detector, the router and `pin_routes`; `FetchBatch` the getmany;
`TakeHit`, `TakeMiss`, `TakeRead` and `TakeRefused` the gets in route order, of
which the first that fails aborts the process. `CacheRuns` is what happens
inside the cache meanwhile. Every action on the cache is one of ExpertCache's
own.

`layerpins` chooses between the two builds of the step, `hysteresis` between
the two pin policies. The router is external to the questions asked here: it
returns any element of `Routes`. The insertion by which the code keeps the
heaviest old pins, and its repeated search for the heaviest remaining route, are
both `Heaviest`, with the code's rule for ties. The detector tells layer 26 by
its number; the model by `LastLayer`. `StepFails` stands for failures that are
not the cache's.

### Decode, Greedy

`Decode.tla` is three programs over the compressed attention states of
`mla_compressed_state.c`: the generator at temperature zero, the block verifier
and the self-speculation lab. A state is the token each of its rows was computed
from, and a length; `Clone`, `Fed`, `Truncated` and `Takes` are the operations,
with the position and capacity checks of the block calls. The exact model is any
function from a text to its best next token; a draft, which comes from quantised
states with layers left out, is any token. `Break` is a refusal or a failed read
at any call. The layers of a state advance together or the program exits, and
are one state here.

`Greedy.tla` is what decoding promises: a text grows from the prompt by best
tokens, or an attempt begins again. `ImplementsGreedy` refines it twice, for the
serial baseline and for the states the lab goes on from.

### DynSkip

`DynSkip.tla` is `moe_dynamic_skip.c` under its generator: the prompt classifier
as a scan (`After`, `FamilyAt`), the tracker that guesses from the order of
calls which token a call is for (`Started`, `Advanced`, `FamilyNow`), the policy
file and the keep rule (`Kept`). Each token of a prompt carries its owner, what
the chat template wrote it for, which the dispatcher is never told; the property
compares the two. The id file it is given may be that of another prompt, or
missing. `Parameters` collects what the proofs assume of the constants; TLC
evaluates it on the values of the run (`SkipAssumption`).
`DecodeSkip` composes it with Decode (`Skip == INSTANCE DynSkip`): a behaviour is
of the one or of the other, since both are the generator, and one run explores
both.

### ApiServer

`ApiServer.tla` is the generation path of `tools/kvl_api.py` and, as far as the
server can see it, the generator process. `pc[r]` follows a handler thread from
`do_POST` (`Reject`, `Accept`) to the lock (`Acquire`), through `generate`
(`WriteIds`, `Spawn`, `ReadToken`, `Delta`, `Drained`, `Wait`, `Tail`; `Abort`
and `Reap` for its `except`, `Unlink` for its `finally` and the release) and to
the response (`Answer`). `failure[r]` is the exception on its way up. `Unlink`
may leave the prompt file, because the code passes over an OSError; so may a
write that fails, because the file is made before the `try`.

A generator prints tokens into a bounded pipe (`Emit`), returns 0 (`Finish`),
fails anywhere (`Fail`) or ends after a signal (`Succumb`). Tokens are counted;
one may leave the UTF-8 decoder in the middle of a sequence, in which case its
text comes with a later delta or with the tail. A client reads, stalls or
leaves. The operator may stop the server, which makes its daemon threads vanish
where they are, and start it again.

### RamPlan, FrontEnds

`RamPlan.tla` is the plan as a function of prompt, answer and caches, with the
two sums the code has (`PlannedText`, `PlannedChat`) and the automatic trunk
cache (`AutoTrunk`).

`FrontEnds.tla` extends it with the four programs that turn a request into a
generator: arguments, missing and foreign files, image size, plan, prompt,
spawn, what is printed and how the program ends, both turns of the two-turn
chat, the doctor, and one kept-alive API connection with authorization, body
length, parsing, planning, streaming headers and errors after them. A plan is
made once, before the vision tower or the lock, and kept in `trunk_mib`; `Spawn`
starts the generator with it and checks nothing again. A body that nobody read
(of a GET or OPTIONS, without the key, or of a refused length) stays on the
connection; what `http.server` makes of it is open: `Misread` answers it with any
of the parser's errors, or not at all, and closes, or else it is served as a
request. A token is
its role in the template; a user may type a special token, since `encode`
allows it. `Dialogue` is `kimi_prompt_ids`: each message's `SystemPart` and
`TurnPart`, one after the other; `Usable` and `Positive` are the options' checks.

### PackPipeline

`PackPipeline.tla` has the files of a conversion (`work`, `disk`, `stamp`), the
program that runs (`run`, `pc`) and the packer it waits for (`job`). A packer
opens its store, appends records one at a time and rewrites its index in two
steps, since opening it for writing empties it. A record in the data is an
`Entry(key, rev)`; `SkipRecord` passes over a key the index has. The converter is `NextShard`,
`PackGlobal`, `PackLayer`, `PackLayerExperts` and `DeleteConsumed`, with the
requirements of layers and globals computed from `Source` as the code computes
them from the weight map. `Kill` ends a program anywhere, with or without a
record cut off; the next one starts from the files. Single packers with and
without `--append`, `pack_full_model.py` and the fetch tools are users' moves
too.

### ExpertStore

`ExpertStore.tla` has the three output files of a compaction or merge, written
one after the other over whatever is there, the tool that writes them, the
verifier, and `kvl_expert_store_open`, which accepts or refuses what it finds
and exports or compares the mask. `Kill` may leave part of a sidecar. A merge
may name its own source as its output (`MergeOntoSource`), which spoils the
source's data; naming only the source's index is left out. `Verifies` is the
verifier as a function of the files.
`interrupted`, `over`, `wrote` and `asked` are history: what the last tool that
finished stored, with which mask, and whether a later one did not finish, over
an index or not.

### PruningScreen

`PruningScreen.tla` is the six drivers that look for experts to leave out. A
tool calibrates (phase A and B), builds masks from the traces, runs a base and
every candidate on every item, compares tokens, logits and routes, and selects.
Trace files are sequences of generations, because the generator appends; a
generator or a tool dies anywhere, in a calibration as in a comparison
(`CalibrationDies`, `GenerationDies`), and a later execution in the same
directory finds what is there, part of a generation included. The model scores the experts of every prompt as it likes
(`Scores`); a layer routes the best it is left by the mask, the lower number
first among equals, and where an earlier layer's route changed, the layers after
it route by other scores. What a changed route does to tokens and logits is open.
Sums over items, prompts and keys are `Total`, the number of units in them.

### AbGates

`AbGates.tla` is the drivers that run a policy against its baseline. `world` is
what the policy, the mask and the files really are; a gate sees only rows. The
environment each arm runs in is computed from the variables the driver was
started with and what the driver sets or removes, as the code does; `ReadBy` has
the variables the generator reads, the profile trace that takes the place of the
route trace among them. Either arm may lose direct I/O or a read (`failed`), the
trunk cache may stay below 1600 MiB (`large`), the skip count may not be the one
the suite gives (`exact`), and a suite may ask for more tokens than were printed
(`least`). Answers are sequences of lines of five kinds, which is what the two
scorers tell apart. `Worlds` gives the worlds each gate may meet (any, in the
proofs). `Rerun` repeats a gate in its directory, from another environment; the
three that can read a file of an earlier run are repeated: `equal` its route
traces, `skip` and `hard_vl` the statistics.

## 3. Runs

| Run | Properties | Bounds | Result |
|---|---|---|---|
| `cache_safety` | CacheInv, EvictsOldest, ImplementsExact, CallsReturn | 2 layers x 2 experts, 3 records, 2 slots, batches of 2, clock up to 6 | holds |
| `moe_pins` | MoeInv, BatchHits, PinsFollowPhase, PinsReplaced | 2 routed layers x 5 experts, 3 routed a token, 2 pins a layer, 7 slots, 3 tokens generated | holds |
| `moe_tight` | GetServed, GenerationEnds | the same with 1 pin a layer, 2 slots, a missing record, a prompt of 2, 2 tokens generated | holds |
| `decoding` | ImplementsGreedy, FailsOnlyByRead, SkipsAsIntended | 2 tokens, a stop among them, blocks of 3, 2 draft masks, all models that look at length and last token; skip: 2 layers, 3 routed, 3 dialogues, 8 policy files | holds |
| `api_requests` | OneGeneratorHeld, NormalEndIsComplete, IdsRemoved, ApiInv, RequestsEnd | a stream and a plain request, 2 tokens, a pipe of 1, one stop | holds |
| `api_overlap` | OneGenerator | 2 requests, 1 token | violated |
| `front_ends` | StartsWithinPlan, AutoGivesBack, PromptsAreDialogues, NoRefusalInStream | every front end and endpoint, one thing wrong at a time, 2 requests a connection | holds |
| `pack_resume` | TwoShards, ReadyIsComplete, ResumeKeeps, FailsOnlyOnIndex, ShardsConsumed, ProgramEnds | 3 shards, a dense layer and 2 with experts, 2 programs, 3 formats | holds |
| `pack_over_truncated` | PassIsSound | 3 shards, 2 layers, 3 programs | violated |
| `store_sparse` | ServesWhatWasWritten, CompactionsOpen, MaskIsAbsentExperts | 3 experts, 3 sources, 3 manifests, 3 tools, every mask | holds |
| `pruning_screen` | MasksFollowCalibration, EvidenceOfThisRun, StrongestSelected, HarmlessPasses | 2 layers x 3 experts, 2 calibration prompts, a held-out prompt, an image, 5 lists, 2 executions | holds |
| `ab_gates` | PassKeepsTokens, PassTestsPolicy, RegressionNeverPasses | 8 gates, 2 cases, 5 answers and the empty one, one rerun | holds |

What they show:

- *cache_safety*: the two tables stay inverse and exact through every
  interleaving of reservations, worker reads and publications, whatever reads
  fail; no slot is lost on an error path; replacement is LRU outside pins and
  the batch; every call returns.
- *moe_pins, moe_tight*: with the slots `pin_routes` demands no batch is short of
  a victim and a batch without failed reads serves every member, though
  getmany's result is ignored; pins begin with decoding and are replaced by
  current routes; in a cache too small, nothing stored is refused and the
  generation ends.
- *decoding*: a rejected draft leaves nothing behind, the last row is enough
  and never one too few, and speculation says what greedy decoding says; the
  dynamic skip guesses every token's family right from the order of calls.
- *api_requests*: generators do not overlap until one is killed or abandoned; a
  normal end is a whole answer; the lock is given back on every path, and a prompt
  file is left only by a failed write, a refused unlink or a stopped server.
- *front_ends*: the one plan is still that of the generator started after the
  vision tower or the lock, the second turn included; the prompts made by hand
  are those the template gives; a refusal is never written into an open stream.
- *pack_resume*: success means complete and sound stores after any kills. Data
  only grows and what an index names stays named, except when a kill hits between
  emptying an index and writing it: those names are lost, and every later packer
  refuses the index. The two-shard bound of the converter's docstring holds of
  the text shards on disk up to the one it is at; shards ahead of it that prepare
  downloaded for the image part, or a killed run left, come on top.
- *store_sparse*: what opens serves what was written, under a mask that is
  exactly the absent experts; a finished compaction verifies and opens exactly
  when its mask and source allow it, whatever a killed one left before.
- *pruning_screen*: repeated trace files and masks in the environment fail a
  comparison or leave its counts right; masks are right about calibration.
- *ab_gates*: a gate that compares tokens passes no policy that changes one; a
  pass shows of the policy what `PassTestsPolicy` lists gate by gate, which for
  the hard-VL gate is little: it passes a policy that never skips; and that gate
  hides no regression behind a better answer.

**Bounds.** `MaxBatch` and `MaxClock` bound the cache's calls, `MaxRestarts` the
server's stops, `MaxRuns`, `MaxTools` and `MaxReruns` the programs started over
one directory, `MaxRequests` a connection; the other constants are the program's
own parameters, made small. Two slots for three records make every batch of two
compete with residents and pins, and leave a miss with no victim; file order
differs from key order; six ticks fill the cache, evict and fill it again.
Seven slots are exactly what `pin_routes` demands for two layers of two pins and
a batch of three; the third token is the first that finds pins of its own layer
to keep or replace. Two slots are fewer than a batch and than the pins demand.
`MaxClock` is out of reach in both MoE runs. A block of three has drafts that
are accepted, rejected at once and rejected late, a second mask a state that was
truncated before. Two requests are enough for one to wait for the other, two
tokens for a decoder left in the middle, a pipe of one for a generator blocked
while its handler no longer reads; requests are interchangeable, so the run with
liveness fixes one as a stream and one as a plain request. Two streams, or two
plain ones, are left to `api_overlap`, which is symmetric, and to the proofs. Two programs on
one directory are a killed one and its rerun; layer 1 crosses from shard 1 to 2
and layer 2 from 2 to 3, so a shard is needed twice. Three tools are a store, a
killed one over it, and another. In the front ends the RAM settings are one that
fits nothing, one that fits short prompts and one that fits all.

**Deadlock** is not checked where the programs end: after the last program,
tool, request or verdict nothing moves. The cache, the generator and the server
are checked for it.

**Fairness.** In the cache, the calling thread and the workers run (`WF(Main)`,
`WF(Worker)`): between reads the code never waits and `pread` returns. Nothing
obliges a caller to make another call. A generation is one thread whose next
step is taken (`WF(Proceed)`), its reads included; `StepFails` is under no
obligation. In the server, each handler thread runs (`WF(Handler(r))`) and so
does each generator that is not blocked on its pipe (`WF(Generator(r))`). The
lock needs no strong fairness, as each handler takes it once. Nothing is assumed
of clients, failures or the operator; `RequestsEnd` itself assumes that no
client stays connected for ever without reading, because the handler writes to
the socket with the lock held and the socket has no timeout. In the packing
pipeline the one program that runs, with the packer it waits for, goes on
(`WF(Packer \/ Program)`); kills and users are free.

**The violated properties.** `OneGenerator` is what the server's docstring and
`docs/local_api.md` say: two clients cannot launch two generators at once.
`generate` waits three seconds after SIGTERM, then kills the process and returns
without waiting for it (`tools/kvl_api.py:344`), and the lock is free while the
killed process may still exist. `OneGeneratorHeld`, which leaves killed and
abandoned processes out, holds and is proved.

`PassIsSound` is prepare's PASS. A packer started without `--append` truncates
the data of an existing store before it rewrites the index
(`tools/pack_trunk.py:74`). Killed in between, it leaves the old index over new
bytes; prepare then appends, trusts that index and prints PASS over records that
are not there. `ReadyIsComplete` excludes stores in that state (`stale`).

**Noted beside the properties.** A compaction killed over an older store can
leave the old index over new bytes; the runtime
compares no sizes and may accept it. `ServesWhatWasWritten` therefore speaks of
the last tool that finished, or of kills where no index was. Compacting a store
that is already sparse writes a sidecar with the new mask only
(`tools/compact_expert_store.py:179`); the runtime refuses it unless the mask
repeats what was missing, which is the second half of `CompactionsOpen`. A skip
gate repeated in a used directory reads an earlier statistics file
(`tools/run_kimi_dynskip_vl_gate.py:243`,
`tools/run_kimi_dynskip_vl_intelligence.py:435`), and the first one's baseline
inherits `KVL_MOE_MASK` (its environment is built at line 205); the gate
properties exclude those conditions by name (`SoundStatistics`,
`SoundBaseline`), since the code notices neither. With `KVL_MOE_PROFILE_TRACE`
set (`src/q8_ops.c:189`) the equivalence gate compares the route traces of an
earlier run, if there are any. A harmless policy is not always let through: a
lost read, too short an answer, a small resident cache or a skip count the suite
does not give fails it. A client that stops reading without leaving blocks the
server (`tools/kvl_api.py:321`), a generator whose server was stopped goes on
beside the next server's (`:408`), and a body refused unread is parsed as the
next request (`:523`); nothing is promised of these three.

## 4. Proofs

All for every value of the constants that meets the named assumptions.

`MoeToken_proofs`, its first part (any layers, experts, records, slots, batch
lengths), about ExpertCache: `CacheInvariant` is the inductive invariant; `TablesAgree`, `ResidentIsExact`
and `NothingLeaks` follow; `EvictionIsLRU` is EvictsOldest. MapsInverse survives
`Fill` only if the reserved slot belongs to exactly one entry of `work`
(`Reserved`, `WorkDistinct`) whose key is in no slot (`WorkAbsent`);
ResidentExact needs `WorkRead`, that a complete entry's slot still holds its
bytes; NoLeakedSlot follows from `Reserved` and `Phases`. EvictsOldest compares
recency of keys with stamps of slots, which `Stamps` connects. Assumptions:
`CacheAssumption` (at least one slot, model values distinct) and
`DistinctOffsets` (two records do not start at one offset; without it `qsort`
may publish in either order). `CacheIsExact` is the refinement of ExactCache: the
abstract capacity follows from an injection of resident keys into slots
(`SlotEach`), the bytes a call returns from `OutInv`.

`MoeToken_proofs`, its second part (any layers, experts, tokens, pins, slots,
routes of distinct experts): `ClientOfCache`, a generation is a behaviour of the cache, so the
theorems above hold in it; `MoeInvariant`; `PinsAwaitDecode`, which needs
`Detector`, what the detector's one variable holds at each place of the walk;
`NoGetRefused`: `PinsFit` bounds the pins of a layer, `PinsCounted` adds the
layers up by an injection into a grid, and `RoomForOne` concludes that a slot is
empty or evictable, of which `VictimExists` finds the one `pick_victim` returns.
`BatchesServe` is BatchHits: `BatchKept` says what `getmany` has done so far for
the step's members (in a slot, being read, or still to reserve), and
`RoomForMember` counts the slots that cannot go, pins and other members, against
`Needed`. `PinsRenewed` is PinsReplaced: `HeaviestExact` shows that counting the
heavier positions selects exactly as many as asked for and none lighter than one
it leaves, and `PinSetExact` adds what hysteresis keeps.
Assumptions: `MoeAssumption` (at least two routed layers, since with one the
detector would fire in prefill; a batch no longer than the cache's bound) and
`RoutesAssumption`.

`ApiServer_proofs` (any requests, tokens, pipe, stops): `ApiInvariant`, and from
it `GeneratorsSerialized`, `NormalEnds`, `IdsAreRemoved`. `LockOwner` says the
lock belongs to the handler inside `generate`; `Generators` limits a live or
terminating process to a handler there; `Failures`, `Tokens` and `Answers` carry
what a handler knows of its generator up to the response; `Files` does so for
the prompt file.

`Decode_proofs` (any exact model, prompt, block length or limit, drafts; the labs
refuse a block of one, the generator a limit of none):
`DecodingIsGreedy` is ImplementsGreedy, from an invariant on what every state
holds at each stage (`GInv`); `OnlyReadsFail` is FailsOnlyByRead, which adds
that positions always fit (`Counted`) and that no comparison differs
(`Verdict`). The core is `OneText`: two texts that are greedy from the same
prompt agree, by the least position at which they would not.

The second part of `Decode_proofs` is about DynSkip (any dialogues in which only
users show images, policy files, weights, at least two MoE layers, of which the
code has 26): `SkippingInvariant`, and from it `SkippingFailsClosed`, which is
SkipsAsIntended. What the property says of a token is not inductive, since the
dispatcher never sees one: `Follows` relates its tracker to the generator's next
call instead. Either the tracker is at that call (and, under a prompt of another
length, still in the first layer), or it is at another layer and the call will
be refused, or both have left the prompt. `FamiliesAreOwners` is the other half:
a scan of the ids finds each token's owner. It is proved by relations `Reads(a,
s, b)` (from state a, text s is classified as written and leaves the scan in b)
that compose over concatenation, from a header, a word and an image up to any
number of turns. `KeptExact` shows that the keep rule drops only the lightest
routes and no more than min_keep allows: the routes before the first one skipped
are kept. Assumption: `SkipAssumption`.

`ExpertStore_proofs` (any experts, sources, manifests, number of tools):
`ServesTheWritten`, `FinishedCompactionsOpen`, `MasksAreAbsentExperts`. `Writing`
says what a running tool has copied and still owes, `Left` what it leaves, and
`Readings` that an open store does not survive a write.
`SortedIs` and `KeptIs` establish what the counting definitions of a sorted set
return. Assumption: `StoreAssumption` (sources and manifests are of the right
type).

`PackPipeline_proofs` (any layers, experts, shards and tensors in shards, number
of programs): `PackInvariant`, and from it `SuccessIsComplete`, `ResumedRunKeeps`,
`ConverterMissesNothing`, `NothingLeft` for the action properties. None of these
is inductive by itself: a converter that succeeds only knows that it has done
each layer, so `Achieved` says what is in the indexes for every layer done, and
`Asked` and `Written` what the packer at work still owes and already has, under
the index it has emptied. `Held` is why no needed shard is missing: every shard
passed that some unfinished layer or global needs is still held, and nothing
else. `Disks` leaves out stores whose data is newer than their index (`stale`).
Assumption: `CheckpointAssumption` (every tensor is in some shard).
`TwoShardsAtATime` adds the hypothesis `Neighbours`, that nothing to pack spans a
shard that is packed from, which is the docstring's condition and holds of the
model's checkpoint (TLC evaluates it). It is about the files in the work
directory: those up to the current shard are held by the converter, and by `Near`
all it holds but one are the current one.

`FrontEnds_proofs` (any jobs, settings, grids of patches, limits): `AutoTrunkFits`
is arithmetic over any sizes. `FrontInvariant` follows a request through its
phases: `Seen` and `Requested` say what was checked before it went on, `Kept`
that from the plan to the start nothing it was made for changes, `Running` and
`Planned` that generator or refusal belong to the current prompt and plan. From it `NeverOverBudget`,
`AutomaticCacheGivesBack` and `StreamsAreNotRefused`;
`HandMadePromptsAreDialogues` adds that the splice, cut at the first stop token,
is the dialogue's. Assumption: `FrontAssumption`
(options are integers, texts are sequences of tokens).

`AbGates_proofs` (any number of cases and reruns, any answers, any worlds of the
type each gate's code admits): `GatesInvariant`. `Collected` says that the rows
are the first runs of the plan and `Faithful` that each says what its run did;
`Appended` and `Written` do so for the route traces and the statistics files,
which an earlier execution may have left; `Concluded` is what a verdict implies
about the world. From it `EqualTokensPass`, `PassesTestThePolicy` and
`NoAnswerIsLost`. The totals of the diverse gate are recursive sums, whose
existence for any number of cases is `TotalExists`, by its least counterexample.
Assumption: `GatesAssumption`.

`PruningScreen_proofs` (any layers, experts, scores, suites, masks in the
environment, number of executions): `ScreenInvariant`. `Placed` and `Collected`
say where the loops of a tool are, that the rows are those of the comparisons
done, and what each says of its item and mask. The evidence is the hard part:
`FullFirst` says that no candidate left a trace where the full store did not,
and `Appended` that if the full store's file holds one generation, which is
then this execution's, so does the candidate's; `SingleGeneration` concludes that
the comparison, which refuses an expert counted twice at one place, accepts no
other file. `Calibrated` is its counterpart for the analysis, which accepts
repeated files: every calibration prompt left one generation in the environment
of this execution, so what it selected is not unseen. `EvidenceIsClean`,
`AnalysisIsRight`, `StrongestIsSelected` (`NestedThroughout`: a list in which
each contains the one before) and `HarmlessMaskPasses` (`TopUnmasked`: a mask of
experts that are not chosen changes no choice) follow. The keep masks have the
right size by `FirstExact`: in a strict order, the elements that fewer than n
others precede are n. Assumption: `ScreenAssumption`.

Where a proof needs induction over numbers it takes the least counterexample
(`LeastNatural`, from the library's well-foundedness of the order on naturals).

Only model-checked: liveness (CallsReturn, GenerationEnds, RequestsEnd,
ProgramEnds), which the prover cannot do under fairness. Every safety invariant,
action property and refinement of the passing runs has a theorem. Also out of
the prover's reach are ENABLED, induction over data, and RECURSIVE operators; no
module declares one.

## 5. Not modelled

- *Trunk store*: a map from names to file ranges, read by one thread. Its cache
  only grows; its one check compares a size with what is left before it adds.
- *Prompt streaming attention, vision tower, numeric kernels*: floating-point
  functions without state across calls, compared with reference tensors by the
  repository's tests.
- *Traces and dumps*: output that feeds nothing back; that the route trace is
  appended to is part of PruningScreen.
- *Offline analysis* (`analyze_kimi_moe_profile.py`, `analyze_kimi_reap_vl.py`,
  `kimi_compression_lab.py`, `simulate_kimi_dynskip.py`,
  `kimi_moe_token_profile.py`): one pass of statistics over recorded data.
- A `KVL_MOE_PROFILE_TRACE` set around a pruning screen, which takes the place
  of the traces the screen names; AbGates has it for the equivalence gate.
- Inside modelled components: sampling with a temperature, the router's
  selection rule, the splice of image rows, byte-pair encoding, quantisation,
  timings and reports. `mla_state.c` is used by probes only.
