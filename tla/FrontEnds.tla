------------------------------ MODULE FrontEnds ------------------------------
(***************************************************************************)
(* The programs that turn a request into one run of a generator: the text  *)
(* chat (src/tools/kvl_chat.py), the image chat (kvl_vl_chat.py), the two  *)
(* turn image chat (kvl_vl_two_turn.py) and one connection to the HTTP API *)
(* (kvl_api.py), with the doctor that vouches for a model directory        *)
(* (kvl_doctor.py).  They share the tokenizer's chat template              *)
(* (kimi_tokenizer.py), the image preprocessing (kimi_image.py) and the    *)
(* RAM plan (RamPlan).  Token ids are "usr", "ast", "sys" for the markup   *)
(* that opens a turn, "end" and "eos" for the stop tokens, "pad" for       *)
(* <|media_pad|> and "w" for any other token; a user may type a special    *)
(* token, since encode allows them all.  ApiServer models the server's     *)
(* concurrency; here a connection is one client sending one request after  *)
(* another.                                                                *)
(***************************************************************************)
EXTENDS RamPlan, FiniteSets, FiniteSetsExt, Sequences, SequencesExt

CONSTANTS
  Jobs,         \* what a user may ask of a front end
  Settings,     \* [ram, cache, request, pad]: RAM and cache MiB, trunk request, pad_input
  Dirs,         \* the states the model directory and the build may be in
  MaxRequests,  \* requests a client sends over one connection
  Patch, TokenLimit, PosLimit   \* preprocessor_config.json and the position table

\* What a token may be, and the commands among the front ends.
Tokens == {"usr", "ast", "sys", "end", "eos", "pad", "w"}
Commands == {"chat", "vl", "two_turn"}

\* A message of a conversation, its text already flattened to tokens.
Messages == [role : STRING, kind : STRING, text : Seq(Tokens)]

\* What argparse, json.loads and the encoder return: integers, token lists and,
\* for a trunk request, "auto" or one integer.
ASSUME FrontAssumption ==
  /\ Patch \in Nat \ {0} /\ TokenLimit \in Nat /\ PosLimit \in Nat
  /\ \A s \in Settings :
        /\ s.ram \in Int /\ s.cache \in Int
        /\ s.request \in Seq(Int) /\ Len(s.request) <= 1
  /\ \A j \in Jobs :
        /\ j # << >> /\ j.front \in Commands \cup {"api"} /\ j.max \in Int
        /\ j.front \in Commands =>
             j.text \in Seq(Tokens) /\ j.text2 \in Seq(Tokens) /\ j.max2 \in Int
        /\ j.front = "api" => j.conv \in Seq(Messages) /\ j.system \in Seq(Tokens)

VARIABLES
  args,    \* the options of this run of the front end
  dir,     \* "good", "foreign" (another format) or "absent", for each part
  vouched, \* what kvl_doctor.py said of dir
  job,     \* what is being asked, None before
  phase,   \* where the front end is with it
  turn,    \* which turn of a two-turn chat
  answer,  \* the tokens of the turns already answered
  rows,    \* rows of media features the vision tower wrote
  trunk_mib, \* the trunk cache of the last plan that fitted, <<MiB>>
  gen,     \* what the running generator was started with, None without one
  ids,     \* tokens it has printed
  exit,    \* how a command-line front end ended
  heads,   \* status lines written for the current API request
  conn     \* the client's connection: open, unread (a body nobody read), served

vars ==
  <<args, dir, vouched, job, phase, turn, answer, rows, trunk_mib, gen, ids, exit, heads, conn>>

None == << >>
Stops == {"end", "eos"}
Images == {"vl", "two_turn"}

------------------------------------------------------------------------------
\* The chat template: a turn is opened, written and ended.
Turn(role, text) == <<role>> \o text \o <<"end">>

\* format_text_chat and format_image_chat, with the default system text.
TextChat(text) == Turn("sys", <<"w">>) \o Turn("usr", text) \o <<"ast">>
ImageChat(text, media) ==
  Turn("sys", <<"w">>) \o Turn("usr", [i \in 1 .. media |-> "pad"] \o text) \o <<"ast">>

Pads(prompt) == Cardinality({i \in DOMAIN prompt : prompt[i] = "pad"})

\* Mutant: the answer is carried over as it was printed, stop token included.
BodyWithStop(tokens) == tokens

\* _body_before_stop, and what decode_generated keeps.
BodyBeforeStop(tokens) ==
  LET stops == {i \in DOMAIN tokens : tokens[i] \in Stops}
  IN  IF stops = {} THEN tokens ELSE SubSeq(tokens, 1, Min(stops) - 1)

\* _flatten_text_content of one block: tool history stays as text.
Readable(message) == message.kind \in {"text", "tool_result", "tool_use"}
Flattened(message) ==
  IF message.kind = "text" THEN message.text ELSE <<"w">> \o message.text

\* _format_dialogue: system and developer messages join the system text.
IsSystem(message) == message.role \in {"system", "developer"}
Turns(messages) == SelectSeq(messages, LAMBDA message : ~IsSystem(message))

AcceptsDialogue(messages) ==
  /\ messages # << >>
  /\ \A i \in DOMAIN messages :
        /\ Readable(messages[i])
        /\ messages[i].role \in {"system", "developer", "user", "assistant"}
  /\ Turns(messages) # << >>
  /\ Last(Turns(messages)).role = "user"

\* What a message adds to the system text, and to the turns after it.
SystemPart(message) == IF IsSystem(message) THEN Flattened(message) ELSE << >>
TurnPart(message) ==
  IF IsSystem(message) THEN << >>
  ELSE Turn(IF message.role = "user" THEN "usr" ELSE "ast", Flattened(message))

Dialogue(messages, system, tools) ==
  LET added == FlattenSeq([i \in DOMAIN messages |-> SystemPart(messages[i])])
      said  == FlattenSeq([i \in DOMAIN messages |-> TurnPart(messages[i])])
      note  == IF tools THEN <<"w">> ELSE << >>
  IN  Turn("sys", (IF system = << >> THEN <<"w">> ELSE system) \o added \o note)
      \o said \o <<"ast">>

------------------------------------------------------------------------------
\* preprocess_image: an image over the token limit is scaled by the root of
\* limit / coarse, rounding each side down, then padded or cropped.
Coarse(size) == (size[1] \div Patch) * (size[2] \div Patch)
Scaled(side, coarse) == Max({k \in 0 .. side : k * k * coarse <= side * side * TokenLimit})
Resized(size) ==
  IF Coarse(size) > TokenLimit
  THEN <<Scaled(size[1], Coarse(size)), Scaled(size[2], Coarse(size))>> ELSE size

\* Sides in patches; the merge kernel is two by two.
Side(n) == IF args.pad THEN 2 * ((n + 2 * Patch - 1) \div (2 * Patch)) ELSE n \div Patch
Grid(size) == <<Side(Resized(size)[2]), Side(Resized(size)[1])>>
AcceptsImage(size) ==
  \A k \in 1 .. 2 : Grid(size)[k] \in 1 .. PosLimit - 1 /\ Grid(size)[k] % 2 = 0
MediaTokens(size) == (Grid(size)[1] \div 2) * (Grid(size)[2] \div 2)

------------------------------------------------------------------------------
\* What each program looks for before it starts.
Required(front) ==
  CASE front = "doctor"  -> {"text", "vision", "config", "vision_bin", "generate_vl"}
    [] front \in Images  -> {"text", "vision"}
    [] front = "chat"    -> {"text"}
    [] front = "api"     -> {"text", "generate"}

Missing(front) == \E part \in Required(front) : dir[part] = "absent"

\* kvl_doctor.py also reads the magics of the three indexes, and the revision
\* where one is recorded.
DoctorPasses ==
  ~Missing("doctor") /\ \A part \in {"text", "vision", "revision"} : dir[part] # "foreign"

\* The binary a front end starts.
Binary(front) == IF front \in Images THEN "generate_vl" ELSE "generate"

------------------------------------------------------------------------------
Plan(front, p, n, trunk) ==
  IF front = "chat" THEN PlannedChat(p, n, args.cache, trunk)
  ELSE PlannedText(p, n, args.cache, trunk)

TrunkMib(front, p, n) == TrunkFor(Plan(front, p, n, 0), args.ram, args.request)
PlanFits(front, p, n) == Plan(front, p, n, TrunkMib(front, p, n)) <= args.ram * Mib

\* Mutant: preflight checks the arguments and leaves the plan to generate.
ArgumentsOnly(j, prompt) == j.max > 0 /\ j.temp >= 0

\* preflight refuses before any header what generate would refuse after it.
Preflight(j, prompt) == j.max > 0 /\ j.temp >= 0 /\ PlanFits("api", Len(prompt), j.max)

SystemOf(j) == IF j.path = "messages" THEN j.system ELSE << >>
FirstPrompt(j) ==
  CASE j.front = "chat"   -> TextChat(j.text)
    [] j.front \in Images -> ImageChat(j.text, MediaTokens(j.image))
    [] j.front = "api"    -> Dialogue(j.conv, SystemOf(j), j.tools)

\* main of kvl_vl_chat.py and kvl_vl_two_turn.py: a media pad the user typed
\* is counted too.
MediaChecked(j) == Pads(FirstPrompt(j)) = MediaTokens(j.image)

\* The options are looked at before anything else: both budgets are positive,
\* and so are the limits of both turns.
Usable == args.ram > 0 /\ args.cache > 0 /\ ValidRequest(args.request)
Positive(j) == j.max > 0 /\ (j.front = "two_turn" => j.max2 > 0)

\* Why a command-line front end refuses its job, in the order it looks.
Refusal(j) ==
  IF ~Usable \/ ~Positive(j) \/ j.temp < 0 THEN "usage"
  ELSE IF Missing(j.front) THEN "missing"
  ELSE IF j.front \in Images /\ ~AcceptsImage(j.image) THEN "image"
  ELSE IF j.front \in Images /\ ~MediaChecked(j) THEN "media"
  ELSE IF ~PlanFits(j.front, Len(FirstPrompt(j)), j.max) THEN "plan"
  ELSE "none"

------------------------------------------------------------------------------
Init ==
  /\ args \in Settings
  /\ dir \in Dirs
  /\ vouched = "unasked" /\ job = None /\ phase = "idle" /\ turn = 1
  /\ answer = << >> /\ rows = 0 /\ trunk_mib = None /\ gen = None /\ ids = << >>
  /\ exit = "none" /\ heads = << >>
  /\ conn = [open |-> TRUE, unread |-> FALSE, served |-> 0]

AskDoctor ==
  /\ phase = "idle" /\ job = None /\ vouched = "unasked"
  /\ vouched' = IF DoctorPasses THEN "pass" ELSE "fail"
  /\ UNCHANGED <<args, dir, job, phase, turn, answer, rows, trunk_mib, gen, ids, exit, heads, conn>>

Refuse(why) ==
  /\ phase' = "done" /\ exit' = why
  /\ UNCHANGED <<args, dir, vouched, turn, answer, rows, trunk_mib, gen, ids, heads, conn>>

\* A command-line front end checks everything it can before it starts anything,
\* and plans its first generator there, once.
RunCommand(j, next) ==
  /\ phase = "idle" /\ job = None
  /\ job' = j
  /\ \/ /\ Refusal(j) # "none"
        /\ Refuse(Refusal(j))
     \/ /\ Refusal(j) = "none"
        /\ phase' = next
        /\ trunk_mib' = <<TrunkMib(j.front, Len(FirstPrompt(j)), j.max)>>
        /\ UNCHANGED <<args, dir, vouched, turn, answer, rows, gen, ids, exit, heads, conn>>

RunChat(j) == j.front = "chat" /\ RunCommand(j, "spawn")
RunImageChat(j) == j.front = "vl" /\ RunCommand(j, "vision")
RunTwoTurn(j) == j.front = "two_turn" /\ RunCommand(j, "vision")

\* Nothing reads the body of a GET or an OPTIONS; do_POST returns before
\* _read_json without the key, and _read_json before rfile.read when the length
\* is refused or missing ("long"): the body stays on the connection.
LeavesUnread(j) ==
  j.body # "none" /\ (j.method # "POST" \/ ~j.key \/ j.body = "long")

\* do_GET and do_POST up to the generator: the status of a request answered
\* without one, "go" for the others.
StatusOf(j) ==
  IF j.method = "OPTIONS" THEN "204"
  ELSE IF ~j.key THEN "401"
  ELSE IF j.method = "GET" THEN (IF j.path \in {"healthz", "models"} THEN "200" ELSE "404")
  ELSE IF j.body # "object" THEN "400"
  ELSE IF j.path \notin {"messages", "count", "chat"} THEN "404"
  ELSE IF ~j.model \/ ~AcceptsDialogue(j.conv) THEN "400"
  ELSE IF j.path = "count" THEN "200"
  ELSE IF j.stream /\ ~Preflight(j, FirstPrompt(j)) THEN "400"
  ELSE "go"

\* The handler returns; the connection is kept unless an event stream was begun.
EndRequest(j, lines) ==
  /\ phase' = "idle" /\ heads' = lines /\ trunk_mib' = None /\ gen' = None
  /\ conn' = [open |-> "stream" \notin ToSet(lines), unread |-> LeavesUnread(j),
              served |-> conn.served + 1]
  /\ ids' = << >>
  /\ UNCHANGED <<args, dir, vouched, turn, answer, rows, exit>>

\* The vision tower runs before any text generator; its failure is the exit.
RunVision ==
  /\ phase = "vision"
  /\ UNCHANGED job
  /\ \/ Refuse("vision")
     \/ /\ dir["vision"] = "good" /\ dir["vision_bin"] = "good"
        /\ rows' = (Grid(job.image)[1] * Grid(job.image)[2]) \div 4
        /\ phase' = "spawn"
        /\ UNCHANGED <<args, dir, vouched, turn, answer, trunk_mib, gen, ids, exit, heads, conn>>

\* main of kvl_vl_two_turn.py: turn two is the first prompt, the answer, one
\* <|im_end|> and the follow-up.
FollowUp(first, tokens) ==
  first \o BodyBeforeStop(tokens) \o <<"end">> \o Turn("usr", job.text2) \o <<"ast">>

CurrentPrompt == IF turn = 1 THEN FirstPrompt(job) ELSE FollowUp(FirstPrompt(job), answer)
CurrentMax == IF turn = 1 THEN job.max ELSE job.max2

\* Mutant: turn two is planned with the tokens of turn one.
FirstTokens == Len(FirstPrompt(job))

\* The tokens a plan is made for.
TokensToPlan == Len(CurrentPrompt)

\* _plan_or_die before a second turn, and generate before it takes the lock.
CurrentTrunk == TrunkMib(job.front, TokensToPlan, CurrentMax)
CurrentFits ==
  /\ PlanFits(job.front, TokensToPlan, CurrentMax)
  /\ job.front = "api" => job.max > 0 /\ job.temp >= 0

MakePlan(front) ==
  /\ phase = "plan" /\ job.front = front /\ CurrentFits
  /\ trunk_mib' = <<CurrentTrunk>> /\ phase' = "spawn"
  /\ UNCHANGED <<args, dir, vouched, job, turn, answer, rows, gen, ids, exit, heads, conn>>

PlanTurn == MakePlan("two_turn")
PlanRequest == MakePlan("api")

PlanFails ==
  /\ phase = "plan" /\ ~CurrentFits
  /\ UNCHANGED job
  /\ \/ job.front = "two_turn" /\ Refuse("plan")
     \/ job.front = "api" /\ EndRequest(job, Append(heads, "400"))

\* The generator gets the trunk cache of the plan: nothing is checked again.
Spawn(front) ==
  /\ phase = "spawn" /\ job.front = front
  /\ dir[Binary(front)] # "absent"
  /\ gen' = [prompt |-> CurrentPrompt, trunk |-> trunk_mib[1], max |-> CurrentMax]
  /\ ids' = << >> /\ phase' = "running"
  /\ UNCHANGED <<args, dir, vouched, job, turn, answer, rows, trunk_mib, exit, heads, conn>>

SpawnChat == Spawn("chat")
SpawnImageChat == Spawn("vl")
SpawnTurn == Spawn("two_turn")
SpawnRequest == Spawn("api")

\* A binary Popen cannot start.
SpawnFails ==
  /\ phase = "spawn" /\ dir[Binary(job.front)] = "absent"
  /\ UNCHANGED job
  /\ \/ job.front # "api" /\ Refuse("generator")
     \/ job.front = "api" /\ EndRequest(job, Append(heads, "500"))

\* KimiRuntime.__init__: a server that cannot serve does not start.
ServerRuns == Usable /\ ~Missing("api")

RefuseServer ==
  /\ phase = "idle" /\ job = None /\ ~ServerRuns
  /\ UNCHANGED job
  /\ Refuse(IF Usable THEN "missing" ELSE "usage")

\* A request arrives.
Arrives(j) ==
  /\ phase = "idle" /\ j.front = "api" /\ ServerRuns
  /\ conn.open /\ conn.served < MaxRequests
  /\ job' = j

\* http.server takes what was left unread for the next request line.  A line it
\* refuses is answered, or not, and closes the connection; one that is a request
\* is served as any other by the actions below.
ParserErrors == {"400", "414", "431", "501", "505"}
Misread(j) ==
  /\ Arrives(j) /\ conn.unread
  /\ heads' \in {<< >>} \cup {<<status>> : status \in ParserErrors}
  /\ conn' = [conn EXCEPT !.open = FALSE]
  /\ UNCHANGED <<args, dir, vouched, phase, turn, answer, rows, trunk_mib, gen, ids, exit>>

AnswerAtOnce(j) ==
  /\ Arrives(j) /\ StatusOf(j) # "go"
  /\ EndRequest(j, <<StatusOf(j)>>)

\* A stream's headers are written before generate makes its plan.
Accept(j) ==
  /\ Arrives(j) /\ StatusOf(j) = "go"
  /\ phase' = "plan" /\ heads' = IF j.stream THEN <<"stream">> ELSE << >>
  /\ UNCHANGED <<args, dir, vouched, turn, answer, rows, trunk_mib, gen, ids, exit, conn>>

AnthropicMessages(j) == Accept(j) /\ j.path = "messages"
OpenAIChat(j) == Accept(j) /\ j.path = "chat"

------------------------------------------------------------------------------
\* The generator: generate.c, and generate_vl.c, which wants a row of media
\* for every media pad of its prompt.
MediaMatch == job.front \in Images => rows > 0 /\ Pads(gen.prompt) = rows
CanGenerate == dir["text"] = "good" /\ MediaMatch
Stopped == ids # << >> /\ (Last(ids) \in Stops \/ Len(ids) = gen.max)

PrintToken(t) ==
  /\ phase = "running" /\ CanGenerate /\ ~Stopped
  /\ ids' = Append(ids, t)
  /\ UNCHANGED <<args, dir, vouched, job, phase, turn, answer, rows, trunk_mib, gen, exit, heads, conn>>

\* A nonzero exit: the stores, the media or the ids refused, or a failure later.
CommandFails ==
  /\ phase = "running" /\ job.front # "api"
  /\ phase' = "done" /\ exit' = "generator" /\ gen' = None
  /\ UNCHANGED <<args, dir, vouched, job, turn, answer, rows, trunk_mib, ids, heads, conn>>

RequestFails ==
  /\ phase = "running" /\ job.front = "api"
  /\ EndRequest(job, Append(heads, "500"))
  /\ UNCHANGED job

Finish ==
  /\ phase = "running" /\ Stopped
  /\ phase' = "done" /\ exit' = "ok" /\ gen' = None
  /\ UNCHANGED <<args, dir, vouched, job, turn, answer, rows, trunk_mib, ids, heads, conn>>

ChatEnds == job # None /\ job.front = "chat" /\ Finish
ImageChatEnds == job # None /\ job.front = "vl" /\ Finish
SecondTurnEnds == job # None /\ job.front = "two_turn" /\ turn = 2 /\ Finish

FirstTurnEnds ==
  /\ phase = "running" /\ job.front = "two_turn" /\ turn = 1 /\ Stopped
  /\ turn' = 2 /\ answer' = ids /\ phase' = "plan" /\ gen' = None
  /\ UNCHANGED <<args, dir, vouched, job, rows, trunk_mib, ids, exit, heads, conn>>

\* The last events of a stream, or the one JSON body.
Deliver(path) ==
  /\ phase = "running" /\ job.front = "api" /\ job.path = path /\ Stopped
  /\ EndRequest(job, IF job.stream THEN heads ELSE Append(heads, "200"))
  /\ UNCHANGED job

AnthropicEnds == Deliver("messages")
OpenAIEnds == Deliver("chat")

\* A write to a client that has gone raises, that of the first events or a later
\* one: the generator is stopped and no further status line is written.
ClientLeaves ==
  /\ phase \in {"plan", "running"} /\ job.front = "api" /\ job.stream
  /\ EndRequest(job, heads)
  /\ UNCHANGED job

Next ==
  \/ AskDoctor
  \/ \E j \in Jobs :
        \/ RunChat(j) \/ RunImageChat(j) \/ RunTwoTurn(j)
        \/ Misread(j) \/ AnswerAtOnce(j) \/ AnthropicMessages(j) \/ OpenAIChat(j)
  \/ RefuseServer
  \/ RunVision
  \/ PlanTurn \/ PlanRequest \/ PlanFails
  \/ SpawnChat \/ SpawnImageChat \/ SpawnTurn \/ SpawnRequest \/ SpawnFails
  \/ \E t \in {"w", "pad"} \cup Stops : PrintToken(t)
  \/ CommandFails \/ RequestFails \/ ClientLeaves
  \/ ChatEnds \/ ImageChatEnds \/ FirstTurnEnds \/ SecondTurnEnds
  \/ AnthropicEnds \/ OpenAIEnds

Spec == Init /\ [][Next]_vars

------------------------------------------------------------------------------
(***************************************************************************)
(* A plan is made once, before the vision tower runs or the server's lock  *)
(* is waited for, and the generator started later with it: whatever        *)
(* happens between, it is given a prompt, a limit and a trunk cache whose  *)
(* plan is within the RAM budget, also for the longer prompt of a second   *)
(* turn.                                                                   *)
(***************************************************************************)
StartsWithinPlan ==
  gen # None =>
    Plan(job.front, Len(gen.prompt), gen.max, gen.trunk) <= args.ram * Mib

(***************************************************************************)
(* The automatic trunk cache gives RAM back instead of failing a prompt    *)
(* that fits without one, and gives back no more than it must: one MiB     *)
(* more would pass the budget, unless the whole trunk is cached.           *)
(***************************************************************************)
AutoGivesBack ==
  args.request = AutoCache =>
    /\ exit = "plan" =>
         Plan(job.front, Len(CurrentPrompt), CurrentMax, 0) > args.ram * Mib
    /\ gen # None =>
         \/ gen.trunk = FullTrunk
         \/ Plan(job.front, Len(gen.prompt), gen.max, gen.trunk + 1) > args.ram * Mib

(***************************************************************************)
(* The prompts the front ends assemble by hand are the dialogues the API   *)
(* would format from the same turns: a chat's prompt, and a second turn    *)
(* whose history is a closed assistant turn, never a stop token and an     *)
(* <|im_end|> one after the other.                                         *)
(***************************************************************************)
PromptsAreDialogues ==
  gen # None /\ job.front # "api" =>
    LET said(role, text) == [role |-> role, kind |-> "text", text |-> text]
        media == IF job.front \in Images THEN [i \in 1 .. rows |-> "pad"] ELSE << >>
        first == said("user", media \o job.text)
        upto(n) == <<first, said("assistant", SubSeq(answer, 1, n)), said("user", job.text2)>>
    IN  IF turn = 1 THEN gen.prompt = Dialogue(<<first>>, << >>, FALSE)
        ELSE \E n \in 0 .. Len(answer) :
               /\ \A i \in 1 .. n : answer[i] \notin Stops
               /\ n < Len(answer) => answer[n + 1] \in Stops
               /\ gen.prompt = Dialogue(upto(n), << >>, FALSE)

(***************************************************************************)
(* Once an event stream is begun no request is refused any more: a second  *)
(* status line can only be the 500 of a generator that failed.             *)
(***************************************************************************)
NoRefusalInStream == \A i \in 2 .. Len(heads) : heads[i] = "500"

==============================================================================
