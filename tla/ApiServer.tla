----------------------------- MODULE ApiServer -----------------------------
(***************************************************************************)
(* The local HTTP server of tools/kvl_api.py: one handler thread a request *)
(* (ThreadingHTTPServer), one generator process a generation, and a lock   *)
(* that is meant to keep those processes apart.                            *)
(*                                                                         *)
(* Handlers, generators and clients interleave.  A generator's tokens are  *)
(* counted, not named.  A token may end in the middle of a UTF-8 sequence; *)
(* the incremental decoder then keeps its bytes for a later delta.         *)
(*                                                                         *)
(* The server may be stopped and started again; its threads are daemons,   *)
(* so a stop abandons them, and the generators they started go on alone.   *)
(***************************************************************************)
EXTENDS Naturals, FiniteSets

CONSTANTS
    Requests,       \* handler threads, one request each
    Free,           \* the lock has no owner
    MaxTokens,      \* max_tokens of every request
    PipeCap,        \* tokens the stdout pipe holds before a write blocks
    MaxRestarts     \* bound: how often the server is stopped

ASSUME ApiAssumption ==
    /\ Free \notin Requests
    /\ MaxTokens \in Nat \ {0} /\ PipeCap \in Nat \ {0} /\ MaxRestarts \in Nat

VARIABLES
    server, restarts,   \* "up" or "down"; stops so far
    kind,               \* request: does it ask for a stream
    client,             \* request: what its client is doing
    pc,                 \* request: where its handler is
    lock,               \* KimiRuntime.lock: its owner or Free
    failure,            \* request: the exception on its way up; "ids" is one
                        \* of the .ids file, raised before the try block
    resp,               \* request: what has been written to the client
    ids,                \* request: its .ids file, "kept" if the system
                        \* refused to remove it
    child, rc,          \* request: its generator process and exit code
    emitted, eos,       \* tokens printed; the last one was EOS
    got,                \* tokens read by the handler
    text                \* leading tokens whose text is in text_parts and,
                        \* for a stream, has been written to the client

setting == <<server, restarts, kind, client>>
process == <<child, rc, emitted, eos>>
vars == <<setting, pc, lock, failure, resp, ids,
          process, got, text>>

\* Where a handler holds the lock.
Critical == {"ids", "spawn", "read", "deliver", "drain", "wait", "tail",
             "abort", "reap", "unlink"}

TypeOK ==
    /\ server \in {"up", "down"} /\ restarts \in 0 .. MaxRestarts
    /\ kind \in [Requests -> {"json", "stream"}]
    /\ client \in [Requests -> {"reading", "stalled", "gone"}]
    /\ pc \in [Requests -> Critical \cup {"new", "want", "answer", "done", "lost"}]
    /\ lock \in Requests \cup {Free}
    /\ failure \in [Requests -> {"none", "pipe", "error", "ids"}]
    /\ resp \in [Requests -> {"none", "json", "error", "open", "closed", "mixed"}]
    /\ ids \in [Requests -> {"none", "made", "kept"}]
    /\ child \in [Requests -> {"none", "live", "terminating", "killed", "dead"}]
    /\ rc \in [Requests -> {"none", "ok", "failed"}]
    /\ emitted \in [Requests -> 0 .. MaxTokens]
    /\ got \in [Requests -> 0 .. MaxTokens] /\ text \in [Requests -> 0 .. MaxTokens]
    /\ eos \in [Requests -> BOOLEAN]

Init ==
    /\ server = "up" /\ restarts = 0
    /\ kind \in [Requests -> {"json", "stream"}]
    /\ client = [r \in Requests |-> "reading"]
    /\ pc = [r \in Requests |-> "new"]
    /\ lock = Free
    /\ failure = [r \in Requests |-> "none"]
    /\ resp = [r \in Requests |-> "none"]
    /\ ids = [r \in Requests |-> "none"]
    /\ child = [r \in Requests |-> "none"] /\ rc = [r \in Requests |-> "none"]
    /\ emitted = [r \in Requests |-> 0] /\ eos = [r \in Requests |-> FALSE]
    /\ got = [r \in Requests |-> 0] /\ text = [r \in Requests |-> 0]

Go(r, place) == pc' = [pc EXCEPT ![r] = place]
Raise(r, exc) == failure' = [failure EXCEPT ![r] = exc]
Write(r, what) == resp' = [resp EXCEPT ![r] = what]

\* A write to the client returns, unless the client has stopped reading; one
\* to a client that left may still land in the socket's buffer.
CanWrite(r) == client[r] # "stalled"
Breaks(r)   == client[r] = "gone"

-----------------------------------------------------------------------------
(* Before the lock. *)

\* _safe_error for a request that fails validation, preparation or planning.
Reject(r) ==
    /\ pc[r] = "new" /\ server = "up" /\ Go(r, "done")
    /\ \/ CanWrite(r) /\ Write(r, "error")
       \/ Breaks(r) /\ UNCHANGED resp
    /\ UNCHANGED <<setting, lock, failure, ids, process, got, text>>

\* A planned request goes for the lock; a stream sends its headers and its
\* first event before that.
Accept(r) ==
    /\ pc[r] = "new" /\ server = "up"
    /\ \/ /\ kind[r] = "json"
          /\ Go(r, "want") /\ UNCHANGED <<resp, failure>>
       \/ /\ kind[r] = "stream" /\ CanWrite(r)
          /\ Go(r, "want") /\ Write(r, "open") /\ UNCHANGED failure
       \/ /\ kind[r] = "stream" /\ Breaks(r)
          /\ Go(r, "done") /\ Raise(r, "pipe") /\ UNCHANGED resp
    /\ UNCHANGED <<setting, lock, ids, process, got, text>>

Acquire(r) ==
    /\ pc[r] = "want" /\ lock = Free
    /\ lock' = r /\ Go(r, "ids")
    /\ UNCHANGED <<setting, failure, resp, ids, process, got, text>>

(* Under the lock: generate. *)

\* Mutant: an exception skips the release.
KeepLock(r) == IF pc[r] = "unlink" /\ failure[r] # "none" THEN lock ELSE Free

ReleaseLock(r) == Free

File(r, state) == [ids EXCEPT ![r] = state]

\* The .ids file is made and written before the try block.  Either may fail,
\* and a failed write leaves the file.
WriteIds(r) ==
    /\ pc[r] = "ids"
    /\ \/ ids' = File(r, "made") /\ Go(r, "spawn") /\ UNCHANGED <<lock, failure>>
       \/ /\ ids' = File(r, "made") \/ UNCHANGED ids
          /\ Go(r, "answer") /\ Raise(r, "ids") /\ lock' = ReleaseLock(r)
    /\ UNCHANGED <<setting, resp, process, got, text>>

Spawn(r) ==
    /\ pc[r] = "spawn"
    /\ \/ /\ child' = [child EXCEPT ![r] = "live"]
          /\ Go(r, "read") /\ UNCHANGED failure
       \/ Go(r, "abort") /\ Raise(r, "error") /\ UNCHANGED child
    /\ UNCHANGED <<setting, lock, resp, ids, rc, emitted, eos, got, text>>

\* Mutant: the end of the output is read as one more token.
AnyLine(r) == got[r] <= MaxTokens

\* A TOKEN line is waiting in the pipe.
HasLine(r) == got[r] < emitted[r]

\* The last line read is the stop token.
AtEos(r) == eos[r] /\ got[r] + 1 = emitted[r]

\* The tokens read, without the stop token.
Said(r) == got[r] - (IF eos[r] /\ got[r] = emitted[r] THEN 1 ELSE 0)

\* A token is decoded: it completes a delta, leaves the decoder in the middle
\* of a sequence, or has no bytes at all, which raises.
ReadToken(r) ==
    /\ pc[r] = "read" /\ HasLine(r)
    /\ got' = [got EXCEPT ![r] = @ + 1]
    /\ \/ AtEos(r) /\ Go(r, "drain") /\ UNCHANGED failure
       \/ ~AtEos(r) /\ Go(r, "deliver") /\ UNCHANGED failure
       \/ ~AtEos(r) /\ UNCHANGED <<pc, failure>>
       \/ ~AtEos(r) /\ Go(r, "abort") /\ Raise(r, "error")
    /\ UNCHANGED <<setting, lock, resp, ids, process, text>>

\* Append what is decoded to text_parts and, for a stream, write it (on_delta).
Deliver(r, place) ==
    /\ \/ /\ kind[r] = "json" \/ CanWrite(r)
          /\ text' = [text EXCEPT ![r] = Said(r)]
          /\ Go(r, place) /\ UNCHANGED failure
       \/ /\ kind[r] = "stream" /\ Breaks(r)
          /\ Go(r, "abort") /\ Raise(r, "pipe") /\ UNCHANGED text
    /\ UNCHANGED <<setting, lock, resp, ids, process, got>>

Delta(r) == pc[r] = "deliver" /\ Deliver(r, "read")
Tail(r)  == pc[r] = "tail" /\ Deliver(r, "unlink")

\* stdout is at end of file: no token is left and the process is gone.
Drained(r) ==
    /\ pc[r] \in {"read", "drain"} /\ ~HasLine(r)
    /\ child[r] = "dead"
    /\ Go(r, "wait")
    /\ UNCHANGED <<setting, lock, failure, resp, ids, process, got, text>>

\* Mutant: the exit code is not looked at.
AnyExit(r) == TRUE

ExitedWell(r) == rc[r] = "ok"

\* The decoder's tail, if it still holds bytes.
AfterExit(r) == IF text[r] < Said(r) THEN "tail" ELSE "unlink"

Wait(r) ==
    /\ pc[r] = "wait"
    /\ \/ ExitedWell(r) /\ Go(r, AfterExit(r)) /\ UNCHANGED failure
       \/ ~ExitedWell(r) /\ Go(r, "abort") /\ Raise(r, "error")
    /\ UNCHANGED <<setting, lock, resp, ids, process, got, text>>

\* Mutant: the exception leaves a running generator alone.
AbortWithoutTerminate(r) ==
    /\ pc[r] = "abort"
    /\ Go(r, "unlink")
    /\ UNCHANGED <<setting, lock, failure, resp, ids, process, got, text>>

\* except BaseException: poll, then terminate.
Abort(r) ==
    /\ pc[r] = "abort"
    /\ \/ /\ child[r] \in {"none", "dead"}
          /\ Go(r, "unlink") /\ UNCHANGED child
       \/ /\ child[r] = "live"
          /\ child' = [child EXCEPT ![r] = "terminating"]
          /\ Go(r, "reap")
    /\ UNCHANGED <<setting, lock, failure, resp, ids, rc, emitted, eos, got, text>>

\* wait(timeout=3): the process ended, or it has not yet and is killed.  No
\* wait follows the kill.
Reap(r) ==
    /\ pc[r] = "reap"
    /\ \/ child[r] = "dead" /\ UNCHANGED child
       \/ child[r] = "terminating" /\ child' = [child EXCEPT ![r] = "killed"]
    /\ Go(r, "unlink")
    /\ UNCHANGED <<setting, lock, failure, resp, ids, rc, emitted, eos, got, text>>

\* Mutant: the file is only removed after a success.
KeepIds(r) == IF failure[r] = "none" THEN File(r, "none") ELSE ids

RemoveIds(r) == File(r, "none")

\* finally, and the end of the with block.  An OSError of unlink is swallowed.
Unlink(r) ==
    /\ pc[r] = "unlink"
    /\ ids' = RemoveIds(r) \/ ids' = File(r, "kept")
    /\ lock' = ReleaseLock(r)
    /\ Go(r, "answer")
    /\ UNCHANGED <<setting, failure, resp, process, got, text>>

-----------------------------------------------------------------------------
(* After the lock. *)

\* The body or the closing events after a success, nothing after a broken
\* pipe, and otherwise _safe_error, whatever has been written before.
Answer(r) ==
    /\ pc[r] = "answer" /\ Go(r, "done")
    /\ \/ /\ failure[r] = "none" /\ CanWrite(r)
          /\ Write(r, IF kind[r] = "json" THEN "json" ELSE "closed")
       \/ /\ failure[r] \in {"error", "ids"} /\ CanWrite(r)
          /\ Write(r, IF resp[r] = "open" THEN "mixed" ELSE "error")
       \/ /\ failure[r] = "pipe" \/ Breaks(r)
          /\ UNCHANGED resp
    /\ UNCHANGED <<setting, lock, failure, ids, process, got, text>>

Handler(r) ==
    \/ Accept(r) \/ Acquire(r) \/ WriteIds(r) \/ Spawn(r) \/ ReadToken(r)
    \/ Delta(r) \/ Drained(r) \/ Wait(r) \/ Tail(r) \/ Abort(r) \/ Reap(r)
    \/ Unlink(r) \/ Answer(r)

-----------------------------------------------------------------------------
(* The generator process. *)

Running(r) == child[r] \in {"live", "terminating", "killed"}
Abandoned(r) == pc[r] \notin Critical

Die(r, code) ==
    /\ child' = [child EXCEPT ![r] = "dead"]
    /\ rc' = [rc EXCEPT ![r] = code]

\* Print a token; the pipe may be full, or have no reader any more.
Emit(r) ==
    /\ child[r] = "live" /\ ~eos[r]
    /\ emitted[r] < MaxTokens
    /\ \/ /\ ~Abandoned(r) /\ emitted[r] - got[r] < PipeCap
          /\ emitted' = [emitted EXCEPT ![r] = @ + 1]
          /\ \E last \in BOOLEAN : eos' = [eos EXCEPT ![r] = last]
          /\ UNCHANGED <<child, rc>>
       \/ Abandoned(r) /\ Die(r, "failed") /\ UNCHANGED <<emitted, eos>>
    /\ UNCHANGED <<setting, pc, lock, failure, resp, ids, got, text>>

\* After its last token the generator returns 0.
Finish(r) ==
    /\ child[r] = "live"
    /\ eos[r] \/ emitted[r] = MaxTokens
    /\ Die(r, "ok")
    /\ UNCHANGED <<setting, pc, lock, failure, resp, ids, emitted, eos, got, text>>

\* It fails wherever it is.
Fail(r) ==
    /\ child[r] = "live" /\ Die(r, "failed")
    /\ UNCHANGED <<setting, pc, lock, failure, resp, ids, emitted, eos, got, text>>

\* A signalled process ends, sooner or later.
Succumb(r) ==
    /\ child[r] \in {"terminating", "killed"} /\ Die(r, "failed")
    /\ UNCHANGED <<setting, pc, lock, failure, resp, ids, emitted, eos, got, text>>

Generator(r) == Emit(r) \/ Finish(r) \/ Succumb(r)

(* The client and the operator. *)

ClientMoves(r) ==
    /\ pc[r] \notin {"done", "lost"}
    /\ \/ client[r] = "reading" /\ client' = [client EXCEPT ![r] = "stalled"]
       \/ client[r] = "stalled" /\ client' = [client EXCEPT ![r] = "reading"]
       \/ client[r] # "gone" /\ client' = [client EXCEPT ![r] = "gone"]
    /\ UNCHANGED <<server, restarts, kind, pc, lock, failure, resp, ids, process, got, text>>

\* The process exits; its handlers vanish where they are and so does its lock.
Stop ==
    /\ server = "up" /\ restarts < MaxRestarts
    /\ server' = "down" /\ restarts' = restarts + 1
    /\ pc' = [r \in Requests |-> IF pc[r] \in {"new", "done"} THEN pc[r] ELSE "lost"]
    /\ lock' = Free
    /\ UNCHANGED <<kind, client, failure, resp, ids, process, got, text>>

Restart ==
    /\ server = "down"
    /\ server' = "up"
    /\ UNCHANGED <<restarts, kind, client, pc, lock, failure, resp, ids, process, got, text>>

\* Every request is over and every process has ended.
Quiet ==
    /\ \A r \in Requests : pc[r] \in {"done", "lost"} /\ ~Running(r)
    /\ UNCHANGED vars

Next ==
    \/ \E r \in Requests : Reject(r) \/ Handler(r) \/ Generator(r) \/ Fail(r) \/ ClientMoves(r)
    \/ Stop \/ Restart \/ Quiet

Spec == Init /\ [][Next]_vars

\* Handler threads run, a generator computes unless its pipe is full, and the
\* system ends a process that was signalled.  The lock is not fair, but each
\* handler wants it once.  Nothing is assumed of clients, of new requests, of
\* a generator's failures or of the operator.
Fairness == \A r \in Requests : WF_vars(Handler(r)) /\ WF_vars(Generator(r))

FairSpec == Spec /\ Fairness

-----------------------------------------------------------------------------
(* Properties. *)

\* Two generators that the server has neither killed nor abandoned are never
\* alive together: every way out of generate ends or kills the process before
\* the lock is free (the with block and its except clause).
OneGeneratorHeld ==
    \A q, r \in Requests :
        /\ child[q] \in {"live", "terminating"} /\ pc[q] # "lost"
        /\ child[r] \in {"live", "terminating"} /\ pc[r] # "lost"
        => q = r

\* What the module's docstring says: two HTTP clients cannot launch two
\* inference processes at once.  A killed process that has not ended counts.
OneGenerator ==
    \A q, r \in Requests : Running(q) /\ Running(r) => q = r

\* A client that sees a normal end (a JSON body or the closing event) got the
\* whole answer of a generator that exited with 0.
NormalEndIsComplete ==
    \A r \in Requests :
        resp[r] \in {"json", "closed"} =>
            /\ rc[r] = "ok"
            /\ got[r] = emitted[r]
            /\ text[r] = emitted[r] - (IF eos[r] THEN 1 ELSE 0)

\* Every way out of generate that has entered its try block tries to remove
\* the prompt: a Popen that raises, a token that cannot be decoded, a client
\* that left, a bad exit code, a process that had to be killed.  What is left
\* of a request that is over is a file the system refused to remove, or one
\* that could not be written, which is made before the try.
IdsRemoved ==
    \A r \in Requests :
        pc[r] \in {"answer", "done"} /\ ids[r] = "made" => failure[r] = "ids"

\* The inductive invariant behind the three above, checked and proved: who
\* holds the lock, what a request's place in generate says of its generator,
\* its failure and its tokens, and when a response or an .ids file is there.
LockOwner == \A r \in Requests : pc[r] \in Critical <=> lock = r

Generators ==
    \A r \in Requests :
        /\ pc[r] \in {"new", "want", "ids", "spawn"} => child[r] = "none"
        /\ pc[r] \in {"wait", "tail"} => child[r] = "dead"
        /\ child[r] = "live" => pc[r] \in {"read", "deliver", "drain", "abort", "lost"}
        /\ child[r] = "terminating" => pc[r] \in {"reap", "lost"}
        /\ rc[r] # "none" => child[r] = "dead"

Failures ==
    \A r \in Requests :
        /\ pc[r] \in {"new", "want", "ids", "spawn", "read", "deliver", "drain", "wait", "tail"}
               => failure[r] = "none"
        /\ pc[r] \in {"abort", "reap"} => failure[r] # "none"

Tokens ==
    \A r \in Requests :
        /\ got[r] <= emitted[r] /\ text[r] <= Said(r)
        /\ pc[r] = "deliver" => text[r] < got[r]
        /\ pc[r] \in {"wait", "tail"} => got[r] = emitted[r]
        /\ pc[r] = "tail" => rc[r] = "ok"

WholeAnswer(r) ==
    /\ child[r] = "dead" /\ rc[r] = "ok"
    /\ got[r] = emitted[r] /\ text[r] = Said(r)

Answers ==
    \A r \in Requests :
        /\ pc[r] \in {"unlink", "answer"} /\ failure[r] = "none" => WholeAnswer(r)
        /\ resp[r] \in {"json", "closed"} => pc[r] = "done" /\ WholeAnswer(r)

Files ==
    \A r \in Requests :
        /\ pc[r] \in {"new", "want", "ids"} => ids[r] = "none"
        /\ pc[r] \in {"answer", "done"} /\ ids[r] = "made" => failure[r] = "ids"

ApiInv ==
    /\ TypeOK /\ LockOwner /\ Generators /\ Failures /\ Tokens /\ Answers /\ Files

\* Every request that wants the lock is served and ends, whatever fails on the
\* way, if in the end every client reads or leaves: no exception, full pipe or
\* dead generator keeps the lock from the next handler.  A handler never goes
\* back, so one that is again and again outside has not stuck inside.
RequestsEnd ==
    <>[](\A r \in Requests : client[r] # "stalled")
        => \A r \in Requests : []<>(pc[r] \in {"new", "done", "lost"})
=============================================================================
