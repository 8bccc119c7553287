----------------------------- MODULE DecodeSkip -----------------------------
(***************************************************************************)
(* The decoding programs beside the generator built with dynamic skipping: *)
(* a behaviour is of one or of the other.                                  *)
(***************************************************************************)
EXTENDS Decode

CONSTANTS Layers, Answer, TopK, Weights, Unit, Dialogues, PolicyFiles

VARIABLES prompt, file, masked, ids, runtime, prefill, at, last, ended

skip == <<prompt, file, masked, ids, runtime, prefill, at, last, ended>>

Skip == INSTANCE DynSkip

ASSUME SkipAssumption == Skip!Parameters

-----------------------------------------------------------------------------
NotSkipping == /\ prompt = <<>> /\ file = <<>> /\ masked = FALSE /\ ids = <<>> /\ runtime = 0
               /\ prefill = <<>> /\ at = <<>> /\ last = Skip!Idle /\ ended = "no"
NotDecoding == Init /\ program = "text" /\ model = CHOOSE m \in Models : TRUE

EitherInit == (Init /\ NotSkipping) \/ (NotDecoding /\ Skip!Init)
EitherNext == \/ prompt = <<>> /\ Next /\ UNCHANGED skip
              \/ prompt # <<>> /\ Skip!Next /\ UNCHANGED vars
EitherSpec == EitherInit /\ [][EitherNext]_<<vars, skip>>

\* DynSkip's property, of the generator with dynamic skipping.
SkipsAsIntended == prompt # <<>> => Skip!SkipsAsIntended
=============================================================================
