------------------------------- MODULE RamPlan -------------------------------
(***************************************************************************)
(* The RAM plan every front end makes before it starts a generator         *)
(* (src/tools/kvl_memory_plan.py, and the local plan of kvl_chat.py): the  *)
(* bytes a prompt of p tokens and n new tokens need beside an expert cache *)
(* and a trunk cache of so many MiB, and the trunk cache "auto" resolves   *)
(* to.  The sizes the released model fixes are constants.                  *)
(***************************************************************************)
EXTENDS Integers

CONSTANTS
  Fixed,           \* globals, the largest layer, scratch and safety
  PerPosition,     \* latent state of one position, all layers
  PerPrompt,       \* prefill workspaces of one prompt token
  ChatFixed,       \* globals and safety as kvl_chat.py counts them
  ChatPerPrompt,   \* batch prefill of one prompt token as kvl_chat.py counts it
  Mib,             \* bytes in a MiB
  FullTrunk        \* MiB that hold every layer tensor of the trunk

ASSUME RamPlanAssumption ==
  /\ {Fixed, PerPosition, PerPrompt, ChatFixed, ChatPerPrompt, FullTrunk} \subseteq Nat
  /\ Mib \in Nat \ {0}

\* What --trunk-cache-mib asks for: << >> is "auto", <<n>> is n MiB.
AutoCache == << >>

\* parse_trunk_cache_request refuses a negative number of MiB.
ValidRequest(request) == request # AutoCache => request[1] >= 0

\* planned_text_breakdown: the total of its parts.
PlannedText(p, n, cache, trunk) ==
  Fixed + PerPosition * (p + n) + PerPrompt * p + cache * Mib + trunk * Mib

\* planned_bytes of kvl_chat.py: the same sum with its own allowances.
PlannedChat(p, n, cache, trunk) ==
  ChatFixed + PerPosition * (p + n) + ChatPerPrompt * p + cache * Mib + trunk * Mib

\* Mutant: the remainder is given to the cache as one more MiB.
AutoTrunkRoundedUp(base, ram) ==
  LET available == ram * Mib - base
  IN  IF available <= 0 THEN 0
      ELSE IF available \div Mib < FullTrunk THEN 1 + available \div Mib ELSE FullTrunk

\* The automatic trunk cache: what the plan without one leaves, in whole MiB.
AutoTrunk(base, ram) ==
  LET available == ram * Mib - base
  IN  IF available <= 0 THEN 0
      ELSE IF available \div Mib < FullTrunk THEN available \div Mib ELSE FullTrunk

\* resolve_trunk_cache_mib and resolve_local_trunk_cache_mib.
TrunkFor(base, ram, request) ==
  IF request = AutoCache THEN AutoTrunk(base, ram) ELSE request[1]
==============================================================================
