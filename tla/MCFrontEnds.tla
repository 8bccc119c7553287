----------------------------- MODULE MCFrontEnds -----------------------------
(* One job of each kind and one thing wrong at a time, for TLC. *)
EXTENDS FrontEnds

MCTexts == {<<"w">>, <<"w", "pad">>}

MCCommand ==
  [front |-> "chat", text |-> <<"w">>, text2 |-> <<"w">>, image |-> <<4, 4>>,
   max |-> 2, max2 |-> 1, temp |-> 0]
MCCommands ==
  {[MCCommand EXCEPT !.text = x, !.max = m] : x \in MCTexts, m \in {0, 2}}
  \cup {[MCCommand EXCEPT !.front = "vl", !.text = x, !.image = g] :
          x \in MCTexts, g \in {<<4, 4>>, <<5, 9>>, <<12, 12>>}}
  \cup {[MCCommand EXCEPT !.front = "two_turn", !.text = x, !.text2 = y] :
          x \in MCTexts, y \in MCTexts}

MCMessage(role, kind) == [role |-> role, kind |-> kind, text |-> <<"w">>]
MCUser == MCMessage("user", "text")
MCConversations ==
  {<< >>, <<MCUser>>, <<MCMessage("assistant", "text")>>, <<MCMessage("user", "image")>>,
   <<MCMessage("system", "text")>>,
   <<MCMessage("developer", "text"), MCUser, MCMessage("assistant", "tool_use"),
     MCMessage("user", "tool_result")>>}

MCPost ==
  [front |-> "api", method |-> "POST", key |-> TRUE, body |-> "object", path |-> "messages",
   model |-> TRUE, conv |-> <<MCUser>>, system |-> << >>, tools |-> FALSE, stream |-> FALSE,
   max |-> 2, temp |-> 0]
MCStream == [MCPost EXCEPT !.stream = TRUE]

MCRequests ==
  {[MCPost EXCEPT !.method = m, !.path = p, !.body = b] :
     m \in {"GET", "OPTIONS"}, p \in {"healthz", "other"}, b \in {"none", "junk"}}
  \cup {[MCPost EXCEPT !.conv = c, !.path = p, !.stream = s] :
          c \in MCConversations, p \in {"messages", "count", "chat"}, s \in BOOLEAN}
  \cup UNION {{[p EXCEPT !.key = FALSE], [p EXCEPT !.body = "long"], [p EXCEPT !.body = "junk"],
               [p EXCEPT !.body = "none"],
               [p EXCEPT !.path = "other"], [p EXCEPT !.model = FALSE], [p EXCEPT !.max = 0],
               [p EXCEPT !.temp = -1], [p EXCEPT !.system = <<"w", "w">>],
               [p EXCEPT !.tools = TRUE]} : p \in {MCPost, MCStream}}

MCJobs == MCCommands \cup MCRequests

MCSettings ==
  [ram : {5, 9, 14}, cache : {1}, request : {AutoCache, <<2>>}, pad : {TRUE}]
  \cup [ram : {14}, cache : {1}, request : {AutoCache, <<-1>>}, pad : {FALSE}]
  \cup [ram : {9}, cache : {0}, request : {AutoCache}, pad : {TRUE}]

MCParts == {"text", "vision", "config", "vision_bin", "generate", "generate_vl",
            "revision"}
MCGood == [p \in MCParts |-> "good"]
MCDirs ==
  {MCGood} \cup {[MCGood EXCEPT ![p] = "absent"] : p \in {"text", "config", "generate"}}
           \cup {[MCGood EXCEPT ![p] = "foreign"] : p \in {"text", "vision", "revision"}}
==============================================================================
