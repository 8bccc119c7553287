--------------------------- MODULE FrontEnds_proofs ---------------------------
(***************************************************************************)
(* What the front ends promise, for every job, every option and every      *)
(* release of the model: theorems of FrontEnds, and of the RAM plan under  *)
(* it.                                                                     *)
(***************************************************************************)
EXTENDS FrontEnds, SequenceTheorems, WellFoundedInduction, TLAPS

\* Every set of natural numbers with a member has a least one: what the proofs
\* below use in the place of an induction.
LEMMA LeastNatural ==
    ASSUME NEW S \in SUBSET Nat, S # {}
    PROVE  \E m \in S : \A p \in S : m <= p
<1> DEFINE R == OpToRel(<, Nat)
<1>1. IsWellFoundedOn(R, Nat)
    BY NatLessThanWellFounded, Zenon
<1>2. \A x, y \in Nat : <<x, y>> \in R \/ y <= x
    BY DEF OpToRel
<1> HIDE DEF R
<1>3. PICK m \in S : \A p \in S : <<p, m>> \notin R
    BY <1>1, WFMin
<1> QED
    BY <1>2, <1>3

------------------------------------------------------------------------------
\* The RAM plan.

\* Integer division, which resolve_trunk_cache_mib takes of the free bytes.
LEMMA DivBounds ==
  ASSUME NEW a \in Nat, NEW d \in Nat \ {0}
  PROVE  /\ a \div d \in Nat
         /\ (a \div d) * d <= a
         /\ a < (a \div d) * d + d
  BY SMT

\* The automatic trunk cache fills what the plan without one leaves, and no
\* more.
LEMMA AutoTrunkFills ==
  ASSUME NEW base \in Int, NEW ram \in Int, base <= ram * Mib
  PROVE  LET t == AutoTrunk(base, ram)
         IN  /\ t \in 0 .. FullTrunk
             /\ base + t * Mib <= ram * Mib
             /\ t # FullTrunk => base + (t + 1) * Mib > ram * Mib
<1> DEFINE t == AutoTrunk(base, ram)
           avail == ram * Mib - base
<1>1. Mib \in Nat /\ Mib > 0 /\ FullTrunk \in Nat
  BY RamPlanAssumption
<1>2. avail \in Nat
  BY <1>1
<1>3. /\ avail \div Mib \in Nat
      /\ (avail \div Mib) * Mib <= avail
      /\ avail < (avail \div Mib) * Mib + Mib
  BY <1>1, <1>2, DivBounds
<1>4. CASE avail = 0
  <2>1. t = 0
    BY <1>4 DEF AutoTrunk
  <2> QED BY <2>1, <1>1, <1>4
<1>5. CASE avail > 0 /\ avail \div Mib < FullTrunk
  <2>1. t = avail \div Mib
    BY <1>2, <1>5 DEF AutoTrunk
  <2>2. base + t * Mib <= ram * Mib
    BY <2>1, <1>1, <1>3
  <2>3. base + (t + 1) * Mib > ram * Mib
    BY <2>1, <1>1, <1>3
  <2> QED BY <2>1, <2>2, <2>3, <1>1, <1>3, <1>5
<1>6. CASE avail > 0 /\ ~(avail \div Mib < FullTrunk)
  <2>1. t = FullTrunk
    BY <1>2, <1>6 DEF AutoTrunk
  <2>2. FullTrunk * Mib <= (avail \div Mib) * Mib
    BY <1>1, <1>3, <1>6
  <2>3. base + t * Mib <= ram * Mib
    BY <2>1, <2>2, <1>1, <1>3
  <2> QED BY <2>1, <2>3, <1>1
<1> QED BY <1>2, <1>4, <1>5, <1>6

(***************************************************************************)
(* The automatic trunk cache of resolve_trunk_cache_mib and of             *)
(* resolve_local_trunk_cache_mib: whenever the plan without a trunk cache  *)
(* fits, the plan with the automatic one still fits, and unless the whole  *)
(* trunk is cached one MiB more would not.                                 *)
(***************************************************************************)
THEOREM AutoTrunkFits ==
  ASSUME NEW p \in Int, NEW n \in Int, NEW cache \in Int, NEW ram \in Int
  PROVE  LET text(t) == PlannedText(p, n, cache, t)
             chat(t) == PlannedChat(p, n, cache, t)
             forText == AutoTrunk(text(0), ram)
             forChat == AutoTrunk(chat(0), ram)
         IN  /\ text(0) <= ram * Mib =>
                  /\ forText \in 0 .. FullTrunk
                  /\ text(forText) <= ram * Mib
                  /\ forText # FullTrunk => text(forText + 1) > ram * Mib
             /\ chat(0) <= ram * Mib =>
                  /\ forChat \in 0 .. FullTrunk
                  /\ chat(forChat) <= ram * Mib
                  /\ forChat # FullTrunk => chat(forChat + 1) > ram * Mib
<1> DEFINE text(t) == PlannedText(p, n, cache, t)
           chat(t) == PlannedChat(p, n, cache, t)
<1>1. /\ text(0) \in Int
      /\ \A k \in Nat : text(k) = text(0) + k * Mib
  BY RamPlanAssumption DEF PlannedText
<1>2. /\ chat(0) \in Int
      /\ \A k \in Nat : chat(k) = chat(0) + k * Mib
  BY RamPlanAssumption DEF PlannedChat
<1>3. FullTrunk \in Nat
  BY RamPlanAssumption
<1> HIDE DEF text, chat
<1>4. ASSUME text(0) <= ram * Mib
      PROVE  LET t == AutoTrunk(text(0), ram)
             IN  /\ t \in 0 .. FullTrunk
                 /\ text(t) <= ram * Mib
                 /\ t # FullTrunk => text(t + 1) > ram * Mib
  BY <1>1, <1>3, <1>4, AutoTrunkFills
<1>5. ASSUME chat(0) <= ram * Mib
      PROVE  LET t == AutoTrunk(chat(0), ram)
             IN  /\ t \in 0 .. FullTrunk
                 /\ chat(t) <= ram * Mib
                 /\ t # FullTrunk => chat(t + 1) > ram * Mib
  BY <1>2, <1>3, <1>5, AutoTrunkFills
<1> QED BY <1>4, <1>5 DEF text, chat

------------------------------------------------------------------------------
\* Concatenating the turns of a dialogue.

\* The partial concatenations of a list of turns: FlattenSeq chooses them.
Partials(s, n, f) == f = [i \in 1 .. n |-> IF i = 1 THEN s[i] ELSE f[i - 1] \o s[i]]

LEMMA PartialsExist ==
  ASSUME NEW s, NEW n \in Nat \ {0}
  PROVE  \E f : Partials(s, n, f)
<1> DEFINE bad == {m \in 1 .. n : ~ \E f : Partials(s, m, f)}
<1>1. ASSUME bad # {} PROVE FALSE
  <2>1. bad \in SUBSET Nat
    OBVIOUS
  <2>2. PICK m \in bad : \A p \in bad : m <= p
    <3> HIDE DEF bad
    <3> QED BY <1>1, <2>1, LeastNatural
  <2>3. m \in 1 .. n /\ ~ \E f : Partials(s, m, f)
    OBVIOUS
  <2>6. \A p \in 1 .. n : p \notin bad => \E f : Partials(s, p, f)
    OBVIOUS
  <2> HIDE DEF bad
  <2>4. CASE m = 1
    <3>1. Partials(s, 1, [i \in 1 .. 1 |-> s[1]])
      BY DEF Partials
    <3> QED BY <2>3, <2>4, <3>1
  <2>5. CASE m # 1
    <3>1. m - 1 \in 1 .. n /\ m - 1 \notin bad
      BY <2>2, <2>3, <2>5
    <3>2. PICK f : Partials(s, m - 1, f)
      BY <2>6, <3>1
    <3> DEFINE g == [i \in 1 .. m |-> IF i = m THEN f[m - 1] \o s[m] ELSE f[i]]
    <3>3. \A i \in 1 .. m - 1 : f[i] = IF i = 1 THEN s[i] ELSE f[i - 1] \o s[i]
      BY <3>2 DEF Partials
    <3>4. \A i \in 1 .. m : g[i] = IF i = 1 THEN s[i] ELSE g[i - 1] \o s[i]
      <4> TAKE i \in 1 .. m
      <4>1. CASE i = m
        <5>1. m \in 1 .. m /\ m - 1 \in 1 .. m /\ m - 1 # m
          BY <2>3, <2>5
        <5>2. g[m] = f[m - 1] \o s[m] /\ g[m - 1] = f[m - 1]
          BY <5>1
        <5> QED BY <4>1, <5>2, <2>5
      <4>2. CASE i # m
        BY <4>2, <2>3, <3>3
      <4> QED BY <4>1, <4>2
    <3>5. Partials(s, m, g)
      <4>1. g = [i \in 1 .. m |-> g[i]]
        OBVIOUS
      <4> HIDE DEF g
      <4> QED BY <3>4, <4>1 DEF Partials
    <3> QED BY <2>3, <3>5
  <2> QED BY <2>4, <2>5
<1> QED BY <1>1

\* What f says of FlattenSeq of a list s of n turns, turn by turn.
Unfolds(T, n, s, f) ==
  /\ f \in [1 .. n -> Seq(T)]
  /\ f[1] = s[1]
  /\ \A i \in 2 .. n : f[i] = f[i - 1] \o s[i]
  /\ FlattenSeq(s) = f[n]

LEMMA FlattenUnfold ==
  ASSUME NEW T, NEW n \in Nat \ {0}, NEW s \in [1 .. n -> Seq(T)]
  PROVE  \E f : Unfolds(T, n, s, f)
<1>1. s \in Seq(Seq(T)) /\ Len(s) = n
  OBVIOUS
<1> DEFINE f == CHOOSE f : Partials(s, n, f)
<1>2. Partials(s, n, f)
  BY PartialsExist
<1>3. FlattenSeq(s) = f[n]
  <2>1. f = CHOOSE flatten : flatten =
              [i \in 1 .. n |-> IF i = 1 THEN s[i] ELSE flatten[i - 1] \o s[i]]
    BY DEF Partials
  <2> HIDE DEF f
  <2> QED BY <1>1, <2>1 DEF FlattenSeq
<1> HIDE DEF f
<1>4. /\ f = [i \in 1 .. n |-> f[i]]
      /\ \A i \in 1 .. n : f[i] = IF i = 1 THEN s[i] ELSE f[i - 1] \o s[i]
  BY <1>2 DEF Partials
<1> DEFINE bad == {m \in 1 .. n : f[m] \notin Seq(T)}
<1>5. ASSUME bad # {} PROVE FALSE
  <2>1. PICK m \in bad : \A p \in bad : m <= p
    <3>1. bad \in SUBSET Nat
      OBVIOUS
    <3> HIDE DEF bad
    <3> QED BY <1>5, <3>1, LeastNatural
  <2>2. m \in 1 .. n /\ s[m] \in Seq(T) /\ f[m] \notin Seq(T)
    OBVIOUS
  <2>3. m # 1
    BY <2>2, <1>4
  <2>4. f[m - 1] \in Seq(T)
    BY <2>1, <2>2, <2>3
  <2>5. f[m] = f[m - 1] \o s[m]
    BY <1>4, <2>2, <2>3
  <2> QED BY <2>2, <2>4, <2>5
<1>6. f \in [1 .. n -> Seq(T)]
  BY <1>4, <1>5
<1>7. f[1] = s[1] /\ \A i \in 2 .. n : f[i] = f[i - 1] \o s[i]
  <2>1. \A i \in 1 .. n : f[i] = IF i = 1 THEN s[i] ELSE f[i - 1] \o s[i]
    BY <1>4
  <2>2. 1 \in 1 .. n /\ \A i \in 2 .. n : i \in 1 .. n /\ i # 1
    OBVIOUS
  <2> QED BY <2>1, <2>2
<1> QED BY <1>3, <1>6, <1>7 DEF Unfolds

LEMMA FlattenType ==
  ASSUME NEW T, NEW n \in Nat, NEW s \in [1 .. n -> Seq(T)]
  PROVE  FlattenSeq(s) \in Seq(T)
<1>1. CASE n = 0
  <2>1. Len(s) = 0 /\ s \in Seq(T)
    BY <1>1
  <2> QED BY <2>1 DEF FlattenSeq
<1>2. CASE n # 0
  <2>1. n \in Nat \ {0}
    BY <1>2
  <2>2. PICK f : Unfolds(T, n, s, f)
    BY <2>1, FlattenUnfold
  <2> QED BY <1>2, <2>2 DEF Unfolds
<1> QED BY <1>1, <1>2

LEMMA FlattenOne ==
  ASSUME NEW T, NEW a \in Seq(T)
  PROVE  FlattenSeq(<<a>>) = a
<1> DEFINE s == <<a>>
<1>1. s \in [1 .. 1 -> Seq(T)] /\ s[1] = a
  OBVIOUS
<1> HIDE DEF s
<1>2. PICK f : Unfolds(T, 1, s, f)
  BY <1>1, FlattenUnfold, 1 \in Nat \ {0}
<1>3. FlattenSeq(s) = a
  BY <1>1, <1>2 DEF Unfolds
<1> QED BY <1>3 DEF s

LEMMA FlattenThree ==
  ASSUME NEW a \in Seq(Tokens), NEW b \in Seq(Tokens), NEW c \in Seq(Tokens)
  PROVE  FlattenSeq(<<a, b, c>>) = (a \o b) \o c
<1> DEFINE s == <<a, b, c>>
<1>1. s \in [1 .. 3 -> Seq(Tokens)]
  OBVIOUS
<1>2. s[1] = a /\ s[2] = b /\ s[3] = c
  OBVIOUS
<1> HIDE DEF s
<1>3. PICK f : Unfolds(Tokens, 3, s, f)
  BY <1>1, FlattenUnfold, 3 \in Nat \ {0}
<1>4. f[2] = f[1] \o s[2] /\ f[3] = f[2] \o s[3]
  <2>1. 2 \in 2 .. 3 /\ 3 \in 2 .. 3 /\ 2 - 1 = 1 /\ 3 - 1 = 2
    OBVIOUS
  <2>2. f[2] = f[2 - 1] \o s[2] /\ f[3] = f[3 - 1] \o s[3]
    BY <1>3, <2>1 DEF Unfolds
  <2> QED BY <2>1, <2>2
<1>5. FlattenSeq(s) = (a \o b) \o c
  BY <1>2, <1>3, <1>4 DEF Unfolds
<1> QED BY <1>5 DEF s

------------------------------------------------------------------------------
\* Prompts are sequences of tokens.

LEMMA TurnType ==
  ASSUME NEW role \in Tokens, NEW text \in Seq(Tokens)
  PROVE  Turn(role, text) \in Seq(Tokens)
<1>1. <<role>> \in Seq(Tokens) /\ <<"end">> \in Seq(Tokens)
  BY DEF Tokens
<1> QED BY <1>1 DEF Turn

LEMMA MarkupTypes ==
  /\ "usr" \in Tokens /\ "ast" \in Tokens /\ "sys" \in Tokens
  /\ <<"w">> \in Seq(Tokens) /\ <<"ast">> \in Seq(Tokens) /\ <<"end">> \in Seq(Tokens)
  /\ << >> \in Seq(Tokens)
BY DEF Tokens

LEMMA FlattenedType ==
  ASSUME NEW message \in Messages
  PROVE  Flattened(message) \in Seq(Tokens)
<1>1. message.text \in Seq(Tokens)
  BY DEF Messages
<1> QED BY <1>1, MarkupTypes DEF Flattened

LEMMA DialogueType ==
  ASSUME NEW messages \in Seq(Messages), NEW system \in Seq(Tokens), NEW tools
  PROVE  Dialogue(messages, system, tools) \in Seq(Tokens)
<1> DEFINE parts == [i \in DOMAIN messages |-> SystemPart(messages[i])]
           turns == [i \in DOMAIN messages |-> TurnPart(messages[i])]
           note == IF tools THEN <<"w">> ELSE << >>
           open == IF system = << >> THEN <<"w">> ELSE system
<1>1. Len(messages) \in Nat /\ DOMAIN messages = 1 .. Len(messages)
  OBVIOUS
<1>2. \A i \in DOMAIN messages :
         SystemPart(messages[i]) \in Seq(Tokens) /\ TurnPart(messages[i]) \in Seq(Tokens)
  <2> TAKE i \in DOMAIN messages
  <2>1. messages[i] \in Messages
    OBVIOUS
  <2>2. Flattened(messages[i]) \in Seq(Tokens)
    BY <2>1, FlattenedType
  <2>3. /\ Turn("usr", Flattened(messages[i])) \in Seq(Tokens)
        /\ Turn("ast", Flattened(messages[i])) \in Seq(Tokens)
    BY <2>2, TurnType, MarkupTypes
  <2> QED BY <2>2, <2>3, MarkupTypes DEF SystemPart, TurnPart
<1>3. FlattenSeq(parts) \in Seq(Tokens) /\ FlattenSeq(turns) \in Seq(Tokens)
  <2>1. /\ parts \in [1 .. Len(messages) -> Seq(Tokens)]
        /\ turns \in [1 .. Len(messages) -> Seq(Tokens)]
    BY <1>1, <1>2
  <2> HIDE DEF parts, turns
  <2> QED BY <1>1, <2>1, FlattenType
<1>4. note \in Seq(Tokens) /\ open \in Seq(Tokens)
  BY MarkupTypes
<1>5. Dialogue(messages, system, tools)
        = (Turn("sys", (open \o FlattenSeq(parts)) \o note) \o FlattenSeq(turns)) \o <<"ast">>
  BY DEF Dialogue
<1> HIDE DEF note, open, parts, turns
<1>6. (open \o FlattenSeq(parts)) \o note \in Seq(Tokens)
  BY <1>3, <1>4
<1>7. Turn("sys", (open \o FlattenSeq(parts)) \o note) \in Seq(Tokens)
  BY <1>6, TurnType, MarkupTypes
<1> QED BY <1>3, <1>5, <1>7, MarkupTypes

\* What _body_before_stop keeps: the tokens up to the first stop token.
LEMMA BodyIsPrefix ==
  ASSUME NEW tokens \in Seq(Tokens)
  PROVE  /\ BodyBeforeStop(tokens) \in Seq(Tokens)
         /\ \E n \in 0 .. Len(tokens) :
              /\ BodyBeforeStop(tokens) = SubSeq(tokens, 1, n)
              /\ \A i \in 1 .. n : tokens[i] \notin Stops
              /\ n < Len(tokens) => tokens[n + 1] \in Stops
<1> DEFINE stops == {i \in DOMAIN tokens : tokens[i] \in Stops}
           Keeps(n) == /\ BodyBeforeStop(tokens) = SubSeq(tokens, 1, n)
                       /\ \A i \in 1 .. n : tokens[i] \notin Stops
                       /\ n < Len(tokens) => tokens[n + 1] \in Stops
<1>1. Len(tokens) \in Nat /\ DOMAIN tokens = 1 .. Len(tokens)
  OBVIOUS
<1>2. CASE stops = {}
  <2>1. BodyBeforeStop(tokens) = tokens
    BY <1>2 DEF BodyBeforeStop
  <2>2. tokens = SubSeq(tokens, 1, Len(tokens))
    OBVIOUS
  <2>3. Keeps(Len(tokens))
    BY <1>1, <1>2, <2>1, <2>2
  <2> QED BY <1>1, <2>1, <2>3
<1>3. CASE stops # {}
  <2>1. stops \in SUBSET Nat
    BY <1>1
  <2>2. \E m \in stops : \A p \in stops : m <= p
    <3> HIDE DEF stops
    <3> QED BY <1>1, <1>3, <2>1, LeastNatural
  <2> DEFINE m == Min(stops)
  <2>3. m \in stops /\ \A p \in stops : m <= p
    <3> HIDE DEF stops
    <3> QED BY <2>2 DEF Min
  <2>4. BodyBeforeStop(tokens) = SubSeq(tokens, 1, m - 1)
    BY <1>3 DEF BodyBeforeStop
  <2> HIDE DEF m
  <2>5. m \in 1 .. Len(tokens) /\ tokens[m] \in Stops
    BY <1>1, <2>3
  <2>6. \A i \in 1 .. m - 1 : tokens[i] \notin Stops
    BY <1>1, <2>3, <2>5
  <2>7. m - 1 \in 0 .. Len(tokens) /\ (m - 1) + 1 = m
    BY <1>1, <2>5
  <2>8. Keeps(m - 1)
    BY <2>4, <2>5, <2>6, <2>7
  <2>9. SubSeq(tokens, 1, m - 1) \in Seq(Tokens)
    BY <1>1, <2>5
  <2> QED BY <2>4, <2>7, <2>8, <2>9
<1> QED BY <1>2, <1>3

LEMMA PadsType ==
  ASSUME NEW media \in Nat
  PROVE  [i \in 1 .. media |-> "pad"] \in Seq(Tokens)
BY DEF Tokens

\* An image a front end accepts has whole merged patches, and the vision tower
\* writes one row for each.
LEMMA AcceptedImage ==
  ASSUME NEW size, AcceptsImage(size)
  PROVE  /\ MediaTokens(size) \in Nat
         /\ (Grid(size)[1] * Grid(size)[2]) \div 4 = MediaTokens(size)
<1> DEFINE g == Grid(size)[1]  h == Grid(size)[2]
<1>1. PosLimit \in Nat
  BY FrontAssumption
<1>2. g \in Nat /\ g % 2 = 0 /\ h \in Nat /\ h % 2 = 0
  BY <1>1 DEF AcceptsImage
<1>3. MediaTokens(size) = (g \div 2) * (h \div 2)
  BY DEF MediaTokens
<1> HIDE DEF g, h
<1>4. PICK a \in Nat : g = 2 * a
  BY <1>2
<1>5. PICK b \in Nat : h = 2 * b
  BY <1>2
<1>6. g \div 2 = a /\ h \div 2 = b
  BY <1>4, <1>5
<1>7. g * h = 4 * (a * b) /\ a * b \in Nat
  BY <1>4, <1>5
<1>8. (g * h) \div 4 = a * b
  BY <1>7
<1> QED BY <1>3, <1>6, <1>7, <1>8 DEF g, h

LEMMA ImageChatType ==
  ASSUME NEW text \in Seq(Tokens), NEW media \in Nat
  PROVE  /\ TextChat(text) \in Seq(Tokens)
         /\ ImageChat(text, media) \in Seq(Tokens)
<1> DEFINE pads == [i \in 1 .. media |-> "pad"]
<1>1. pads \in Seq(Tokens)
  BY PadsType
<1>2. ImageChat(text, media) = (Turn("sys", <<"w">>) \o Turn("usr", pads \o text)) \o <<"ast">>
  BY DEF ImageChat
<1> HIDE DEF pads
<1>3. pads \o text \in Seq(Tokens)
  BY <1>1
<1>4. /\ Turn("sys", <<"w">>) \in Seq(Tokens)
      /\ Turn("usr", text) \in Seq(Tokens)
      /\ Turn("usr", pads \o text) \in Seq(Tokens)
  BY <1>3, TurnType, MarkupTypes
<1> QED BY <1>2, <1>4, MarkupTypes DEF TextChat

LEMMA FirstPromptType ==
  ASSUME NEW j \in Jobs, j.front \in Images => AcceptsImage(j.image)
  PROVE  FirstPrompt(j) \in Seq(Tokens)
<1>1. CASE j.front = "chat"
  <2>1. j.text \in Seq(Tokens)
    BY <1>1, FrontAssumption DEF Commands
  <2>2. FirstPrompt(j) = TextChat(j.text)
    BY <1>1 DEF FirstPrompt, Images
  <2> QED BY <2>1, <2>2, ImageChatType, 0 \in Nat
<1>2. CASE j.front \in Images
  <2>1. j.text \in Seq(Tokens)
    BY <1>2, FrontAssumption DEF Commands, Images
  <2>2. FirstPrompt(j) = ImageChat(j.text, MediaTokens(j.image))
    BY <1>2 DEF FirstPrompt, Images
  <2>3. MediaTokens(j.image) \in Nat
    BY <1>2, AcceptedImage
  <2> QED BY <2>1, <2>2, <2>3, ImageChatType
<1>3. CASE j.front = "api"
  <2>1. j.conv \in Seq(Messages) /\ j.system \in Seq(Tokens)
    BY <1>3, FrontAssumption
  <2>2. SystemOf(j) \in Seq(Tokens)
    BY <2>1, MarkupTypes DEF SystemOf
  <2>3. FirstPrompt(j) = Dialogue(j.conv, SystemOf(j), j.tools)
    BY <1>3 DEF FirstPrompt, Images
  <2> QED BY <2>1, <2>2, <2>3, DialogueType
<1> QED BY <1>1, <1>2, <1>3, FrontAssumption DEF Commands, Images

LEMMA FollowUpType ==
  ASSUME NEW first \in Seq(Tokens), NEW tokens \in Seq(Tokens), job.text2 \in Seq(Tokens)
  PROVE  FollowUp(first, tokens) \in Seq(Tokens)
<1>1. /\ BodyBeforeStop(tokens) \in Seq(Tokens)
      /\ Turn("usr", job.text2) \in Seq(Tokens)
  BY BodyIsPrefix, TurnType, MarkupTypes
<1> QED BY <1>1, MarkupTypes DEF FollowUp

------------------------------------------------------------------------------
\* What a run of a front end keeps true.

\* The types, as far as the others need them: an accepted job is known from the
\* moment it is accepted.
Working == phase \in {"vision", "plan", "spawn", "running"}

Typed ==
  /\ args \in Settings /\ turn \in {1, 2} /\ rows \in Nat
  /\ answer \in Seq(Tokens) /\ ids \in Seq(Tokens)
  /\ conn \in [open : BOOLEAN, unread : BOOLEAN, served : Nat]
  /\ phase \in {"idle", "vision", "plan", "spawn", "running", "done"}
  /\ job # None => job \in Jobs
  /\ Working => job # None

\* The image of an accepted job can be cut into patches, and the vision tower
\* has written its rows before any generator is started.
Seen ==
  Working =>
    /\ phase = "vision" => job.front \in Images
    /\ job.front \in Images => AcceptsImage(job.image)
    /\ job.front \in Images /\ phase # "vision" => rows = MediaTokens(job.image)

\* The second turn is a two-turn chat's.
InTurn == turn = 2 => job # None /\ job.front = "two_turn" /\ phase # "idle"

\* A request on its way was answered by nothing but its stream's headers, and a
\* stream's plan was looked at before them.
Requested ==
  Working /\ job.front = "api" =>
    /\ heads = IF job.stream THEN <<"stream">> ELSE << >>
    /\ phase = "plan" /\ job.stream => Preflight(job, FirstPrompt(job))

\* From the plan to the start, the trunk cache kept is the one of a plan that
\* fits, made for the prompt and the limit the generator will be given.
Kept ==
  phase \in {"vision", "spawn"} =>
    /\ trunk_mib = <<TrunkMib(job.front, Len(CurrentPrompt), CurrentMax)>>
    /\ PlanFits(job.front, Len(CurrentPrompt), CurrentMax)

\* A generator runs for the current prompt, with its plan and its trunk cache.
Running ==
  gen # None =>
    /\ phase = "running"
    /\ gen.prompt = CurrentPrompt /\ gen.max = CurrentMax
    /\ gen.trunk = TrunkMib(job.front, Len(gen.prompt), gen.max)
    /\ PlanFits(job.front, Len(gen.prompt), gen.max)

\* A run refused for its plan was refused by one.
Planned ==
  exit = "plan" =>
    /\ phase = "done" /\ job # None
    /\ job.front \in Images => AcceptsImage(job.image)
    /\ ~PlanFits(job.front, Len(CurrentPrompt), CurrentMax)

FrontInv ==
  /\ Typed /\ Seen /\ InTurn /\ Requested /\ Kept
  /\ Running /\ Planned /\ NoRefusalInStream

\* What depends on the options alone stays what it is while they do.
LEMMA OptionsFrame ==
  ASSUME args' = args
  PROVE  /\ \A size : (AcceptsImage(size))' = AcceptsImage(size)
         /\ \A size : (MediaTokens(size))' = MediaTokens(size)
         /\ \A front, p, n : (PlanFits(front, p, n))' = PlanFits(front, p, n)
         /\ \A front, p, n : (TrunkMib(front, p, n))' = TrunkMib(front, p, n)
         /\ \A j : (FirstPrompt(j))' = FirstPrompt(j)
         /\ \A j, prompt : (Preflight(j, prompt))' = Preflight(j, prompt)
<1>1. \A size : (Grid(size))' = Grid(size)
  BY DEF Grid, Side
<1>2. \A size : (MediaTokens(size))' = MediaTokens(size)
  BY <1>1 DEF MediaTokens
<1>3. \A size : (AcceptsImage(size))' = AcceptsImage(size)
  BY <1>1 DEF AcceptsImage
<1>4. \A front, p, n, t : (Plan(front, p, n, t))' = Plan(front, p, n, t)
  BY DEF Plan
<1>5. \A front, p, n : (TrunkMib(front, p, n))' = TrunkMib(front, p, n)
  BY <1>4 DEF TrunkMib
<1>6. \A front, p, n : (PlanFits(front, p, n))' = PlanFits(front, p, n)
  BY <1>4, <1>5 DEF PlanFits
<1>7. \A j : (FirstPrompt(j))' = FirstPrompt(j)
  BY <1>2 DEF FirstPrompt
<1>8. \A j, prompt : (Preflight(j, prompt))' = Preflight(j, prompt)
  BY <1>6 DEF Preflight
<1> QED BY <1>2, <1>3, <1>5, <1>6, <1>7, <1>8

\* The prompt of the turn stays what it is while the job and its answer do.
LEMMA PromptFrame ==
  ASSUME UNCHANGED <<args, job, turn, answer>>
  PROVE  CurrentPrompt' = CurrentPrompt /\ CurrentMax' = CurrentMax
<1>1. \A j : (FirstPrompt(j))' = FirstPrompt(j)
  BY OptionsFrame
<1>2. \A first, tokens : (FollowUp(first, tokens))' = FollowUp(first, tokens)
  BY DEF FollowUp
<1> QED BY <1>1, <1>2 DEF CurrentPrompt, CurrentMax

\* And so do its plan and the trunk cache of it.
LEMMA PlanFrame ==
  ASSUME UNCHANGED <<args, job, turn, answer>>
  PROVE  /\ (TrunkMib(job.front, Len(CurrentPrompt), CurrentMax))'
              = TrunkMib(job.front, Len(CurrentPrompt), CurrentMax)
         /\ (PlanFits(job.front, Len(CurrentPrompt), CurrentMax))'
              = PlanFits(job.front, Len(CurrentPrompt), CurrentMax)
BY PromptFrame DEF PlanFits, TrunkMib, Plan

\* A job taken, or kept, is accepted on the terms it was looked at.
LEMMA JobFrame ==
  ASSUME NEW j, args' = args, job' = j
  PROVE  /\ (AcceptsImage(job.image))' = AcceptsImage(j.image)
         /\ (MediaTokens(job.image))' = MediaTokens(j.image)
         /\ (FirstPrompt(job))' = FirstPrompt(j)
         /\ (Preflight(job, FirstPrompt(job)))' = Preflight(j, FirstPrompt(j))
<1>1. (Grid(job.image))' = Grid(j.image)
  BY DEF Grid, Side
<1>2. (MediaTokens(job.image))' = MediaTokens(j.image)
  BY <1>1 DEF MediaTokens
<1>3. (AcceptsImage(job.image))' = AcceptsImage(j.image)
  BY <1>1 DEF AcceptsImage
<1>4. (FirstPrompt(job))' = FirstPrompt(j)
  BY <1>2 DEF FirstPrompt
<1>5. (Preflight(job, FirstPrompt(job)))' = Preflight(j, FirstPrompt(j))
  BY <1>4, OptionsFrame DEF Preflight
<1> QED BY <1>2, <1>3, <1>4, <1>5

LEMMA InitKeeps == Init => FrontInv
<1> SUFFICES ASSUME Init PROVE FrontInv
  OBVIOUS
<1>1. Typed
  BY MarkupTypes DEF Init, Typed, Working
<1>2. Seen /\ InTurn /\ Requested /\ Kept /\ Running /\ Planned
  BY DEF Init, Seen, InTurn, Requested, Kept, Running, Planned, Working
<1>3. NoRefusalInStream
  BY DEF Init, NoRefusalInStream
<1> QED BY <1>1, <1>2, <1>3 DEF FrontInv

\* A step that leaves all of it alone.
LEMMA IdleKeeps ==
  ASSUME FrontInv,
         UNCHANGED <<args, job, phase, turn, answer, rows, trunk_mib, gen, ids, exit, heads,
                     conn>>
  PROVE  FrontInv'
<1>1. Typed'
  BY DEF FrontInv, Typed, Working
<1>2. Seen'
  BY JobFrame DEF FrontInv, Seen, Working
<1>3. InTurn'
  BY DEF FrontInv, InTurn
<1>4. Requested'
  BY JobFrame DEF FrontInv, Requested, Working
<1>5. Kept'
  BY PlanFrame DEF FrontInv, Kept
<1>6. Running'
  <2>1. (TrunkMib(job.front, Len(gen.prompt), gen.max))' = TrunkMib(job.front, Len(gen.prompt), gen.max)
    BY DEF TrunkMib, Plan
  <2>2. (PlanFits(job.front, Len(gen.prompt), gen.max))' = PlanFits(job.front, Len(gen.prompt), gen.max)
    BY <2>1 DEF PlanFits, TrunkMib, Plan
  <2> QED BY <2>1, <2>2, PromptFrame DEF FrontInv, Running
<1>7. Planned'
  <2>1. (PlanFits(job.front, Len(CurrentPrompt), CurrentMax))'
          = PlanFits(job.front, Len(CurrentPrompt), CurrentMax)
    BY PromptFrame DEF PlanFits, TrunkMib, Plan
  <2> QED BY <2>1, JobFrame DEF FrontInv, Planned
<1>8. NoRefusalInStream'
  BY DEF FrontInv, NoRefusalInStream
<1> QED BY <1>1, <1>2, <1>3, <1>4, <1>5, <1>6, <1>7, <1>8 DEF FrontInv

\* A front end that stops, whatever the reason.
LEMMA StopKeeps ==
  ASSUME FrontInv, phase' = "done", gen' = None,
         UNCHANGED <<args, turn, answer, rows, ids, heads, conn>>,
         Working \/ job = None,
         job' = job \/ (job = None /\ job' \in Jobs),
         Planned'
  PROVE  FrontInv'
<1>1. Typed'
  BY FrontAssumption DEF FrontInv, Typed, Working, None
<1>2. Seen' /\ Requested'
  BY DEF Seen, Requested, Working
<1>3. InTurn'
  BY DEF FrontInv, InTurn
<1>4. Kept'
  BY DEF Kept
<1>5. Running'
  BY DEF Running
<1>6. NoRefusalInStream'
  BY DEF FrontInv, NoRefusalInStream
<1> QED BY <1>1, <1>2, <1>3, <1>4, <1>5, <1>6 DEF FrontInv

\* A request answered in full.
LEMMA EndKeeps ==
  ASSUME FrontInv, phase # "done", turn = 1,
         NEW j \in Jobs, NEW lines, EndRequest(j, lines), job' = j,
         \A i \in 2 .. Len(lines) : lines[i] = "500"
  PROVE  FrontInv'
<1>1. /\ phase' = "idle" /\ heads' = lines /\ gen' = None /\ ids' = << >>
      /\ UNCHANGED <<args, turn, answer, rows, exit>>
  BY DEF EndRequest
<1>7. conn' \in [open : BOOLEAN, unread : BOOLEAN, served : Nat]
  <2>1. conn.served \in Nat
    BY DEF FrontInv, Typed
  <2>2. conn' = [open |-> "stream" \notin ToSet(lines), unread |-> LeavesUnread(j),
                 served |-> conn.served + 1]
    BY DEF EndRequest
  <2>3. ("stream" \notin ToSet(lines)) \in BOOLEAN /\ LeavesUnread(j) \in BOOLEAN
    BY DEF LeavesUnread
  <2> QED BY <2>1, <2>2, <2>3
<1>2. Typed'
  BY <1>1, <1>7, FrontAssumption, MarkupTypes DEF FrontInv, Typed, Working, None
<1>3. Seen' /\ Requested' /\ InTurn' /\ Running'
  BY <1>1 DEF Seen, Requested, InTurn, Running, Working
<1>4. Kept'
  BY <1>1 DEF Kept
<1>5. Planned'
  BY <1>1 DEF FrontInv, Planned
<1>6. NoRefusalInStream'
  BY <1>1 DEF NoRefusalInStream
<1> QED BY <1>2, <1>3, <1>4, <1>5, <1>6 DEF FrontInv

\* A refusal names the plan only when the plan does not fit.
LEMMA RefusedPlan ==
  ASSUME NEW j \in Jobs, j.front \in Commands, Refusal(j) = "plan"
  PROVE  /\ j.front \in Images => AcceptsImage(j.image)
         /\ ~PlanFits(j.front, Len(FirstPrompt(j)), j.max)
BY DEF Refusal

LEMMA Granted ==
  ASSUME NEW j \in Jobs, j.front \in Commands, Refusal(j) = "none"
  PROVE  /\ j.front \in Images => AcceptsImage(j.image)
         /\ PlanFits(j.front, Len(FirstPrompt(j)), j.max)
BY DEF Refusal

\* A command-line front end with a job.
LEMMA CommandKeeps ==
  ASSUME FrontInv, NEW j \in Jobs, NEW next, RunCommand(j, next),
         \/ j.front = "chat" /\ next = "spawn"
         \/ j.front \in Images /\ next = "vision"
  PROVE  FrontInv'
<1>1. phase = "idle" /\ job = None /\ job' = j /\ j # None /\ j.front \in Commands
  BY FrontAssumption DEF RunCommand, Commands, Images, None
<1>2. turn = 1 /\ gen = None
  BY <1>1 DEF FrontInv, InTurn, Running, Typed
<1>3. CASE Refusal(j) # "none" /\ Refuse(Refusal(j))
  <2>1. /\ phase' = "done" /\ exit' = Refusal(j) /\ gen' = gen
        /\ UNCHANGED <<args, turn, answer, rows, ids, heads, conn>>
    BY <1>3 DEF Refuse
  <2>2. ASSUME exit' = "plan" PROVE Planned'
    <3>1. (CurrentPrompt)' = FirstPrompt(j) /\ (CurrentMax)' = j.max
      BY <1>1, <1>2, <2>1, JobFrame DEF CurrentPrompt, CurrentMax
    <3>2. (PlanFits(job.front, Len(CurrentPrompt), CurrentMax))'
            = PlanFits(j.front, Len(FirstPrompt(j)), j.max)
      BY <1>1, <2>1, <3>1 DEF PlanFits, TrunkMib, Plan
    <3> QED BY <1>1, <2>1, <2>2, <3>2, RefusedPlan, JobFrame DEF Planned
  <2>3. Planned'
    BY <2>2 DEF Planned
  <2> QED BY <1>1, <1>2, <2>1, <2>3, StopKeeps
<1>4. CASE /\ Refusal(j) = "none" /\ phase' = next
           /\ trunk_mib' = <<TrunkMib(j.front, Len(FirstPrompt(j)), j.max)>>
           /\ UNCHANGED <<args, dir, vouched, turn, answer, rows, gen, ids, exit, heads, conn>>
  <2>1. Typed'
    BY <1>1, <1>4, FrontAssumption DEF FrontInv, Typed, Working, None
  <2>2. Seen'
    BY <1>1, <1>4, Granted, JobFrame DEF Seen, Working, Images
  <2>3. InTurn' /\ Running'
    BY <1>2, <1>4 DEF InTurn, Running
  <2>4. Requested'
    BY <1>1, <1>4 DEF Requested, Commands
  <2>5. Kept'
    <3>1. (CurrentPrompt)' = FirstPrompt(j) /\ (CurrentMax)' = j.max
      BY <1>1, <1>2, <1>4, JobFrame DEF CurrentPrompt, CurrentMax
    <3>2. /\ (TrunkMib(job.front, Len(CurrentPrompt), CurrentMax))'
              = TrunkMib(j.front, Len(FirstPrompt(j)), j.max)
          /\ (PlanFits(job.front, Len(CurrentPrompt), CurrentMax))'
              = PlanFits(j.front, Len(FirstPrompt(j)), j.max)
      BY <1>1, <1>4, <3>1 DEF PlanFits, TrunkMib, Plan
    <3> QED BY <1>1, <1>4, <3>2, Granted DEF Kept
  <2>6. Planned'
    BY <1>1, <1>4 DEF FrontInv, Planned
  <2>7. NoRefusalInStream'
    BY <1>4 DEF FrontInv, NoRefusalInStream
  <2> QED BY <2>1, <2>2, <2>3, <2>4, <2>5, <2>6, <2>7 DEF FrontInv
<1> QED BY <1>3, <1>4 DEF RunCommand

\* A request is read, or misread.
LEMMA MisreadKeeps ==
  ASSUME FrontInv, NEW j \in Jobs, Misread(j)
  PROVE  FrontInv'
<1>1. /\ phase = "idle" /\ job' = j /\ j # None /\ phase' = phase
      /\ \A i \in 2 .. Len(heads') : heads'[i] = "500"
      /\ conn' \in [open : BOOLEAN, unread : BOOLEAN, served : Nat]
      /\ UNCHANGED <<args, turn, answer, rows, gen, ids, exit>>
  <2>1. conn' = [conn EXCEPT !.open = FALSE]
    BY DEF Misread
  <2>2. conn \in [open : BOOLEAN, unread : BOOLEAN, served : Nat]
    BY DEF FrontInv, Typed
  <2>3. conn' \in [open : BOOLEAN, unread : BOOLEAN, served : Nat]
    BY <2>1, <2>2
  <2>4. Len(heads') \in 0 .. 1
    BY DEF Misread
  <2> QED BY <2>3, <2>4, FrontAssumption DEF Misread, Arrives, None
<1>2. turn = 1 /\ gen = None /\ exit # "plan"
  BY <1>1 DEF FrontInv, InTurn, Running, Planned, Typed
<1>3. Typed'
  BY <1>1 DEF FrontInv, Typed, Working
<1>4. Seen' /\ Requested' /\ InTurn' /\ Running' /\ Planned'
  BY <1>1, <1>2 DEF Seen, Requested, InTurn, Running, Planned, Working
<1>5. Kept'
  BY <1>1 DEF Kept
<1>6. NoRefusalInStream'
  BY <1>1 DEF NoRefusalInStream
<1> QED BY <1>3, <1>4, <1>5, <1>6 DEF FrontInv

LEMMA AnswerKeeps ==
  ASSUME FrontInv, NEW j \in Jobs, AnswerAtOnce(j)
  PROVE  FrontInv'
<1>1. phase = "idle" /\ job' = j /\ EndRequest(j, <<StatusOf(j)>>)
  BY DEF AnswerAtOnce, Arrives
<1>2. turn = 1
  BY <1>1 DEF FrontInv, InTurn, Typed
<1>3. \A i \in 2 .. Len(<<StatusOf(j)>>) : <<StatusOf(j)>>[i] = "500"
  OBVIOUS
<1> QED BY <1>1, <1>2, <1>3, EndKeeps

LEMMA AcceptKeeps ==
  ASSUME FrontInv, NEW j \in Jobs, Accept(j)
  PROVE  FrontInv'
<1>1. /\ phase = "idle" /\ job' = j /\ j # None /\ phase' = "plan" /\ j.front = "api"
      /\ StatusOf(j) = "go"
      /\ heads' = (IF j.stream THEN <<"stream">> ELSE << >>)
      /\ UNCHANGED <<args, turn, answer, rows, gen, ids, exit, conn>>
  BY FrontAssumption DEF Accept, Arrives, None
<1>2. turn = 1 /\ gen = None /\ exit # "plan"
  BY <1>1 DEF FrontInv, InTurn, Running, Planned, Typed
<1>3. Typed'
  BY <1>1 DEF FrontInv, Typed, Working
<1>4. Seen'
  BY <1>1 DEF Seen, Images
<1>5. j.stream => Preflight(j, FirstPrompt(j))
  BY <1>1 DEF StatusOf
<1>6. Requested'
  BY <1>1, <1>5, JobFrame DEF Requested
<1>7. InTurn' /\ Running' /\ Planned'
  BY <1>1, <1>2 DEF InTurn, Running, Planned
<1>8. Kept'
  BY <1>1 DEF Kept
<1>9. NoRefusalInStream'
  BY <1>1 DEF NoRefusalInStream
<1> QED BY <1>3, <1>4, <1>6, <1>7, <1>8, <1>9 DEF FrontInv

\* The stops that are not for the plan.
LEMMA RefuseServerKeeps ==
  ASSUME FrontInv, RefuseServer
  PROVE  FrontInv'
<1>1. /\ phase' = "done" /\ job = None /\ job' = job /\ gen' = gen /\ exit' # "plan"
      /\ UNCHANGED <<args, turn, answer, rows, ids, heads, conn>>
  BY DEF RefuseServer, Refuse
<1>2. gen = None
  BY DEF RefuseServer, FrontInv, Running
<1>3. Planned'
  BY <1>1 DEF Planned
<1> QED BY <1>1, <1>2, <1>3, StopKeeps

LEMMA StopsKeep ==
  ASSUME FrontInv, CommandFails \/ (job # None /\ Finish)
  PROVE  FrontInv'
<1>1. /\ phase = "running" /\ phase' = "done" /\ gen' = None /\ job' = job /\ exit' # "plan"
      /\ UNCHANGED <<args, turn, answer, rows, ids, heads, conn>>
  BY DEF CommandFails, Finish
<1>2. Planned' /\ Working
  BY <1>1 DEF Planned, Working
<1> QED BY <1>1, <1>2, StopKeeps

\* The vision tower writes a row for every merged patch, or fails.
LEMMA VisionKeeps ==
  ASSUME FrontInv, RunVision
  PROVE  FrontInv'
<1>1. phase = "vision" /\ job' = job
  BY DEF RunVision
<1>2. Working /\ job # None /\ job \in Jobs /\ job.front \in Images /\ gen = None
  BY <1>1 DEF FrontInv, Typed, Seen, Running, Working
<1>3. AcceptsImage(job.image) /\ exit # "plan" /\ turn \in {1, 2}
  BY <1>1, <1>2 DEF FrontInv, Seen, Planned, Typed
<1>4. CASE Refuse("vision")
  <2>1. /\ phase' = "done" /\ gen' = gen /\ exit' # "plan"
        /\ UNCHANGED <<args, turn, answer, rows, ids, heads, conn>>
    BY <1>4 DEF Refuse
  <2>2. Planned'
    BY <2>1 DEF Planned
  <2> QED BY <1>1, <1>2, <2>1, <2>2, StopKeeps
<1>5. CASE /\ rows' = (Grid(job.image)[1] * Grid(job.image)[2]) \div 4
           /\ phase' = "spawn"
           /\ UNCHANGED <<args, dir, vouched, turn, answer, trunk_mib, gen, ids, exit, heads, conn>>
  <2>1. rows' = MediaTokens(job.image) /\ rows' \in Nat
    BY <1>3, <1>5, AcceptedImage
  <2>2. Typed'
    BY <1>1, <1>2, <1>5, <2>1 DEF FrontInv, Typed, Working
  <2>3. Seen'
    BY <1>1, <1>2, <1>3, <1>5, <2>1, JobFrame DEF Seen
  <2>4. InTurn'
    BY <1>1, <1>5 DEF FrontInv, InTurn
  <2>5. Requested'
    BY <1>1, <1>2, <1>5 DEF Requested, Images
  <2>6. Kept'
    BY <1>1, <1>5, PlanFrame DEF FrontInv, Kept
  <2>7. Running' /\ Planned'
    BY <1>2, <1>3, <1>5 DEF Running, Planned
  <2>8. NoRefusalInStream'
    BY <1>5 DEF FrontInv, NoRefusalInStream
  <2> QED BY <2>2, <2>3, <2>4, <2>5, <2>6, <2>7, <2>8 DEF FrontInv
<1> QED BY <1>4, <1>5 DEF RunVision

\* The plan of a second turn, or of a request.
LEMMA PlanKeeps ==
  ASSUME FrontInv, NEW front, MakePlan(front)
  PROVE  FrontInv'
<1>1. /\ phase = "plan" /\ phase' = "spawn" /\ CurrentFits /\ trunk_mib' = <<CurrentTrunk>>
      /\ UNCHANGED <<args, job, turn, answer, rows, gen, ids, exit, heads, conn>>
  BY DEF MakePlan
<1>2. Typed'
  BY <1>1 DEF FrontInv, Typed, Working
<1>3. Seen'
  BY <1>1, JobFrame DEF FrontInv, Seen, Working
<1>4. InTurn' /\ Running' /\ Planned' /\ NoRefusalInStream'
  BY <1>1 DEF FrontInv, InTurn, Running, Planned, NoRefusalInStream
<1>5. Requested'
  BY <1>1 DEF FrontInv, Requested, Working
<1>6. Kept'
  <2>1. /\ trunk_mib' = <<TrunkMib(job.front, Len(CurrentPrompt), CurrentMax)>>
        /\ PlanFits(job.front, Len(CurrentPrompt), CurrentMax)
    BY <1>1 DEF CurrentTrunk, CurrentFits, TokensToPlan
  <2> QED BY <1>1, <2>1, PlanFrame DEF Kept
<1> QED BY <1>2, <1>3, <1>4, <1>5, <1>6 DEF FrontInv

\* A generator is started with the plan that was made for its own prompt.
LEMMA SpawnKeeps ==
  ASSUME FrontInv, NEW front, Spawn(front)
  PROVE  FrontInv'
<1>1. /\ phase = "spawn" /\ phase' = "running" /\ ids' = << >>
      /\ gen' = [prompt |-> CurrentPrompt, trunk |-> trunk_mib[1], max |-> CurrentMax]
      /\ UNCHANGED <<args, job, turn, answer, rows, exit, heads, conn>>
  BY DEF Spawn
<1>2. Typed'
  BY <1>1, MarkupTypes DEF FrontInv, Typed, Working
<1>3. Seen'
  BY <1>1, JobFrame DEF FrontInv, Seen, Working
<1>4. InTurn' /\ Kept'
  BY <1>1 DEF FrontInv, InTurn, Kept
<1>5. Requested'
  BY <1>1, JobFrame DEF FrontInv, Requested, Working
<1>6. Running'
  <2>1. gen'.prompt = CurrentPrompt' /\ gen'.max = CurrentMax'
    BY <1>1, PromptFrame
  <2>2. /\ gen'.trunk = TrunkMib(job.front, Len(gen'.prompt), gen'.max)
        /\ PlanFits(job.front, Len(gen'.prompt), gen'.max)
    BY <1>1 DEF FrontInv, Kept
  <2>3. /\ gen'.trunk = (TrunkMib(job.front, Len(gen.prompt), gen.max))'
        /\ (PlanFits(job.front, Len(gen.prompt), gen.max))'
    BY <1>1, <2>2 DEF PlanFits, TrunkMib, Plan
  <2> QED BY <1>1, <2>1, <2>3 DEF Running
<1>7. Planned' /\ NoRefusalInStream'
  BY <1>1 DEF FrontInv, Planned, NoRefusalInStream
<1> QED BY <1>2, <1>3, <1>4, <1>5, <1>6, <1>7 DEF FrontInv

\* A stream was begun with a plan that fits: only its generator can fail it.
LEMMA StreamFits ==
  ASSUME FrontInv, phase = "plan", job.front = "api", job.stream
  PROVE  CurrentFits
<1>1. turn = 1
  BY DEF FrontInv, InTurn, Typed
<1>2. Preflight(job, FirstPrompt(job))
  BY DEF FrontInv, Requested, Working
<1> QED BY <1>1, <1>2 DEF Preflight, CurrentFits, TokensToPlan, CurrentPrompt, CurrentMax

\* What a request on its way may still be answered.
LEMMA LinesKept ==
  ASSUME FrontInv, Working, job.front = "api", NEW line
  PROVE  /\ turn = 1 /\ job \in Jobs
         /\ \A i \in 2 .. Len(heads) : heads[i] = "500"
         /\ line = "500" \/ ~job.stream =>
              \A i \in 2 .. Len(Append(heads, line)) : Append(heads, line)[i] = "500"
<1>1. heads = IF job.stream THEN <<"stream">> ELSE << >>
  BY DEF FrontInv, Requested
<1>2. CASE job.stream
  <2>1. /\ Len(Append(heads, line)) = 2
        /\ Append(heads, line)[2] = line
    <3> DEFINE L == {"stream", line}
    <3>1. heads \in Seq(L) /\ line \in L
      BY <1>1, <1>2
    <3> HIDE DEF L
    <3>2. /\ Len(Append(heads, line)) = Len(heads) + 1
          /\ Append(heads, line)[Len(heads) + 1] = line
      BY <3>1
    <3>3. Len(heads) + 1 = 2
      BY <1>1, <1>2
    <3> QED BY <3>2, <3>3
  <2> QED BY <1>1, <1>2, <2>1 DEF FrontInv, InTurn, Typed, Requested, Working
<1>3. CASE ~job.stream
  <2>1. Append(heads, line) = <<line>>
    BY <1>1, <1>3
  <2> QED BY <1>1, <1>3, <2>1 DEF FrontInv, InTurn, Typed, Requested, Working
<1> QED BY <1>2, <1>3

\* The requests that end: no generator, its failure, its answer, or no client.
LEMMA RequestEnds ==
  ASSUME FrontInv, Working, job.front = "api", NEW lines,
         \/ lines = heads
         \/ lines = Append(heads, "500")
         \/ ~job.stream /\ lines \in {Append(heads, "400"), Append(heads, "200")},
         EndRequest(job, lines), job' = job
  PROVE  FrontInv'
<1>1. turn = 1 /\ job \in Jobs
  BY LinesKept
<1>3. \A i \in 2 .. Len(lines) : lines[i] = "500"
  BY LinesKept
<1>4. phase # "done"
  BY DEF Working
<1> QED BY <1>1, <1>3, <1>4, EndKeeps

LEMMA AnswersKeep ==
  ASSUME FrontInv,
         RequestFails \/ ClientLeaves \/ \E path \in {"messages", "chat"} : Deliver(path)
  PROVE  FrontInv'
<1>1. Working /\ job.front = "api" /\ job' = job
  BY DEF Working, RequestFails, ClientLeaves, Deliver
<1>2. CASE RequestFails
  BY <1>1, <1>2, RequestEnds DEF RequestFails
<1>3. CASE ClientLeaves
  BY <1>1, <1>3, RequestEnds DEF ClientLeaves
<1>4. ASSUME NEW path, Deliver(path) PROVE FrontInv'
  <2>1. EndRequest(job, IF job.stream THEN heads ELSE Append(heads, "200"))
    BY <1>4 DEF Deliver
  <2>2. CASE job.stream
    BY <1>1, <2>1, <2>2, RequestEnds
  <2>3. CASE ~job.stream
    BY <1>1, <2>1, <2>3, RequestEnds
  <2> QED BY <2>2, <2>3
<1> QED BY <1>2, <1>3, <1>4

\* A second turn, or a request, whose plan is refused.
LEMMA PlanFailsKeeps ==
  ASSUME FrontInv, PlanFails
  PROVE  FrontInv'
<1>1. phase = "plan" /\ job' = job /\ Working /\ ~CurrentFits
  BY DEF PlanFails, Working
<1>2. gen = None
  BY <1>1 DEF FrontInv, Running
<1>3. job # None /\ job \in Jobs
  BY <1>1 DEF FrontInv, Typed
<1>4. CASE job.front = "two_turn" /\ Refuse("plan")
  <2>1. /\ phase' = "done" /\ gen' = gen /\ exit' = "plan"
        /\ UNCHANGED <<args, turn, answer, rows, ids, heads, conn>>
    BY <1>4 DEF Refuse
  <2>2. ~PlanFits(job.front, Len(CurrentPrompt), CurrentMax)
    BY <1>1, <1>4 DEF CurrentFits, TokensToPlan
  <2>3. Planned'
    <3>1. job.front \in Images => AcceptsImage(job.image)
      BY <1>1 DEF FrontInv, Seen
    <3> QED BY <1>1, <1>3, <2>1, <2>2, <3>1, PlanFrame, JobFrame DEF Planned
  <2> QED BY <1>1, <1>2, <2>1, <2>3, StopKeeps
<1>5. CASE job.front = "api" /\ EndRequest(job, Append(heads, "400"))
  <2>1. ~job.stream
    BY <1>1, <1>5, StreamFits
  <2> QED BY <1>1, <1>5, <2>1, RequestEnds
<1> QED BY <1>4, <1>5 DEF PlanFails

\* A generator that is not started.
LEMMA SpawnFailsKeeps ==
  ASSUME FrontInv, SpawnFails
  PROVE  FrontInv'
<1>1. phase = "spawn" /\ job' = job /\ Working
  BY DEF SpawnFails, Working
<1>2. gen = None
  BY <1>1 DEF FrontInv, Running
<1>4. CASE job.front # "api" /\ Refuse("generator")
  <2>1. /\ phase' = "done" /\ gen' = gen /\ exit' # "plan"
        /\ UNCHANGED <<args, turn, answer, rows, ids, heads, conn>>
    BY <1>4 DEF Refuse
  <2>2. Planned'
    BY <2>1 DEF Planned
  <2> QED BY <1>1, <1>2, <2>1, <2>2, StopKeeps
<1>5. CASE job.front = "api" /\ EndRequest(job, Append(heads, "500"))
  BY <1>1, <1>5, RequestEnds
<1> QED BY <1>4, <1>5 DEF SpawnFails

\* A token printed, and a first turn that ends.
LEMMA PrintKeeps ==
  ASSUME FrontInv, NEW t \in Tokens, PrintToken(t)
  PROVE  FrontInv'
<1>1. /\ phase = "running" /\ ids' = Append(ids, t)
      /\ UNCHANGED <<args, job, phase, turn, answer, rows, trunk_mib, gen, exit, heads, conn>>
  BY DEF PrintToken
<1>2. Typed'
  <2>1. ids' \in Seq(Tokens)
    BY <1>1 DEF FrontInv, Typed
  <2> QED BY <1>1, <2>1 DEF FrontInv, Typed, Working
<1>3. Seen' /\ Requested'
  BY <1>1, JobFrame DEF FrontInv, Seen, Requested, Working
<1>4. InTurn' /\ Kept'
  BY <1>1 DEF FrontInv, InTurn, Kept
<1>5. Running'
  <2>1. (TrunkMib(job.front, Len(gen.prompt), gen.max))' = TrunkMib(job.front, Len(gen.prompt), gen.max)
    BY <1>1 DEF TrunkMib, Plan
  <2>2. (PlanFits(job.front, Len(gen.prompt), gen.max))' = PlanFits(job.front, Len(gen.prompt), gen.max)
    BY <1>1, <2>1 DEF PlanFits, TrunkMib, Plan
  <2> QED BY <1>1, <2>1, <2>2, PromptFrame DEF FrontInv, Running
<1>6. Planned' /\ NoRefusalInStream'
  BY <1>1 DEF FrontInv, Planned, NoRefusalInStream
<1> QED BY <1>2, <1>3, <1>4, <1>5, <1>6 DEF FrontInv

LEMMA TurnKeeps ==
  ASSUME FrontInv, FirstTurnEnds
  PROVE  FrontInv'
<1>1. /\ phase = "running" /\ phase' = "plan" /\ job.front = "two_turn"
      /\ turn' = 2 /\ answer' = ids /\ gen' = None
      /\ UNCHANGED <<args, job, rows, ids, exit, heads, conn>>
  BY DEF FirstTurnEnds
<1>2. job # None /\ exit # "plan"
  BY <1>1 DEF FrontInv, Typed, Working, Planned
<1>3. Typed'
  BY <1>1 DEF FrontInv, Typed, Working
<1>4. Seen'
  BY <1>1, JobFrame DEF FrontInv, Seen, Working
<1>5. InTurn' /\ Requested' /\ Running' /\ Planned'
  BY <1>1, <1>2 DEF InTurn, Requested, Running, Planned
<1>6. Kept' /\ NoRefusalInStream'
  BY <1>1 DEF FrontInv, Kept, NoRefusalInStream
<1> QED BY <1>3, <1>4, <1>5, <1>6 DEF FrontInv

LEMMA StepKeeps ==
  ASSUME FrontInv, [Next]_vars
  PROVE  FrontInv'
<1>1. CASE AskDoctor \/ UNCHANGED vars
  BY <1>1, IdleKeeps DEF AskDoctor, vars
<1>2. ASSUME NEW j \in Jobs, RunChat(j) \/ RunImageChat(j) \/ RunTwoTurn(j) PROVE FrontInv'
  BY <1>2, CommandKeeps DEF RunChat, RunImageChat, RunTwoTurn, Images
<1>3. ASSUME NEW j \in Jobs,
             Misread(j) \/ AnswerAtOnce(j) \/ AnthropicMessages(j) \/ OpenAIChat(j)
      PROVE  FrontInv'
  BY <1>3, MisreadKeeps, AnswerKeeps, AcceptKeeps DEF AnthropicMessages, OpenAIChat
<1>4. CASE RefuseServer
  BY <1>4, RefuseServerKeeps
<1>5. CASE RunVision
  BY <1>5, VisionKeeps
<1>6. CASE SpawnChat \/ SpawnImageChat \/ SpawnTurn \/ SpawnRequest
  BY <1>6, SpawnKeeps DEF SpawnChat, SpawnImageChat, SpawnTurn, SpawnRequest
<1>7. CASE SpawnFails \/ PlanTurn \/ PlanRequest \/ PlanFails
  BY <1>7, SpawnFailsKeeps, PlanKeeps, PlanFailsKeeps DEF PlanTurn, PlanRequest
<1>8. ASSUME NEW t \in {"w", "pad"} \cup Stops, PrintToken(t) PROVE FrontInv'
  BY <1>8, PrintKeeps DEF Stops, Tokens
<1>9. CASE CommandFails \/ ChatEnds \/ ImageChatEnds \/ SecondTurnEnds
  BY <1>9, StopsKeep DEF ChatEnds, ImageChatEnds, SecondTurnEnds
<1>10. CASE RequestFails \/ ClientLeaves \/ AnthropicEnds \/ OpenAIEnds
  BY <1>10, AnswersKeep DEF AnthropicEnds, OpenAIEnds
<1>11. CASE FirstTurnEnds
  BY <1>11, TurnKeeps
<1> QED
  BY <1>1, <1>2, <1>3, <1>4, <1>5, <1>6, <1>7, <1>8, <1>9, <1>10, <1>11 DEF Next

(***************************************************************************)
(* Every front end keeps its invariant: a generator runs with the plan of  *)
(* its own prompt, and a request on its way was answered by nothing but    *)
(* the headers of a stream whose plan fits.                                *)
(***************************************************************************)
THEOREM FrontInvariant == Spec => []FrontInv
<1>1. Init => FrontInv
  BY InitKeeps
<1>2. FrontInv /\ [Next]_vars => FrontInv'
  BY StepKeeps
<1> QED BY <1>1, <1>2, PTL DEF Spec

------------------------------------------------------------------------------
\* The promises.

(***************************************************************************)
(* The plan made before the vision tower or the lock is still the plan of  *)
(* the generator started after them: none is started over the RAM budget,  *)
(* not even for the longer prompt of a second turn.                        *)
(***************************************************************************)
THEOREM NeverOverBudget == Spec => []StartsWithinPlan
<1>1. FrontInv => StartsWithinPlan
  BY DEF FrontInv, Running, PlanFits, StartsWithinPlan
<1> QED BY <1>1, FrontInvariant, PTL

LEMMA PlanType ==
  ASSUME args \in Settings, NEW front, NEW p \in Int, NEW n \in Int
  PROVE  Plan(front, p, n, 0) \in Int /\ args.ram * Mib \in Int
<1>1. args.ram \in Int /\ args.cache \in Int
  BY FrontAssumption
<1>2. PlannedText(p, n, args.cache, 0) \in Int /\ PlannedChat(p, n, args.cache, 0) \in Int
  BY <1>1, RamPlanAssumption DEF PlannedText, PlannedChat
<1>3. Plan(front, p, n, 0) \in Int
  BY <1>2 DEF Plan
<1> QED BY <1>1, <1>3, RamPlanAssumption

\* The automatic trunk cache of a plan: it fits when the plan without one does.
LEMMA AutoPlan ==
  ASSUME args \in Settings, args.request = AutoCache,
         NEW front, NEW p \in Int, NEW n \in Int,
         Plan(front, p, n, 0) <= args.ram * Mib
  PROVE  /\ PlanFits(front, p, n)
         /\ \/ TrunkMib(front, p, n) = FullTrunk
            \/ Plan(front, p, n, TrunkMib(front, p, n) + 1) > args.ram * Mib
<1>1. args.ram \in Int /\ args.cache \in Int
  BY FrontAssumption
<1>2. TrunkMib(front, p, n) = AutoTrunk(Plan(front, p, n, 0), args.ram)
  BY DEF TrunkMib, TrunkFor
<1>3. CASE front = "chat"
  <2>1. \A t : Plan(front, p, n, t) = PlannedChat(p, n, args.cache, t)
    BY <1>3 DEF Plan
  <2> QED BY <1>1, <1>2, <2>1, AutoTrunkFits DEF PlanFits
<1>4. CASE front # "chat"
  <2>1. \A t : Plan(front, p, n, t) = PlannedText(p, n, args.cache, t)
    BY <1>4 DEF Plan
  <2> QED BY <1>1, <1>2, <2>1, AutoTrunkFits DEF PlanFits
<1> QED BY <1>3, <1>4

\* The current prompt of an accepted job is a sequence of tokens.
LEMMA CurrentTypes ==
  ASSUME Typed, InTurn, job # None, job.front \in Images => AcceptsImage(job.image)
  PROVE  CurrentPrompt \in Seq(Tokens) /\ CurrentMax \in Int
<1>1. job \in Jobs /\ answer \in Seq(Tokens) /\ turn \in {1, 2}
  BY DEF Typed
<1>2. FirstPrompt(job) \in Seq(Tokens)
  BY <1>1, FirstPromptType
<1>3. CASE turn = 1
  BY <1>1, <1>2, <1>3, FrontAssumption DEF CurrentPrompt, CurrentMax
<1>4. CASE turn = 2
  <2>1. job.text2 \in Seq(Tokens) /\ job.max2 \in Int
    BY <1>1, <1>4, FrontAssumption DEF InTurn, Commands
  <2> QED BY <1>1, <1>2, <1>4, <2>1, FollowUpType DEF CurrentPrompt, CurrentMax
<1> QED BY <1>1, <1>3, <1>4

(***************************************************************************)
(* With the automatic trunk cache no prompt is refused that would fit      *)
(* without one, and a running generator leaves no MiB unused that it could *)
(* cache in.                                                               *)
(***************************************************************************)
THEOREM AutomaticCacheGivesBack == Spec => []AutoGivesBack
<1>1. ASSUME FrontInv, args.request = AutoCache, exit = "plan"
      PROVE  Plan(job.front, Len(CurrentPrompt), CurrentMax, 0) > args.ram * Mib
  <2>1. /\ job # None
        /\ job.front \in Images => AcceptsImage(job.image)
        /\ ~PlanFits(job.front, Len(CurrentPrompt), CurrentMax)
    BY <1>1 DEF FrontInv, Planned
  <2>2. CurrentPrompt \in Seq(Tokens) /\ CurrentMax \in Int /\ args \in Settings
    BY <1>1, <2>1, CurrentTypes DEF FrontInv, Typed
  <2>3. Len(CurrentPrompt) \in Int
    BY <2>2
  <2>4. ~(Plan(job.front, Len(CurrentPrompt), CurrentMax, 0) <= args.ram * Mib)
    BY <1>1, <2>1, <2>2, <2>3, AutoPlan
  <2>5. Plan(job.front, Len(CurrentPrompt), CurrentMax, 0) \in Int /\ args.ram * Mib \in Int
    BY <2>2, <2>3, PlanType
  <2> QED BY <2>4, <2>5
<1>2. ASSUME FrontInv, args.request = AutoCache, gen # None
      PROVE  \/ gen.trunk = FullTrunk
             \/ Plan(job.front, Len(gen.prompt), gen.max, gen.trunk + 1) > args.ram * Mib
  <2> DEFINE p == Len(gen.prompt)  n == gen.max  base == Plan(job.front, p, n, 0)
  <2>1. /\ job # None
        /\ job.front \in Images => AcceptsImage(job.image)
        /\ gen.prompt = CurrentPrompt /\ gen.max = CurrentMax
        /\ gen.trunk = TrunkMib(job.front, p, n) /\ PlanFits(job.front, p, n)
    BY <1>2 DEF FrontInv, Typed, Seen, Running, Working
  <2>2. CurrentPrompt \in Seq(Tokens) /\ CurrentMax \in Int /\ args \in Settings
    BY <1>2, <2>1, CurrentTypes DEF FrontInv, Typed
  <2>3. p \in Int /\ n \in Int
    BY <2>1, <2>2
  <2>4. base \in Int /\ args.ram * Mib \in Int
    BY <2>2, <2>3, PlanType
  <2> HIDE DEF p, n
  <2>5. base <= args.ram * Mib
    <3>1. CASE base > args.ram * Mib
      <4>1. TrunkMib(job.front, p, n) = 0
        BY <1>2, <2>4, <3>1 DEF TrunkMib, TrunkFor, AutoTrunk
      <4> QED BY <2>1, <2>4, <3>1, <4>1 DEF PlanFits
    <3> QED BY <2>4, <3>1
  <2> QED BY <1>2, <2>1, <2>2, <2>3, <2>5, AutoPlan DEF p, n
<1>3. FrontInv => AutoGivesBack
  BY <1>1, <1>2 DEF AutoGivesBack
<1> QED BY <1>3, FrontInvariant, PTL

(***************************************************************************)
(* Once the headers of an event stream are written, the only status line   *)
(* that may follow is the 500 of a generator that failed.                  *)
(***************************************************************************)
THEOREM StreamsAreNotRefused == Spec => []NoRefusalInStream
<1>1. FrontInv => NoRefusalInStream
  BY DEF FrontInv
<1> QED BY <1>1, FrontInvariant, PTL

------------------------------------------------------------------------------
\* Prompts put together by hand are dialogues.

\* A message of text, as the API reads one, and a turn it becomes.
Said(role, text) == [role |-> role, kind |-> "text", text |-> text]

LEMMA SaidTurns ==
  ASSUME NEW text \in Seq(Tokens)
  PROVE  /\ SystemPart(Said("user", text)) = << >>
         /\ SystemPart(Said("assistant", text)) = << >>
         /\ TurnPart(Said("user", text)) = Turn("usr", text)
         /\ TurnPart(Said("assistant", text)) = Turn("ast", text)
BY DEF Said, SystemPart, TurnPart, IsSystem, Flattened

\* A dialogue of one turn.
LEMMA OneTurn ==
  ASSUME NEW a \in Seq(Tokens)
  PROVE  Dialogue(<<Said("user", a)>>, << >>, FALSE)
           = (Turn("sys", <<"w">>) \o Turn("usr", a)) \o <<"ast">>
<1> DEFINE messages == <<Said("user", a)>>
           added == [i \in DOMAIN messages |-> SystemPart(messages[i])]
           turns == [i \in DOMAIN messages |-> TurnPart(messages[i])]
<1>1. added = << << >> >> /\ turns = <<Turn("usr", a)>>
  <2>1. DOMAIN messages = 1 .. 1 /\ messages[1] = Said("user", a)
    OBVIOUS
  <2> HIDE DEF messages
  <2>2. SystemPart(messages[1]) = << >> /\ TurnPart(messages[1]) = Turn("usr", a)
    BY <2>1, SaidTurns
  <2> QED BY <2>1, <2>2
<1>2. Dialogue(messages, << >>, FALSE)
        = (Turn("sys", (<<"w">> \o FlattenSeq(added)) \o << >>) \o FlattenSeq(turns)) \o <<"ast">>
  BY DEF Dialogue
<1> HIDE DEF messages, added, turns
<1>3. Turn("usr", a) \in Seq(Tokens)
  BY TurnType, MarkupTypes
<1>4. FlattenSeq(added) = << >> /\ FlattenSeq(turns) = Turn("usr", a)
  BY <1>1, <1>3, FlattenOne, MarkupTypes
<1>5. (<<"w">> \o << >>) \o << >> = <<"w">>
  BY ConcatEmptySeq, MarkupTypes
<1> QED BY <1>2, <1>4, <1>5 DEF messages

\* A dialogue of two questions with an answer between them.
LEMMA ThreeTurns ==
  ASSUME NEW a \in Seq(Tokens), NEW b \in Seq(Tokens), NEW c \in Seq(Tokens)
  PROVE  Dialogue(<<Said("user", a), Said("assistant", b), Said("user", c)>>, << >>, FALSE)
           = (Turn("sys", <<"w">>) \o ((Turn("usr", a) \o Turn("ast", b)) \o Turn("usr", c)))
             \o <<"ast">>
<1> DEFINE messages == <<Said("user", a), Said("assistant", b), Said("user", c)>>
           added == [i \in DOMAIN messages |-> SystemPart(messages[i])]
           turns == [i \in DOMAIN messages |-> TurnPart(messages[i])]
<1>1. /\ added = << << >>, << >>, << >> >>
      /\ turns = <<Turn("usr", a), Turn("ast", b), Turn("usr", c)>>
  <2>1. /\ DOMAIN messages = 1 .. 3
        /\ messages[1] = Said("user", a)
        /\ messages[2] = Said("assistant", b)
        /\ messages[3] = Said("user", c)
    OBVIOUS
  <2> HIDE DEF messages
  <2>2. /\ SystemPart(messages[1]) = << >> /\ TurnPart(messages[1]) = Turn("usr", a)
        /\ SystemPart(messages[2]) = << >> /\ TurnPart(messages[2]) = Turn("ast", b)
        /\ SystemPart(messages[3]) = << >> /\ TurnPart(messages[3]) = Turn("usr", c)
    BY <2>1, SaidTurns
  <2> QED BY <2>1, <2>2
<1>2. Dialogue(messages, << >>, FALSE)
        = (Turn("sys", (<<"w">> \o FlattenSeq(added)) \o << >>) \o FlattenSeq(turns)) \o <<"ast">>
  BY DEF Dialogue
<1> HIDE DEF messages, added, turns
<1>3. /\ Turn("usr", a) \in Seq(Tokens) /\ Turn("ast", b) \in Seq(Tokens)
      /\ Turn("usr", c) \in Seq(Tokens)
  BY TurnType, MarkupTypes
<1>4. FlattenSeq(added) = (<< >> \o << >>) \o << >>
  <2>1. << >> \in Seq(Tokens)
    BY MarkupTypes
  <2>2. FlattenSeq(<< << >>, << >>, << >> >>) = (<< >> \o << >>) \o << >>
    BY <2>1, FlattenThree
  <2> QED BY <1>1, <2>2
<1>5. FlattenSeq(turns) = (Turn("usr", a) \o Turn("ast", b)) \o Turn("usr", c)
  <2>1. FlattenSeq(<<Turn("usr", a), Turn("ast", b), Turn("usr", c)>>)
          = (Turn("usr", a) \o Turn("ast", b)) \o Turn("usr", c)
    BY <1>3, FlattenThree
  <2> QED BY <1>1, <2>1
<1>6. (<< >> \o << >>) \o << >> = << >> /\ (<<"w">> \o << >>) \o << >> = <<"w">>
  BY ConcatEmptySeq, MarkupTypes
<1> QED BY <1>2, <1>4, <1>5, <1>6 DEF messages

\* Concatenation, as a name of its own for the provers.
Cat(p, q) == p \o q

LEMMA Associates ==
  \A p, q, r \in Seq(Tokens) :
    Cat(p, q) \in Seq(Tokens) /\ Cat(Cat(p, q), r) = Cat(p, Cat(q, r))
<1> TAKE p, q, r \in Seq(Tokens)
<1> QED BY ConcatAssociative, ConcatProperties DEF Cat

\* Concatenation grouped as a follow-up writes it, and as a dialogue does.
LEMMA Regrouped ==
  \A s, u, x, b, e, c \in Seq(Tokens) :
    Cat(Cat(Cat(Cat(Cat(s, u), x), b), e), c) = Cat(s, Cat(Cat(u, Cat(Cat(x, b), e)), c))
<1> TAKE s, u, x, b, e, c \in Seq(Tokens)
<1> DEFINE p == Cat(s, u)  q == Cat(x, b)  r == Cat(q, e)  w == Cat(u, r)
<1>1. p \in Seq(Tokens) /\ q \in Seq(Tokens)
  BY Associates
<1>2. r \in Seq(Tokens)
  BY <1>1, Associates
<1>3. w \in Seq(Tokens)
  BY <1>2, Associates
<1>4. Cat(Cat(p, x), b) = Cat(p, q)
  BY <1>1, Associates
<1>5. Cat(Cat(p, q), e) = Cat(p, r)
  BY <1>1, Associates
<1>6. Cat(p, r) = Cat(s, w)
  BY <1>2, Associates
<1>7. Cat(Cat(s, w), c) = Cat(s, Cat(w, c))
  BY <1>3, Associates
<1> QED BY <1>4, <1>5, <1>6, <1>7

\* The follow-up of a first turn is the dialogue with its answer in it.
LEMMA FollowUpIsDialogue ==
  ASSUME NEW a \in Seq(Tokens), NEW tokens \in Seq(Tokens), job.text2 \in Seq(Tokens),
         NEW first, first = (Turn("sys", <<"w">>) \o Turn("usr", a)) \o <<"ast">>
  PROVE  FollowUp(first, tokens)
           = Dialogue(<<Said("user", a), Said("assistant", BodyBeforeStop(tokens)),
                        Said("user", job.text2)>>, << >>, FALSE)
<1> DEFINE s == Turn("sys", <<"w">>)
           u == Turn("usr", a)
           x == <<"ast">>
           e == <<"end">>
           b == BodyBeforeStop(tokens)
           c == Turn("usr", job.text2)
<1>1. /\ s \in Seq(Tokens) /\ u \in Seq(Tokens) /\ c \in Seq(Tokens)
      /\ x \in Seq(Tokens) /\ e \in Seq(Tokens)
  BY TurnType, MarkupTypes
<1>2. b \in Seq(Tokens)
  BY BodyIsPrefix
<1>3. FollowUp(first, tokens) = (((((s \o u) \o x) \o b) \o e) \o c) \o x
  BY DEF FollowUp
<1>4. Turn("ast", b) = (x \o b) \o e
  BY DEF Turn
<1>5. Dialogue(<<Said("user", a), Said("assistant", b), Said("user", job.text2)>>, << >>, FALSE)
        = (s \o ((u \o Turn("ast", b)) \o c)) \o x
  BY <1>2, ThreeTurns
<1> HIDE DEF s, u, x, e, b, c
<1>6. ((((s \o u) \o x) \o b) \o e) \o c = s \o ((u \o ((x \o b) \o e)) \o c)
  <2>1. Cat(Cat(Cat(Cat(Cat(s, u), x), b), e), c)
          = Cat(s, Cat(Cat(u, Cat(Cat(x, b), e)), c))
    BY <1>1, <1>2, Regrouped, SMTT(60)
  <2> QED BY <2>1 DEF Cat
<1>7. FollowUp(first, tokens)
        = Dialogue(<<Said("user", a), Said("assistant", b), Said("user", job.text2)>>, << >>, FALSE)
  BY <1>3, <1>4, <1>5, <1>6
<1> QED BY <1>7 DEF b

(***************************************************************************)
(* The prompts the front ends put together by hand are the dialogues the   *)
(* API would format from the same turns, the answer of the first cut at    *)
(* its first stop token.                                                   *)
(***************************************************************************)
THEOREM HandMadePromptsAreDialogues == Spec => []PromptsAreDialogues
<1> DEFINE media == IF job.front \in Images THEN [i \in 1 .. rows |-> "pad"] ELSE << >>
           a == media \o job.text
           upto(n) == <<Said("user", a), Said("assistant", SubSeq(answer, 1, n)),
                        Said("user", job.text2)>>
<1>1. ASSUME FrontInv, gen # None, job.front # "api"
      PROVE  /\ turn = 1 => gen.prompt = Dialogue(<<Said("user", a)>>, << >>, FALSE)
             /\ turn # 1 =>
                  \E n \in 0 .. Len(answer) :
                    /\ \A i \in 1 .. n : answer[i] \notin Stops
                    /\ n < Len(answer) => answer[n + 1] \in Stops
                    /\ gen.prompt = Dialogue(upto(n), << >>, FALSE)
  <2>1. phase = "running" /\ gen.prompt = CurrentPrompt
    BY <1>1 DEF FrontInv, Running
  <2>2. job # None /\ job \in Jobs /\ rows \in Nat /\ answer \in Seq(Tokens) /\ turn \in {1, 2}
    BY <2>1, <1>1 DEF FrontInv, Typed, Working
  <2>3. job.front \in Commands /\ job.text \in Seq(Tokens) /\ job.text2 \in Seq(Tokens)
    BY <1>1, <2>2, FrontAssumption
  <2>4. job.front \in Images => rows = MediaTokens(job.image)
    BY <1>1, <2>1 DEF FrontInv, Seen, Working
  <2>5. a \in Seq(Tokens)
    <3>1. media \in Seq(Tokens)
      BY <2>2, PadsType, MarkupTypes
    <3> HIDE DEF media
    <3> QED BY <2>3, <3>1
  <2>6. FirstPrompt(job) = (Turn("sys", <<"w">>) \o Turn("usr", a)) \o <<"ast">>
    <3>1. CASE job.front \in Images
      <4>1. FirstPrompt(job) = ImageChat(job.text, rows)
        BY <2>4, <3>1 DEF FirstPrompt, Images
      <4> QED BY <3>1, <4>1 DEF ImageChat
    <3>2. CASE job.front \notin Images
      <4>1. FirstPrompt(job) = TextChat(job.text)
        BY <2>3, <3>2 DEF FirstPrompt, Images, Commands
      <4>2. a = job.text
        BY <2>3, <3>2, ConcatEmptySeq
      <4> QED BY <4>1, <4>2 DEF TextChat
    <3> QED BY <3>1, <3>2
  <2> HIDE DEF a
  <2>7. CASE turn = 1
    BY <2>1, <2>5, <2>6, <2>7, OneTurn DEF CurrentPrompt
  <2>8. CASE turn = 2
    <3>1. CurrentPrompt = FollowUp(FirstPrompt(job), answer)
      BY <2>8 DEF CurrentPrompt
    <3>2. PICK k \in 0 .. Len(answer) :
             /\ BodyBeforeStop(answer) = SubSeq(answer, 1, k)
             /\ \A i \in 1 .. k : answer[i] \notin Stops
             /\ k < Len(answer) => answer[k + 1] \in Stops
      BY <2>2, BodyIsPrefix
    <3>3. CurrentPrompt = Dialogue(<<Said("user", a), Said("assistant", BodyBeforeStop(answer)),
                                     Said("user", job.text2)>>, << >>, FALSE)
      BY <2>2, <2>3, <2>5, <2>6, <3>1, FollowUpIsDialogue
    <3>4. gen.prompt = Dialogue(upto(k), << >>, FALSE)
      BY <2>1, <3>2, <3>3
    <3> HIDE DEF upto
    <3>5. \E n \in 0 .. Len(answer) :
             /\ \A i \in 1 .. n : answer[i] \notin Stops
             /\ n < Len(answer) => answer[n + 1] \in Stops
             /\ gen.prompt = Dialogue(upto(n), << >>, FALSE)
      BY <3>2, <3>4
    <3>6. turn # 1
      BY <2>8
    <3> QED BY <3>5, <3>6
  <2> QED BY <2>2, <2>7, <2>8
<1>2. FrontInv => PromptsAreDialogues
  BY <1>1 DEF PromptsAreDialogues, Said
<1> QED BY <1>2, FrontInvariant, PTL
=============================================================================
