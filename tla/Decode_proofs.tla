---------------------------- MODULE Decode_proofs ----------------------------
(***************************************************************************)
(* Proofs about Decode, for every prompt, block length, exact model and    *)
(* draft: the states the programs go on from hold greedy decoding's text,  *)
(* and neither lab ever finds a difference from its baseline.  And about   *)
(* DynSkip, for every dialogue, policy and weight: the second part.        *)
(***************************************************************************)
EXTENDS DecodeSkip, Integers, FiniteSets, FiniteSetTheorems, WellFoundedInduction, TLAPS

\* Every set of natural numbers with a member has a least one: what the proofs
\* below use in the place of an induction.
LEMMA LeastNatural ==
    ASSUME NEW S \in SUBSET Nat, S # {}
    PROVE  \E m \in S : \A p \in S : m <= p
<1> DEFINE R == OpToRel(<, Nat)
<1>1. IsWellFoundedOn(R, Nat)
    BY NatLessThanWellFounded, Zenon
<1>2. \A x, y \in Nat : <<x, y>> \in R \/ y <= x
    BY DEF OpToRel
<1> HIDE DEF R
<1>3. PICK m \in S : \A p \in S : <<p, m>> \notin R
    BY <1>1, WFMin
<1> QED
    BY <1>2, <1>3

Room     == Start + K + 1
Row      == Tokens \cup {None}
States   == [row : [Rows -> Row], len : 0 .. Room]

\* The rows of s in use are the first n tokens of the prompt and what m likes
\* best after them.
Text(m, s) ==
    /\ s.len >= Start
    /\ \A p \in 1 .. Start : s.row[p] = Prompt[p]
    /\ \A p \in 1 .. s.len : s.row[p] \in Tokens
    /\ \A p \in Start + 1 .. s.len : s.row[p] = Best(m, Context(s, p - 1))

Prefilled(m, s) == Text(m, s) /\ s.len = Start

\* The baseline's rows after the prompt are the tokens it said.
Serial(n) ==
    /\ Text(model, serial) /\ best = NextToken(serial)
    /\ serial.len = Start + n /\ \A i \in 1 .. n : said[i] = serial.row[Start + i]

Typed ==
    /\ model \in Models
    /\ base \in States /\ serial \in States /\ target \in States
    /\ said \in Seq(Tokens) /\ draft \in Seq(Tokens)
    /\ accept \in Nat /\ program \in {"text", "block", "spec"}
    /\ program # "text" => K >= 2

Texts ==
    /\ serial.len = 0 \/ Text(model, serial)
    /\ target.len = 0 \/ Text(model, target)

Stages ==
    /\ stage \in {"pick", "feed", "mask", "draft", "verify", "commit"} => Prefilled(model, base)
    /\ stage = "prefill" => said = <<>> /\ serial.len = 0
    /\ stage \in {"draft", "verify", "commit"} => program = "spec"
    /\ stage = "pick" => Serial(Len(said))
    /\ stage = "feed" => /\ Len(said) > 0 /\ Serial(Len(said) - 1)
                         /\ said[Len(said)] = best
    /\ stage = "mask" /\ program = "block" => Serial(Len(said)) /\ Len(said) = K
    /\ stage \in {"prefill", "pick", "feed"} => target.len = 0
    /\ stage = "mask" /\ program = "block" => target.len = 0
    /\ stage \in {"draft", "verify"} => Prefilled(model, target) /\ Len(draft) > 0
                                        /\ draft[1] = NextToken(target)
    /\ stage = "verify" => Len(draft) = K
    /\ stage = "draft" => Len(draft) < K
    /\ stage = "commit" => /\ Text(model, target) /\ accept \in 1 .. K
                           /\ target.len = Start + accept /\ next[accept] = NextToken(target)

GInv == Typed /\ Texts /\ Stages

-----------------------------------------------------------------------------
(* Attention states. *)

LEMMA Constants ==
    /\ Start \in Nat /\ Start > 0 /\ K \in Nat /\ K >= 1 /\ Room \in Nat
    /\ Rows = 1 .. Room /\ \A p \in 1 .. Start : Prompt[p] \in Tokens
  BY DecodeAssumption DEF Start, Room, Rows

LEMMA ContextIsRows ==
  ASSUME NEW s \in States, NEW n \in 0 .. s.len
  PROVE  /\ Context(s, n) \in [1 .. n -> Row] /\ Context(s, n) \in Seq(Row)
         /\ Len(Context(s, n)) = n
         /\ \A p \in 1 .. n : Context(s, n)[p] = s.row[p]
<1>1. n \in Nat /\ \A p \in 1 .. n : p \in Rows
  BY Constants DEF States
<1>2. Context(s, n) \in [1 .. n -> Row]
  BY <1>1 DEF Context, States
<1>3. Context(s, n) \in Seq(Row) /\ Len(Context(s, n)) = n
  BY <1>1, <1>2
<1> QED  BY <1>2, <1>3 DEF Context

\* States that agree up to n have the same context there.
LEMMA SameContext ==
  ASSUME NEW s, NEW t, NEW n \in Nat, \A p \in 1 .. n : s.row[p] = t.row[p]
  PROVE  Context(s, n) = Context(t, n)
  BY DEF Context

LEMMA BestIsToken ==
  ASSUME NEW m \in Models, NEW s \in States, NEW n \in 1 .. s.len,
         \A p \in 1 .. n : s.row[p] \in Tokens
  PROVE  Best(m, Context(s, n)) \in Tokens
<1>1. n \in Rows
  BY Constants DEF States
<1>2. Context(s, n) \in [1 .. n -> Tokens]
  BY DEF Context
<1> QED  BY <1>1, <1>2, DecodeAssumption

LEMMA FedRows ==
  ASSUME NEW s \in States, NEW b \in Seq(Tokens), s.len + Len(b) <= Room
  PROVE  /\ Fed(s, b) \in States /\ Fed(s, b).len = s.len + Len(b)
         /\ \A p \in 1 .. s.len : Fed(s, b).row[p] = s.row[p]
         /\ \A i \in 1 .. Len(b) : Fed(s, b).row[s.len + i] = b[i]
<1> DEFINE f == Fed(s, b)
<1>1. s.len \in Nat /\ Len(b) \in Nat /\ \A i \in 1 .. Len(b) : b[i] \in Tokens
  BY DEF States
<1>2. f.len = s.len + Len(b) /\ f.len \in 0 .. Room
  BY <1>1, Constants DEF Fed
<1>3. \A p \in Rows : f.row[p] = IF p > s.len /\ p <= s.len + Len(b)
                                 THEN b[p - s.len] ELSE s.row[p]
  BY DEF Fed
<1>4. \A p \in Rows : f.row[p] \in Row
  <2> TAKE p \in Rows
  <2>1. CASE p > s.len /\ p <= s.len + Len(b)
    <3>1. p - s.len \in 1 .. Len(b)
      BY <1>1, <2>1, Constants
    <3> QED  BY <1>1, <1>3, <2>1, <3>1 DEF Row
  <2>2. CASE ~(p > s.len /\ p <= s.len + Len(b))
    BY <1>3, <2>2 DEF States
  <2> QED  BY <2>1, <2>2
<1>5. f = [row |-> f.row, len |-> f.len] /\ f.row = [p \in Rows |-> f.row[p]]
  BY DEF Fed
<1>6. f.row \in [Rows -> Row]
  BY <1>4, <1>5
<1>7. f \in States
  BY <1>2, <1>5, <1>6 DEF States
<1>8. \A p \in 1 .. s.len : f.row[p] = s.row[p]
  BY <1>1, <1>3, Constants DEF States
<1>9. ASSUME NEW i \in 1 .. Len(b)  PROVE f.row[s.len + i] = b[i]
  <2>1. s.len + i \in Rows /\ s.len + i > s.len /\ s.len + i <= s.len + Len(b)
    BY <1>1, Constants
  <2>2. (s.len + i) - s.len = i
    BY <1>1
  <2> QED  BY <1>3, <2>1, <2>2
<1> QED  BY <1>2, <1>7, <1>8, <1>9

LEMMA FedOne ==
  ASSUME NEW s \in States, NEW token \in Tokens, s.len + 1 <= Room
  PROVE  /\ Fed(s, <<token>>) \in States /\ Fed(s, <<token>>).len = s.len + 1
         /\ \A p \in 1 .. s.len : Fed(s, <<token>>).row[p] = s.row[p]
         /\ Fed(s, <<token>>).row[s.len + 1] = token
<1> DEFINE b == <<token>>
<1>1. b \in Seq(Tokens) /\ Len(b) = 1 /\ b[1] = token /\ 1 \in 1 .. Len(b)
  OBVIOUS
<1> HIDE DEF b
<1>2. /\ Fed(s, b) \in States /\ Fed(s, b).len = s.len + 1
      /\ \A p \in 1 .. s.len : Fed(s, b).row[p] = s.row[p]
      /\ Fed(s, b).row[s.len + 1] = b[1]
  BY <1>1, FedRows
<1> QED  BY <1>1, <1>2 DEF b

\* A text grows by rows that hold the best token after those before them.
LEMMA Grown ==
  ASSUME NEW m \in Models, NEW s \in States, NEW t \in States, Text(m, s), s.len <= t.len,
         \A p \in 1 .. s.len : t.row[p] = s.row[p],
         \A p \in s.len + 1 .. t.len : /\ t.row[p] \in Tokens
                                       /\ t.row[p] = Best(m, Context(t, p - 1))
  PROVE  Text(m, t)
<1>1. s.len \in Nat /\ t.len \in Nat /\ s.len >= Start /\ t.len >= Start
  BY Constants DEF States, Text
<1>2. \A p \in 1 .. Start : t.row[p] = Prompt[p]
  BY <1>1, Constants DEF Text
<1>3. ASSUME NEW p \in 1 .. t.len
      PROVE  t.row[p] \in Tokens /\ (p > Start => t.row[p] = Best(m, Context(t, p - 1)))
  <2>1. CASE p <= s.len
    <3>1. p - 1 \in Nat /\ p \in 1 .. s.len /\ (p > Start => p \in Start + 1 .. s.len)
      BY <1>1, <2>1, Constants
    <3>2. \A q \in 1 .. p - 1 : t.row[q] = s.row[q]
      BY <1>1, <3>1
    <3>3. Context(t, p - 1) = Context(s, p - 1)
      BY <3>1, <3>2, SameContext
    <3> QED  BY <3>1, <3>3 DEF Text
  <2>2. CASE p \in s.len + 1 .. t.len
    BY <2>2
  <2> QED  BY <1>1, <2>1, <2>2
<1>4. \A p \in Start + 1 .. t.len : p \in 1 .. t.len /\ p > Start
  BY <1>1, Constants
<1> QED  BY <1>1, <1>2, <1>3, <1>4 DEF Text

\* Feeding the best token.
LEMMA FedBest ==
  ASSUME NEW m \in Models, NEW s \in States, Text(m, s), s.len + 1 <= Room,
         NEW token \in Tokens, token = Best(m, Context(s, s.len))
  PROVE  Text(m, Fed(s, <<token>>))
<1> DEFINE t == Fed(s, <<token>>)
<1>1. s.len \in Nat
  BY DEF States
<1>2. /\ t \in States /\ t.len = s.len + 1 /\ \A p \in 1 .. s.len : t.row[p] = s.row[p]
      /\ t.row[s.len + 1] = token
  BY FedOne
<1>3. Context(t, s.len) = Context(s, s.len)
  BY <1>1, <1>2, SameContext
<1>4. \A p \in s.len + 1 .. t.len : p = s.len + 1 /\ p - 1 = s.len
  BY <1>1, <1>2
<1>5. s.len <= t.len
  BY <1>1, <1>2
<1>6. \A p \in s.len + 1 .. t.len : /\ t.row[p] \in Tokens
                                    /\ t.row[p] = Best(m, Context(t, p - 1))
  BY <1>2, <1>3, <1>4
<1> HIDE DEF t
<1> QED  BY <1>2, <1>5, <1>6, Grown DEF t

\* A copy, and a state taken back to n, hold the same rows up to there.
LEMMA SameRows ==
  ASSUME NEW m \in Models, NEW s \in States, NEW t \in States, Text(m, s),
         t.len \in Start .. s.len, \A p \in 1 .. t.len : t.row[p] = s.row[p]
  PROVE  Text(m, t)
<1>1. s.len \in Nat /\ t.len \in Nat
  BY DEF States
<1>2. ASSUME NEW p \in Start + 1 .. t.len  PROVE t.row[p] = Best(m, Context(t, p - 1))
  <2>1. p - 1 \in Nat /\ p \in 1 .. t.len /\ p \in Start + 1 .. s.len
    BY <1>1, Constants
  <2>2. \A q \in 1 .. p - 1 : t.row[q] = s.row[q]
    BY <1>1, <2>1
  <2>3. Context(t, p - 1) = Context(s, p - 1)
    BY <2>1, <2>2, SameContext
  <2> QED  BY <2>1, <2>3 DEF Text
<1>3. \A p \in 1 .. Start : t.row[p] = Prompt[p]
  BY <1>1, Constants DEF Text
<1>4. \A p \in 1 .. t.len : t.row[p] \in Tokens
  BY <1>1 DEF Text
<1>5. t.len >= Start
  BY <1>1, Constants
<1> QED  BY <1>2, <1>3, <1>4, <1>5 DEF Text

LEMMA CloneState ==
  ASSUME NEW s \in States
  PROVE  /\ Clone(s) \in States /\ Clone(s).len = s.len
         /\ \A p \in 1 .. s.len : Clone(s).row[p] = s.row[p]
  BY Constants DEF Clone, States, Row

LEMMA TruncatedState ==
  ASSUME NEW s \in States, NEW n \in 0 .. s.len
  PROVE  /\ Truncated(s, n) \in States /\ Truncated(s, n).len = n
         /\ Truncated(s, n).row = s.row
  BY Constants DEF Truncated, States

LEMMA FreshState == Fresh \in States /\ Fresh.len = 0
  BY Constants DEF Fresh, States, Row

-----------------------------------------------------------------------------
(* The invariant. *)

LEMMA InitGInv == Init => GInv
  BY FreshState DEF Init, GInv, Typed, Texts, Stages

LEMMA PrefillGInv == GInv /\ Prefill => GInv'
<1> SUFFICES ASSUME GInv, Prefill  PROVE GInv'
  OBVIOUS
<1> USE DEF GInv
<1>1. Typed /\ stage' = "pick" /\ Fresh \in States /\ Fresh.len = 0
  BY FreshState DEF Prefill, Go
<1>2. Prompt \in Seq(Tokens) /\ Fresh.len + Len(Prompt) <= Room
  BY Constants, FreshState, DecodeAssumption DEF Start, Room
<1>3. /\ base' \in States /\ base'.len = Start
      /\ \A i \in 1 .. Start : base'.row[i] = Prompt[i]
  <2>1. \A i \in 1 .. Len(Prompt) : Fresh.len + i = i
    BY <1>1
  <2>2. base' = Fed(Fresh, Prompt)
    BY DEF Prefill
  <2> QED  BY <1>1, <1>2, <2>1, <2>2, FedRows, Constants DEF Start
<1>4. Text(model, base')
  BY <1>3, Constants DEF Text
<1>5. /\ serial' \in States /\ serial'.len = Start
      /\ \A p \in 1 .. Start : serial'.row[p] = base'.row[p]
  BY <1>3, CloneState DEF Prefill
<1>6. Text(model, serial')
  BY <1>1, <1>3, <1>4, <1>5, Constants, SameRows DEF Typed
<1>7. Context(serial', Start) = Context(base', Start)
  BY <1>5, Constants, SameContext
<1>8. UNCHANGED <<model, program, said, target, draft, accept>> /\ said = <<>>
  BY DEF Prefill, Go, block, Stages
<1>9. Typed'
  BY <1>1, <1>3, <1>5, <1>8 DEF Typed
<1>10. Texts'
  BY <1>6, <1>8 DEF Texts
<1>11. Serial(Len(said))'
  <2>1. Len(said') = 0
    BY <1>8
  <2>2. best' = NextToken(serial)'
    BY <1>3, <1>5, <1>7, <1>8 DEF Prefill, NextToken
  <2> QED  BY <1>5, <1>6, <1>8, <2>1, <2>2, Constants DEF Serial
<1>12. Stages'
  <2>1. Prefilled(model, base)'
    BY <1>3, <1>4, <1>8 DEF Prefilled
  <2>2. target'.len = 0
    BY <1>8 DEF Prefill, Stages
  <2> QED  BY <1>1, <1>11, <2>1, <2>2 DEF Stages
<1> QED  BY <1>9, <1>10, <1>12 DEF GInv

LEMMA PickGInv == GInv /\ Pick => GInv'
<1> SUFFICES ASSUME GInv, Pick  PROVE GInv'
  OBVIOUS
<1>1. Typed /\ Texts /\ Stages
  BY DEF GInv
<1>2. stage = "pick" /\ Serial(Len(said)) /\ said' = Append(said, best) /\ stage' \in {"feed", "exited"}
  BY <1>1 DEF Pick, Stages, Go, Exit
<1>3. UNCHANGED <<model, program, base, serial, best, target, draft, accept>>
  BY DEF Pick, Go, Exit, block
<1>4. best \in Tokens
  <2>1. serial.len \in 1 .. serial.len
    BY <1>1, <1>2, Constants DEF Typed, States, Text, Serial
  <2> QED  BY <1>1, <1>2, <2>1, BestIsToken DEF Typed, Text, Serial, NextToken
<1>5. /\ said' \in Seq(Tokens) /\ Len(said') = Len(said) + 1 /\ said'[Len(said')] = best
      /\ \A i \in 1 .. Len(said) : said'[i] = said[i]
  BY <1>1, <1>2, <1>4 DEF Typed
<1>6. Typed' /\ Texts'
  BY <1>1, <1>3, <1>5 DEF Typed, Texts
<1>7. Len(said') > 0 /\ Len(said') - 1 = Len(said)
  BY <1>1, <1>5 DEF Typed
<1>8. Serial(Len(said) - 1)'
  <2>1. \A i \in 1 .. Len(said) : said'[i] = serial'.row[Start + i]
    BY <1>2, <1>3, <1>5 DEF Serial
  <2>2. best' = NextToken(serial)' /\ Text(model, serial)' /\ serial'.len = Start + Len(said)
    BY <1>2, <1>3 DEF Serial, NextToken
  <2> QED  BY <1>7, <2>1, <2>2 DEF Serial
<1>9. Prefilled(model, base)' /\ target'.len = 0
  BY <1>1, <1>2, <1>3 DEF Stages, Prefilled
<1>10. Stages'
  <2>1. CASE stage' = "feed"
    BY <1>3, <1>5, <1>7, <1>8, <1>9, <2>1 DEF Stages
  <2>2. CASE stage' = "exited"
    BY <2>2 DEF Stages
  <2> QED  BY <1>2, <2>1, <2>2
<1> QED  BY <1>6, <1>10 DEF GInv

LEMMA FeedSerial ==
  ASSUME GInv, Feed
  PROVE  /\ serial' \in States /\ Text(model, serial') /\ Serial(Len(said))'
         /\ stage = "feed" /\ model' = model
         /\ \/ stage' = "pick"
            \/ stage' = "mask" /\ (program = "block" => Len(said) = K)
<1>1. Typed /\ Texts /\ Stages
  BY DEF GInv
<1>2. /\ stage = "feed" /\ Len(said) > 0 /\ Serial(Len(said) - 1) /\ said[Len(said)] = best
      /\ \/ stage' = "pick"
         \/ stage' = "mask" /\ (program = "block" => Len(said) = K)
  <2>1. stage = "feed"
    BY DEF Feed
  <2>2. \/ stage' = "pick"
        \/ stage' = "mask" /\ (program = "block" => Len(said) = K)
    BY DEF Feed, Go
  <2> QED  BY <1>1, <2>1, <2>2 DEF Stages
<1>3. UNCHANGED <<model, program, base, said, target, draft, accept>>
  BY DEF Feed, Go, block
<1> DEFINE n == Len(said)
<1>4. n \in Nat /\ n > 0 /\ best \in Tokens /\ serial \in States /\ Text(model, serial)
      /\ serial.len \in Nat /\ serial.len = Start + (n - 1)
  BY <1>1, <1>2 DEF Typed, Serial, States
<1>5. serial.len + 1 <= Room
  <2>1. Takes(serial.len, Start + n - 1, 1)
    BY DEF Feed
  <2> QED  BY <1>4, <2>1, Constants DEF Takes, Capacity, Room
<1>6. serial' = Fed(serial, <<best>>) /\ best' = NextToken(serial')
  BY <1>2, <1>3 DEF Feed
<1>7. /\ serial' \in States /\ serial'.len = serial.len + 1
      /\ \A p \in 1 .. serial.len : serial'.row[p] = serial.row[p]
      /\ serial'.row[serial.len + 1] = best
  BY <1>4, <1>5, <1>6, FedOne
<1>8. Text(model, serial')
  <2>1. best = Best(model, Context(serial, serial.len))
    BY <1>2 DEF Serial, NextToken
  <2> QED  BY <1>1, <1>4, <1>5, <1>6, <2>1, FedBest DEF Typed
<1>9. Serial(n)'
  <2>1. serial'.len = Start + n
    BY <1>4, <1>7, Constants
  <2>2. ASSUME NEW i \in 1 .. n  PROVE said[i] = serial'.row[Start + i]
    <3>1. CASE i \in 1 .. n - 1
      <4>1. Start + i \in 1 .. serial.len
        BY <1>4, <3>1, Constants
      <4> QED  BY <1>2, <1>7, <3>1, <4>1 DEF Serial
    <3>2. CASE i = n
      <4>1. Start + i = serial.len + 1
        BY <1>4, <3>2, Constants
      <4> QED  BY <1>2, <1>7, <3>2, <4>1
    <3> QED  BY <1>4, <3>1, <3>2
  <2>3. best' = NextToken(serial)'
    BY <1>3, <1>6 DEF NextToken
  <2> QED  BY <1>3, <1>8, <2>1, <2>2, <2>3 DEF Serial
<1> QED  BY <1>2, <1>3, <1>7, <1>8, <1>9

LEMMA FeedGInv == GInv /\ Feed => GInv'
<1> SUFFICES ASSUME GInv, Feed  PROVE GInv'
  OBVIOUS
<1>1. Typed /\ Texts /\ Stages
  BY DEF GInv
<1>2. UNCHANGED <<model, program, base, said, target, draft, accept>>
  BY DEF Feed, Go, block
<1>3. Typed' /\ Texts'
  BY <1>1, <1>2, FeedSerial DEF Typed, Texts
<1>4. Prefilled(model, base)' /\ target'.len = 0
  BY <1>1, <1>2, FeedSerial DEF Stages, Prefilled
<1>5. Stages'
  <2>1. CASE stage' = "pick"
    BY <1>2, <1>4, <2>1, FeedSerial DEF Stages
  <2>2. CASE stage' = "mask" /\ program' = "block"
    <3>1. Len(said) = K
      BY <1>2, <2>2, FeedSerial
    <3> QED  BY <1>2, <1>4, <2>2, <3>1, FeedSerial DEF Stages
  <2>3. CASE stage' = "mask" /\ program' # "block"
    BY <1>2, <1>4, <2>3 DEF Stages
  <2> QED  BY <2>1, <2>2, <2>3, FeedSerial
<1> QED  BY <1>3, <1>5 DEF GInv

LEMMA VerifyBlockGInv == GInv /\ VerifyBlock => GInv'
<1> SUFFICES ASSUME GInv, VerifyBlock  PROVE GInv'
  OBVIOUS
<1>1. Typed /\ Texts /\ Stages
  BY DEF GInv
<1>2. /\ stage = "mask" /\ program = "block" /\ stage' = "exited"
      /\ draft' = said /\ target' = Fed(Clone(base), said)
      /\ UNCHANGED <<model, program, base, serial, said, accept>>
  BY DEF VerifyBlock, Exit
<1>3. Prefilled(model, base) /\ Serial(Len(said)) /\ Len(said) = K
  BY <1>1, <1>2 DEF Stages
<1>4. /\ Clone(base) \in States /\ Clone(base).len = Start
      /\ \A p \in 1 .. Start : Clone(base).row[p] = base.row[p]
  BY <1>1, <1>3, CloneState DEF Typed, Prefilled
<1>5. /\ target' \in States /\ target'.len = Start + K
      /\ \A p \in 1 .. Start : target'.row[p] = base.row[p]
      /\ \A i \in 1 .. K : target'.row[Start + i] = said[i]
  <2>1. Start + Len(said) <= Room
    BY <1>3, Constants DEF Room
  <2> QED  BY <1>1, <1>2, <1>3, <1>4, <2>1, FedRows, Constants DEF Typed
<1>6. \A p \in 1 .. Start + K : target'.row[p] = serial.row[p]
  <2> TAKE p \in 1 .. Start + K
  <2>1. CASE p <= Start
    <3>1. p \in 1 .. Start /\ p \in 1 .. serial.len
      BY <1>3, <2>1, Constants DEF Serial
    <3> QED  BY <1>3, <1>5, <3>1 DEF Prefilled, Serial, Text
  <2>2. CASE p > Start
    <3>1. p - Start \in 1 .. K /\ Start + (p - Start) = p
      BY <2>2, Constants
    <3> QED  BY <1>3, <1>5, <3>1 DEF Serial
  <2> QED  BY <2>1, <2>2, Constants
<1>7. Text(model, target')
  <2>1. Text(model, serial) /\ serial.len = Start + K
    BY <1>3 DEF Serial
  <2>2. target'.len \in Start .. serial.len
    BY <1>5, <2>1, Constants
  <2> QED  BY <1>1, <1>5, <1>6, <2>1, <2>2, SameRows DEF Typed
<1>8. Typed'
  BY <1>1, <1>2, <1>5 DEF Typed
<1>9. Texts'
  BY <1>1, <1>2, <1>7 DEF Texts
<1>10. Stages'
  BY <1>2 DEF Stages
<1> QED  BY <1>8, <1>9, <1>10 DEF GInv

LEMMA NextMaskGInv == GInv /\ NextMask => GInv'
<1> SUFFICES ASSUME GInv, NextMask  PROVE GInv'
  OBVIOUS
<1>1. Typed /\ Texts /\ Stages
  BY DEF GInv
<1>2. /\ stage = "mask" /\ program = "spec" /\ stage' = "draft"
      /\ draft' = <<NextToken(base)>> /\ target' = Clone(base)
      /\ UNCHANGED <<model, program, base, serial, said, accept>>
  BY DEF NextMask, Go
<1>3. Prefilled(model, base)
  BY <1>1, <1>2 DEF Stages
<1>4. /\ target' \in States /\ target'.len = Start
      /\ \A p \in 1 .. Start : target'.row[p] = base.row[p]
  BY <1>1, <1>2, <1>3, CloneState DEF Typed, Prefilled
<1>5. Text(model, target')
  BY <1>1, <1>3, <1>4, SameRows, Constants DEF Typed, Prefilled
<1>6. NextToken(base) = NextToken(target)'
  <2>1. Context(target', Start) = Context(base, Start)
    BY <1>4, Constants, SameContext
  <2> QED  BY <1>2, <1>3, <1>4, <2>1 DEF NextToken, Prefilled
<1>7. NextToken(base) \in Tokens
  <2>1. base.len \in 1 .. base.len
    BY <1>3, Constants DEF Prefilled
  <2> QED  BY <1>1, <1>3, <2>1, BestIsToken DEF Typed, Prefilled, Text, NextToken
<1>8. draft' \in Seq(Tokens) /\ Len(draft') = 1 /\ draft'[1] = NextToken(base)
  BY <1>2, <1>7
<1>9. Typed' /\ Texts'
  BY <1>1, <1>2, <1>4, <1>5, <1>8 DEF Typed, Texts
<1>10. Prefilled(model, base)' /\ Prefilled(model, target)'
  BY <1>2, <1>3, <1>4, <1>5 DEF Prefilled
<1>11. K >= 2
  BY <1>1, <1>2 DEF Typed
<1>12. Stages'
  BY <1>2, <1>6, <1>8, <1>10, <1>11, Constants DEF Stages
<1> QED  BY <1>9, <1>12 DEF GInv

LEMMA DraftGInv == GInv /\ Draft => GInv'
<1> SUFFICES ASSUME GInv, Draft  PROVE GInv'
  OBVIOUS
<1>1. Typed /\ Texts /\ Stages
  BY DEF GInv
<1>2. /\ stage = "draft"
      /\ \/ stage' = "verify" /\ Len(draft) + 1 = K
         \/ stage' = "draft" /\ Len(draft) + 1 # K
      /\ UNCHANGED <<model, program, base, serial, target, said, accept>>
  BY DEF Draft, Go
<1>3. PICK token \in Tokens : draft' = Append(draft, token)
  BY DEF Draft
<1>4. /\ Prefilled(model, base) /\ Prefilled(model, target) /\ program = "spec"
      /\ draft \in Seq(Tokens) /\ Len(draft) > 0 /\ draft[1] = NextToken(target) /\ Len(draft) < K
  BY <1>1, <1>2 DEF Stages, Typed
<1>5. /\ draft' \in Seq(Tokens) /\ Len(draft') = Len(draft) + 1 /\ draft'[1] = draft[1]
  BY <1>3, <1>4
<1>6. Typed' /\ Texts'
  BY <1>1, <1>2, <1>5 DEF Typed, Texts
<1>7. /\ Prefilled(model, base)' /\ Prefilled(model, target)' /\ draft'[1] = NextToken(target)'
      /\ Len(draft') > 0
  BY <1>2, <1>4, <1>5 DEF Prefilled, NextToken
<1>8. Len(draft) + 1 # K => Len(draft') < K
  BY <1>4, <1>5, Constants
<1>9. Stages'
  BY <1>2, <1>4, <1>5, <1>7, <1>8 DEF Stages
<1> QED  BY <1>6, <1>9 DEF GInv

\* Whatever the draft, the accepted part of the block is greedy decoding's.
LEMMA AcceptedIsText ==
  ASSUME GInv, Verify
  PROVE  /\ target' \in States /\ Text(model, target') /\ accept' \in 1 .. K
         /\ target'.len = Start + accept' /\ next'[accept'] = Best(model, Context(target', target'.len))
         /\ \A p \in 1 .. Start : target'.row[p] = target.row[p]
         /\ \A t \in 1 .. accept' : draft[t] = target'.row[Start + t]
<1>1. Typed /\ stage = "verify"
  BY DEF GInv, Verify
<1>2. /\ Prefilled(model, target) /\ Len(draft) = K /\ draft[1] = NextToken(target)
      /\ draft \in Seq(Tokens) /\ target \in States
  BY <1>1 DEF GInv, Stages, Typed
<1> DEFINE fed == Fed(target, draft)
<1>3. /\ fed \in States /\ fed.len = Start + K
      /\ \A p \in 1 .. Start : fed.row[p] = target.row[p]
      /\ \A i \in 1 .. K : fed.row[Start + i] = draft[i]
  <2>1. target.len + Len(draft) <= Room
    BY <1>2, Constants DEF Prefilled, Room
  <2> QED  BY <1>2, <2>1, FedRows DEF Prefilled
<1>4. next' = NextIds(fed)
  BY DEF Verify
<1>5. PICK a \in 1 .. K : /\ Accepted(a, draft, next') /\ accept' = a
                         /\ target' = IF a < K THEN Truncated(fed, Start + a) ELSE fed
  BY DEF Verify
<1> HIDE DEF fed
<1>6. target' \in States /\ target'.len = Start + a /\ target'.row = fed.row
  <2>1. CASE a < K
    <3>1. Start + a \in 0 .. fed.len
      BY <1>3, <2>1, Constants
    <3> QED  BY <1>3, <1>5, <2>1, <3>1, TruncatedState
  <2>2. CASE ~(a < K)
    BY <1>3, <1>5, <2>2, Constants
  <2> QED  BY <2>1, <2>2
<1>7. ASSUME NEW i \in 1 .. K  PROVE next'[i] = Best(model, Context(fed, Start + i))
  <2>1. fed.len - K + i = Start + i
    BY <1>3, Constants
  <2> QED  BY <1>4, <2>1 DEF NextIds
<1>8. ASSUME NEW p \in Start + 1 .. Start + a
      PROVE  target'.row[p] \in Tokens /\ target'.row[p] = Best(model, Context(target', p - 1))
  <2> DEFINE i == p - Start
  <2>1. i \in 1 .. a /\ i \in 1 .. K /\ Start + i = p /\ p - 1 \in Nat
    BY Constants
  <2>2. fed.row[p] = draft[i] /\ draft[i] \in Tokens
    BY <1>2, <1>3, <2>1
  <2>3. Context(target', p - 1) = Context(fed, p - 1)
    BY <1>6, <2>1, SameContext
  <2>4. draft[i] = Best(model, Context(fed, p - 1))
    <3>1. CASE i = 1
      <4>1. p - 1 = Start
        BY <2>1, <3>1, Constants
      <4>2. Context(fed, Start) = Context(target, Start)
        BY <1>3, Constants, SameContext
      <4> QED  BY <1>2, <3>1, <4>1, <4>2 DEF NextToken, Prefilled
    <3>2. CASE i # 1
      <4>1. i \in 2 .. a /\ i - 1 \in 1 .. K /\ Start + (i - 1) = p - 1
        BY <2>1, <3>2, Constants
      <4>2. draft[i] = next'[i - 1]
        BY <1>5, <4>1 DEF Accepted
      <4> QED  BY <1>7, <4>1, <4>2
    <3> QED  BY <3>1, <3>2
  <2> QED  BY <1>6, <2>2, <2>3, <2>4
<1>9. Text(model, target')
  <2>1. target.len <= target'.len /\ target.len = Start
    BY <1>2, <1>6, Constants DEF Prefilled
  <2> QED  BY <1>1, <1>2, <1>3, <1>6, <1>8, <2>1, Grown DEF Typed, Prefilled
<1>10. next'[a] = Best(model, Context(target', Start + a))
  <2>1. Context(target', Start + a) = Context(fed, Start + a)
    BY <1>6, Constants, SameContext
  <2> QED  BY <1>7, <2>1
<1>11. \A t \in 1 .. a : draft[t] = target'.row[Start + t]
  <2>1. \A t \in 1 .. a : t \in 1 .. K
    BY Constants
  <2> QED  BY <1>3, <1>6, <2>1
<1> QED  BY <1>3, <1>5, <1>6, <1>9, <1>10, <1>11

LEMMA VerifyGInv == GInv /\ Verify => GInv'
<1> SUFFICES ASSUME GInv, Verify  PROVE GInv'
  OBVIOUS
<1>1. Typed /\ Texts /\ Stages
  BY DEF GInv
<1>2. /\ stage = "verify" /\ stage' = "commit"
      /\ UNCHANGED <<model, program, base, serial, said, draft>>
  BY DEF Verify, Go
<1>3. Prefilled(model, base) /\ program = "spec"
  BY <1>1, <1>2 DEF Stages
<1>4. Typed' /\ Texts'
  BY <1>1, <1>2, AcceptedIsText, Constants DEF Typed, Texts
<1>5. Prefilled(model, base)'
  BY <1>2, <1>3 DEF Prefilled
<1>6. Stages'
  BY <1>2, <1>3, <1>5, AcceptedIsText DEF Stages, NextToken
<1> QED  BY <1>4, <1>6 DEF GInv

\* The model's own token after the accepted ones.
LEMMA CommitIsText ==
  ASSUME GInv, Commit
  PROVE  /\ target' \in States /\ Text(model, target') /\ target'.len = target.len + 1
         /\ \A p \in 1 .. target.len : target'.row[p] = target.row[p]
<1>1. Typed /\ Stages /\ stage = "commit" /\ target' = Fed(target, <<Correction>>)
  BY DEF GInv, Commit
<1>2. /\ target \in States /\ Text(model, target) /\ accept \in 1 .. K
      /\ target.len = Start + accept /\ Correction = NextToken(target)
  BY <1>1 DEF Typed, Stages, Correction
<1>3. Correction \in Tokens
  <2>1. target.len \in 1 .. target.len
    BY <1>2, Constants
  <2> QED  BY <1>1, <1>2, <2>1, BestIsToken DEF Typed, Text, NextToken
<1>4. target.len + 1 <= Room
  BY <1>2, Constants DEF Room
<1>5. Text(model, target')
  BY <1>1, <1>2, <1>3, <1>4, FedBest DEF Typed, NextToken
<1> QED  BY <1>1, <1>2, <1>3, <1>4, <1>5, FedOne

LEMMA CommitGInv == GInv /\ Commit => GInv'
<1> SUFFICES ASSUME GInv, Commit  PROVE GInv'
  OBVIOUS
<1>1. Typed /\ Texts /\ Stages
  BY DEF GInv
<1>2. /\ stage = "commit" /\ stage' = "mask"
      /\ UNCHANGED <<model, program, base, serial, said, draft, accept>>
  BY DEF Commit, Go
<1>3. Prefilled(model, base) /\ program = "spec"
  BY <1>1, <1>2 DEF Stages
<1>4. Typed' /\ Texts'
  BY <1>1, <1>2, CommitIsText DEF Typed, Texts
<1>5. Prefilled(model, base)'
  BY <1>2, <1>3 DEF Prefilled
<1>6. Stages'
  BY <1>2, <1>3, <1>5 DEF Stages
<1> QED  BY <1>4, <1>6 DEF GInv

LEMMA EndGInv == GInv /\ (Conclude \/ Break) => GInv'
<1> SUFFICES ASSUME GInv, Conclude \/ Break  PROVE GInv'
  OBVIOUS
<1>1. /\ stage' = "exited"
      /\ UNCHANGED <<model, program, base, serial, target, said, draft, accept>>
  BY DEF Conclude, Break, Exit, block
<1> QED  BY <1>1 DEF GInv, Typed, Texts, Stages

LEMMA NextGInv == GInv /\ [Next]_vars => GInv'
<1> SUFFICES ASSUME GInv, [Next]_vars  PROVE GInv'
  OBVIOUS
<1>1. CASE UNCHANGED vars
  BY <1>1 DEF vars, GInv, Typed, Texts, Stages, Serial, Prefilled, NextToken
<1>2. CASE Next
  BY <1>2, PrefillGInv, PickGInv, FeedGInv, VerifyBlockGInv, NextMaskGInv, DraftGInv,
     VerifyGInv, CommitGInv, EndGInv DEF Next
<1> QED  BY <1>1, <1>2

-----------------------------------------------------------------------------
(* The refinement. *)

\* What Greedy asks of a step from the text of s to the text of t.
LEMMA Growth ==
  ASSUME NEW m \in Models, NEW s \in States, NEW t \in States, Text(m, t), s.len <= t.len,
         \A p \in 1 .. s.len : t.row[p] = s.row[p],
         NEW earlier, earlier = Context(s, s.len), NEW later, later = Context(t, t.len)
  PROVE  /\ Len(earlier) <= Len(later) /\ \A p \in 1 .. Len(earlier) : later[p] = earlier[p]
         /\ Len(Prompt) <= Len(later) /\ \A p \in 1 .. Len(Prompt) : later[p] = Prompt[p]
         /\ \A p \in Len(Prompt) + 1 .. Len(later) :
               later[p] = Best(m, [q \in 1 .. p - 1 |-> later[q]])
<1>1. s.len \in Nat /\ t.len \in Nat /\ t.len >= Start
  BY DEF States, Text
<1>2. /\ Len(earlier) = s.len /\ Len(later) = t.len
      /\ \A p \in 1 .. s.len : earlier[p] = s.row[p]
      /\ \A p \in 1 .. t.len : later[p] = t.row[p]
  <2>1. s.len \in 0 .. s.len /\ t.len \in 0 .. t.len
    BY <1>1
  <2> QED  BY <2>1, ContextIsRows
<1>3. ASSUME NEW p \in Start + 1 .. t.len
      PROVE  later[p] = Best(m, [q \in 1 .. p - 1 |-> later[q]])
  <2>1. p \in 1 .. t.len /\ \A q \in 1 .. p - 1 : later[q] = t.row[q]
    BY <1>1, <1>2, <1>3, Constants
  <2>2. [q \in 1 .. p - 1 |-> later[q]] = Context(t, p - 1)
    BY <2>1 DEF Context
  <2> QED  BY <1>2, <1>3, <2>1, <2>2 DEF Text
<1>4. \A p \in 1 .. s.len : later[p] = earlier[p]
  BY <1>1, <1>2
<1>5. \A p \in 1 .. Start : later[p] = Prompt[p]
  BY <1>1, <1>2, Constants DEF Text
<1> QED  BY <1>1, <1>2, <1>3, <1>4, <1>5 DEF Start

LEMMA EmptyText ==
  ASSUME NEW s \in States, s.len = 0  PROVE Context(s, s.len) = << >>
<1>1. Context(s, 0) \in Seq(Row) /\ Len(Context(s, 0)) = 0
  BY ContextIsRows
<1> QED  BY <1>1

LEMMA PromptText ==
  ASSUME NEW s \in States, NEW m, Prefilled(m, s)  PROVE Context(s, s.len) = Prompt
<1>1. /\ s.len = Start /\ Context(s, Start) \in Seq(Row) /\ Len(Context(s, Start)) = Start
      /\ \A p \in 1 .. Start : Context(s, Start)[p] = Prompt[p]
  BY ContextIsRows, Constants DEF Prefilled, Text
<1>2. Prompt \in Seq(Tokens) /\ Len(Prompt) = Start
  BY DecodeAssumption DEF Start
<1> QED  BY <1>1, <1>2

\* The states of the baseline, or of the generator, only grow.
LEMMA BaselineStep ==
  ASSUME GInv, GInv', Next
  PROVE  [Baseline!Next]_<<model, Context(serial, serial.len)>>
<1>1. Typed /\ Typed' /\ Texts /\ Texts' /\ Stages
  BY DEF GInv
<1>2. model' = model
  BY DEF Next, Prefill, Pick, Feed, VerifyBlock, NextMask, Draft, Verify, Commit, Conclude,
         Break, Go, Exit
<1>3. CASE serial' = serial
  BY <1>2, <1>3
<1>4. CASE Prefill \/ Feed
  <2>1. /\ serial'.len # 0 /\ serial.len <= serial'.len
        /\ \A p \in 1 .. serial.len : serial'.row[p] = serial.row[p]
    <3>1. CASE Prefill
      <4>1. stage = "prefill" /\ stage' = "pick"
        BY <3>1 DEF Prefill, Go
      <4>2. serial.len = 0 /\ Text(model, serial)'
        BY <1>1, <4>1 DEF GInv, Stages, Serial
      <4> QED  BY <4>2, Constants, <1>1 DEF Text, Typed, States
    <3>2. CASE Feed
      <4>1. stage = "feed" /\ serial' = Fed(serial, <<said[Len(said)]>>)
            /\ Takes(serial.len, Start + Len(said) - 1, 1)
        BY <3>2 DEF Feed
      <4>2. said[Len(said)] \in Tokens /\ serial \in States /\ serial.len \in Nat
            /\ Len(said) \in Nat
        BY <1>1, <4>1 DEF Typed, Stages, States
      <4>3. serial.len + 1 <= Room
        BY <4>1, <4>2, Constants DEF Takes, Capacity, Room
      <4> QED  BY <4>1, <4>2, <4>3, FedOne
    <3> QED  BY <1>4, <3>1, <3>2
  <2>2. Text(model, serial')
    BY <1>1, <1>2, <2>1 DEF Texts, Text
  <2>3. Baseline!Grow
    <3> DEFINE earlier == Context(serial, serial.len)
               later   == Context(serial', serial'.len)
    <3>1. model \in Models /\ serial \in States /\ serial' \in States
      BY <1>1 DEF Typed
    <3>2. /\ Len(earlier) <= Len(later) /\ \A p \in 1 .. Len(earlier) : later[p] = earlier[p]
          /\ Len(Prompt) <= Len(later) /\ \A p \in 1 .. Len(Prompt) : later[p] = Prompt[p]
          /\ \A p \in Len(Prompt) + 1 .. Len(later) :
                later[p] = Best(model, [q \in 1 .. p - 1 |-> later[q]])
      BY <2>1, <2>2, <3>1, Growth
    <3> QED  BY <3>2 DEF Baseline!Grow, Baseline!Extends, Baseline!GreedyFrom
  <2> QED  BY <1>2, <2>3 DEF Baseline!Next
<1> QED
  BY <1>3, <1>4 DEF Next, Pick, VerifyBlock, NextMask, Draft, Verify, Commit, Conclude, Break

\* The states of the block grow, or are the prefilled ones again.
LEMMA VerifiedStep ==
  ASSUME GInv, GInv', Next
  PROVE  [Verified!Next]_<<model, Context(target, target.len)>>
<1>1. Typed /\ Typed' /\ Texts /\ Texts' /\ Stages /\ Stages'
  BY DEF GInv
<1>2. model' = model
  BY DEF Next, Prefill, Pick, Feed, VerifyBlock, NextMask, Draft, Verify, Commit, Conclude,
         Break, Go, Exit
<1>3. CASE target' = target
  BY <1>2, <1>3
<1>4. CASE NextMask
  <2>1. stage' = "draft"
    BY <1>4 DEF NextMask, Go
  <2>2. Prefilled(model, target)'
    BY <1>1, <2>1 DEF Stages
  <2>3. Context(target', target'.len) = Prompt
    BY <1>1, <2>2, PromptText DEF Typed
  <2> QED  BY <1>2, <2>3 DEF Verified!Next, Verified!Again
<1>5. CASE VerifyBlock \/ Verify \/ Commit
  <2>1. /\ target.len <= target'.len /\ target'.len # 0
        /\ \A p \in 1 .. target.len : target'.row[p] = target.row[p]
    <3>1. CASE VerifyBlock
      <4>1. target.len = 0
        BY <1>1, <3>1 DEF VerifyBlock, Stages
      <4>2. Clone(base) \in States /\ said \in Seq(Tokens) /\ target' = Fed(Clone(base), said)
            /\ Len(said) = K /\ Clone(base).len = Start
        BY <1>1, <3>1, CloneState DEF VerifyBlock, Stages, Prefilled, Typed
      <4>3. target'.len = Start + K
        BY <4>2, Constants DEF Fed
      <4> QED  BY <4>1, <4>3, Constants
    <3>2. CASE Verify
      <4>1. target.len = Start
        BY <1>1, <3>2 DEF Verify, Stages, Prefilled
      <4> QED  BY <3>2, <4>1, AcceptedIsText, Constants
    <3>3. CASE Commit
      <4>1. target.len \in Nat
        BY <1>1 DEF Typed, States
      <4> QED  BY <3>3, <4>1, CommitIsText
    <3> QED  BY <1>5, <3>1, <3>2, <3>3
  <2>2. Text(model, target')
    BY <1>1, <1>2, <2>1 DEF Texts, Text
  <2>3. Verified!Grow
    <3> DEFINE earlier == Context(target, target.len)
               later   == Context(target', target'.len)
    <3>1. model \in Models /\ target \in States /\ target' \in States
      BY <1>1 DEF Typed
    <3>2. /\ Len(earlier) <= Len(later) /\ \A p \in 1 .. Len(earlier) : later[p] = earlier[p]
          /\ Len(Prompt) <= Len(later) /\ \A p \in 1 .. Len(Prompt) : later[p] = Prompt[p]
          /\ \A p \in Len(Prompt) + 1 .. Len(later) :
                later[p] = Best(model, [q \in 1 .. p - 1 |-> later[q]])
      BY <2>1, <2>2, <3>1, Growth
    <3> QED  BY <3>2 DEF Verified!Grow, Verified!Extends, Verified!GreedyFrom
  <2> QED  BY <1>2, <2>3 DEF Verified!Next
<1> QED
  BY <1>3, <1>4, <1>5 DEF Next, Prefill, Pick, Feed, Draft, Conclude, Break, block

\* Every program that decodes ends with the text of greedy decoding: what the
\* lab's drafts propose, and where a program breaks off, make no difference to
\* what its states hold (the loops of generate.c, exact_block_verify.c and
\* self_spec_sweep.c).
THEOREM DecodingIsGreedy == Spec => ImplementsGreedy
<1>1. Init => Baseline!Init /\ Verified!Init
  BY FreshState, EmptyText DEF Init, Baseline!Init, Verified!Init
<1>2. Spec => []GInv
  BY InitGInv, NextGInv, PTL DEF Spec
<1>3. GInv /\ GInv' /\ [Next]_vars
        => /\ [Baseline!Next]_<<model, Context(serial, serial.len)>>
           /\ [Verified!Next]_<<model, Context(target, target.len)>>
  <2> SUFFICES ASSUME GInv, GInv', [Next]_vars
               PROVE  /\ [Baseline!Next]_<<model, Context(serial, serial.len)>>
                      /\ [Verified!Next]_<<model, Context(target, target.len)>>
    OBVIOUS
  <2>1. CASE UNCHANGED vars
    BY <2>1 DEF vars
  <2> QED  BY <2>1, BaselineStep, VerifiedStep
<1> QED
  BY <1>1, <1>2, <1>3, PTL DEF Spec, ImplementsGreedy, Baseline!Spec, Verified!Spec

-----------------------------------------------------------------------------
(* No program fails but by a read. *)

\* Tokens the programs' baselines say.
Limit == IF program = "spec" THEN K + 1 ELSE K

Verdict ==
    /\ exit \in {"no", "done", "broken"}
    /\ stage \in {"prefill", "pick", "feed", "mask", "draft", "verify", "commit", "exited"}
    /\ stage # "exited" => differs = FALSE

Counted ==
    /\ stage \in {"prefill", "pick"} => Len(said) < Limit
    /\ stage = "feed" => Len(said) <= Limit /\ (program = "text" => Len(said) < K)
    /\ stage = "mask" => program # "text"
    /\ stage \in {"mask", "draft", "verify", "commit"} /\ program = "spec" => Serial(K + 1)
    /\ stage = "draft" => drafted = Start + Len(draft) - 1
    /\ stage = "commit" => \A t \in 1 .. accept : draft[t] = target.row[Start + t]

FInv == GInv /\ Verdict /\ Counted

\* There is only one text of a model: of the rows that differ one would be first.
LEMMA OneText ==
  ASSUME NEW m \in Models, NEW s \in States, NEW t \in States, Text(m, s), Text(m, t),
         NEW n \in Nat, n <= s.len, n <= t.len
  PROVE  \A p \in 1 .. n : s.row[p] = t.row[p]
<1> DEFINE D == {p \in 1 .. n : s.row[p] # t.row[p]}
<1>1. SUFFICES ASSUME D # {}  PROVE FALSE
  OBVIOUS
<1>2. PICK p \in D : \A q \in D : p <= q
  <2>1. D \in SUBSET Nat
    OBVIOUS
  <2> HIDE DEF D
  <2> QED  BY <1>1, <2>1, LeastNatural
<1>3. p \in 1 .. n /\ s.row[p] # t.row[p] /\ s.len \in Nat /\ t.len \in Nat
  BY DEF States
<1>4. \A q \in 1 .. p - 1 : s.row[q] = t.row[q]
  <2> TAKE q \in 1 .. p - 1
  <2>1. q \in 1 .. n /\ ~(p <= q)
    BY <1>3
  <2> QED  BY <1>2, <2>1
<1>5. p > Start
  <2>1. p \notin 1 .. Start
    BY <1>3 DEF Text
  <2> QED  BY <1>3, <2>1, Constants
<1>6. Context(s, p - 1) = Context(t, p - 1)
  <2>1. p - 1 \in Nat
    BY <1>3
  <2> QED  BY <1>4, <2>1, SameContext
<1>7. p \in Start + 1 .. s.len /\ p \in Start + 1 .. t.len
  BY <1>3, <1>5, Constants
<1> QED  BY <1>3, <1>6, <1>7 DEF Text

LEMMA NeverRefused == FInv /\ stage # "exited" => ~Refused
<1> SUFFICES ASSUME FInv, stage # "exited"  PROVE ~Refused
  OBVIOUS
<1>1. Typed /\ Stages /\ Counted /\ Verdict
  BY DEF FInv, GInv
<1>2. Capacity(program) \in Nat /\ Capacity(program) >= Start + K
      /\ (program = "spec" => Capacity(program) = Start + K + 1)
      /\ (program # "text" => Capacity(program) = Start + K + 1)
  BY Constants DEF Capacity
<1>3. ~(stage = "prefill" /\ ~Takes(0, 0, Start))
  BY <1>2, Constants DEF Takes
<1>4. ~(stage = "feed" /\ ~Takes(serial.len, Start + Len(said) - 1, 1))
  <2> SUFFICES ASSUME stage = "feed"  PROVE Takes(serial.len, Start + Len(said) - 1, 1)
    OBVIOUS
  <2>1. Len(said) \in Nat /\ serial.len = Start + (Len(said) - 1)
    BY <1>1 DEF Stages, Serial, Typed
  <2>2. Len(said) <= K + 1 /\ (program # "spec" => Len(said) <= K)
        /\ (program = "text" => Len(said) < K)
    BY <1>1, <2>1, Constants DEF Counted, Limit
  <2> QED  BY <1>2, <2>1, <2>2, Constants DEF Takes, Capacity
<1>5. ~(stage = "mask" /\ program = "block" /\ ~Takes(base.len, Start, K))
  BY <1>1, <1>2, Constants DEF Stages, Prefilled, Takes
<1>6. ~(stage = "draft" /\ ~Takes(drafted, Start + Len(draft) - 1, 1))
  <2> SUFFICES ASSUME stage = "draft"  PROVE Takes(drafted, Start + Len(draft) - 1, 1)
    OBVIOUS
  <2>1. Len(draft) \in Nat /\ Len(draft) < K /\ drafted = Start + Len(draft) - 1
    BY <1>1 DEF Stages, Typed, Counted
  <2> QED  BY <1>2, <2>1, Constants DEF Takes
<1>7. ~(stage = "verify" /\ ~Takes(target.len, Start, K))
  BY <1>1, <1>2, Constants DEF Stages, Prefilled, Takes
<1>8. ~(stage = "commit" /\ ~( /\ Takes(target.len, Start + accept, 1)
                               /\ Start + accept + 1 <= serial.len ))
  <2> SUFFICES ASSUME stage = "commit"
               PROVE  /\ Takes(target.len, Start + accept, 1)
                      /\ Start + accept + 1 <= serial.len
    OBVIOUS
  <2>1. /\ accept \in 1 .. K /\ target.len = Start + accept /\ program = "spec"
        /\ serial.len = Start + (K + 1)
    BY <1>1 DEF Stages, Counted, Serial
  <2> QED  BY <1>2, <2>1, Constants DEF Takes
<1> QED  BY <1>3, <1>4, <1>5, <1>6, <1>7, <1>8 DEF Refused

LEMMA InitVerdict == Init => Verdict /\ Counted
  BY Constants DEF Init, Verdict, Counted, Limit

\* The block verifier finds no difference.
LEMMA BlockAgrees ==
  ASSUME FInv, VerifyBlock  PROVE differs' = FALSE
<1>1. Typed /\ Typed' /\ Stages /\ Texts'
  BY VerifyBlockGInv DEF FInv, GInv
<1>2. /\ stage = "mask" /\ program = "block" /\ next' = NextIds(target')
      /\ target' = Fed(Clone(base), said) /\ model' = model
      /\ differs' = \/ next' # Tail(said) \o <<best>>
                    \/ ~Same(serial, target')
                    \/ ~Same(Truncated(serial, Start + K - 1), Truncated(target', Start + K - 1))
  BY DEF VerifyBlock, Exit
<1>3. /\ Prefilled(model, base) /\ Text(model, serial) /\ serial.len = Start + K
      /\ Len(said) = K /\ best = NextToken(serial)
      /\ \A i \in 1 .. K : said[i] = serial.row[Start + i]
  BY <1>1, <1>2 DEF Stages, Serial
<1>4. target'.len = Start + K /\ Text(model, target')
  <2>1. Clone(base).len = Start
    BY <1>1, <1>3, CloneState DEF Typed, Prefilled
  <2>2. target'.len = Start + K
    BY <1>2, <1>3, <2>1 DEF Fed
  <2> QED  BY <1>1, <1>2, <2>2, Constants DEF Texts
<1>5. \A p \in 1 .. Start + K : target'.row[p] = serial.row[p]
  <2>1. Start + K \in Nat
    BY Constants
  <2>2. model \in Models /\ serial \in States /\ target' \in States
        /\ Start + K <= serial.len /\ Start + K <= target'.len
    BY <1>1, <1>3, <1>4, <2>1 DEF Typed
  <2> QED  BY <1>3, <1>4, <2>1, <2>2, OneText
<1>6. Same(serial, target')
  BY <1>3, <1>4, <1>5 DEF Same
<1>7. Same(Truncated(serial, Start + K - 1), Truncated(target', Start + K - 1))
  <2>1. Start + K - 1 \in 0 .. serial.len /\ Start + K - 1 \in 0 .. target'.len
    BY <1>3, <1>4, Constants
  <2>2. \A p \in 1 .. Start + K - 1 : p \in 1 .. Start + K
    BY Constants
  <2> QED  BY <1>1, <1>5, <2>1, <2>2, TruncatedState DEF Same, Typed
<1>8. next' = Tail(said) \o <<best>>
  <2> DEFINE said_ == Tail(said) \o <<best>>
  <2>1. /\ said \in Seq(Tokens) /\ best \in Tokens
    <3>1. serial.len \in 1 .. serial.len
      BY <1>3, Constants
    <3> QED  BY <1>1, <1>3, <3>1, BestIsToken DEF Typed, Text, NextToken
  <2>2. /\ Tail(said) \in Seq(Tokens) /\ Len(Tail(said)) = K - 1
        /\ \A i \in 1 .. K - 1 : Tail(said)[i] = said[i + 1]
    BY <1>3, <2>1, Constants
  <2>3. /\ said_ \in Seq(Tokens) /\ Len(said_) = K
        /\ \A i \in 1 .. K - 1 : said_[i] = Tail(said)[i]
        /\ said_[K] = best
    BY <2>1, <2>2, Constants
  <2>4. ASSUME NEW i \in 1 .. K  PROVE said_[i] = Best(model, Context(target', target'.len - K + i))
    <3>1. target'.len - K + i = Start + i /\ Start + i \in 1 .. Start + K
      BY <1>4, Constants
    <3>2. Context(target', Start + i) = Context(serial, Start + i)
      <4>1. Start + i \in Nat /\ \A p \in 1 .. Start + i : p \in 1 .. Start + K
        BY Constants
      <4> QED  BY <1>5, <4>1, SameContext
    <3>3. CASE i = K
      BY <1>3, <2>3, <3>1, <3>2, <3>3 DEF NextToken
    <3>4. CASE i # K
      <4>1. i \in 1 .. K - 1 /\ i + 1 \in 1 .. K
        BY <3>4, Constants
      <4> DEFINE p == Start + (i + 1)
      <4>2. said_[i] = serial.row[p]
        BY <1>3, <2>2, <2>3, <4>1
      <4>3. p \in Start + 1 .. serial.len /\ p - 1 = Start + i
        BY <1>3, <4>1, Constants
      <4> HIDE DEF p
      <4>4. serial.row[p] = Best(model, Context(serial, p - 1))
        BY <1>3, <4>3 DEF Text
      <4> QED  BY <3>1, <3>2, <4>2, <4>3, <4>4
    <3> QED  BY <3>3, <3>4
  <2> HIDE DEF said_
  <2>5. said_ = [i \in 1 .. K |-> said_[i]]
    BY <2>3
  <2>6. next' = [i \in 1 .. K |-> Best(model, Context(target', target'.len - K + i))]
    BY <1>2 DEF NextIds
  <2>7. next' = said_
    BY <2>4, <2>5, <2>6
  <2> QED  BY <2>7 DEF said_
<1> QED  BY <1>2, <1>6, <1>7, <1>8

\* Nor does the lab, whatever was drafted.
LEMMA DraftsAgree ==
  ASSUME FInv, Commit  PROVE differs' = FALSE
<1>1. Typed /\ Stages /\ Verdict /\ Counted
  BY DEF FInv, GInv
<1>2. /\ stage = "commit" /\ target' = Fed(target, <<Correction>>)
      /\ differs' = \/ differs
                    \/ \E t \in 1 .. accept : draft[t] # said[t]
                    \/ Correction # said[accept + 1]
                    \/ ~Same(target', Truncated(Clone(serial), Start + accept + 1))
  BY DEF Commit
<1>3. /\ accept \in 1 .. K /\ target.len = Start + accept /\ Text(model, target)
      /\ \A t \in 1 .. accept : draft[t] = target.row[Start + t]
      /\ Text(model, serial) /\ serial.len = Start + (K + 1)
      /\ \A i \in 1 .. K + 1 : said[i] = serial.row[Start + i]
      /\ differs = FALSE /\ Correction = NextToken(target)
  BY <1>1, <1>2 DEF Stages, Counted, Serial, Verdict, Correction
<1> DEFINE n == Start + accept + 1
<1>4. n \in Nat /\ n <= serial.len /\ n \in 0 .. serial.len /\ target.len + 1 = n
      /\ target.len \in Nat /\ target.len + 1 <= Room
  BY <1>3, Constants DEF Room
<1>5. target' \in States /\ Text(model, target') /\ target'.len = n
      /\ \A p \in 1 .. target.len : target'.row[p] = target.row[p]
  BY <1>4, CommitIsText DEF FInv
<1>6. \A p \in 1 .. n : target'.row[p] = serial.row[p]
  BY <1>1, <1>3, <1>4, <1>5, OneText DEF Typed
<1>7. ASSUME NEW t \in 1 .. accept  PROVE draft[t] = said[t]
  <2>1. Start + t \in 1 .. target.len /\ Start + t \in 1 .. n /\ t \in 1 .. K + 1
    BY <1>3, Constants
  <2> QED  BY <1>3, <1>5, <1>6, <2>1
<1>8. Correction = said[accept + 1]
  <2>1. Correction \in Tokens
    <3>1. target.len \in 1 .. target.len
      BY <1>3, Constants
    <3> QED  BY <1>1, <1>3, <3>1, BestIsToken DEF Typed, Text, NextToken
  <2>2. target'.row[n] = Correction
    BY <1>1, <1>2, <1>4, <2>1, FedOne DEF Typed
  <2>3. Start + (accept + 1) = n /\ n \in 1 .. n /\ accept + 1 \in 1 .. K + 1
    <3>1. accept \in 1 .. K
      BY <1>3
    <3> QED  BY <3>1, Constants
  <2> QED  BY <1>3, <1>6, <2>2, <2>3
<1>9. Same(target', Truncated(Clone(serial), n))
  <2>1. Clone(serial) \in States /\ Clone(serial).len = serial.len
        /\ \A p \in 1 .. serial.len : Clone(serial).row[p] = serial.row[p]
    BY <1>1, CloneState DEF Typed
  <2>2. Truncated(Clone(serial), n).len = n /\ Truncated(Clone(serial), n).row = Clone(serial).row
    BY <1>4, <2>1, TruncatedState
  <2>3. \A p \in 1 .. n : p \in 1 .. serial.len
    <3>1. serial.len \in Nat
      BY <1>3, Constants
    <3> HIDE DEF n
    <3> QED  BY <1>4, <3>1
  <2> QED  BY <1>5, <1>6, <2>1, <2>2, <2>3 DEF Same
<1> QED  BY <1>2, <1>3, <1>7, <1>8, <1>9

LEMMA NextFInv == FInv /\ [Next]_vars => FInv'
<1> SUFFICES ASSUME FInv, [Next]_vars  PROVE FInv'
  OBVIOUS
<1>1. GInv /\ Typed /\ Typed' /\ Stages /\ Stages' /\ Verdict /\ Counted /\ GInv'
  BY NextGInv DEF FInv, GInv
<1>2. CASE UNCHANGED vars
  BY <1>1, <1>2 DEF vars, FInv, Verdict, Counted, Limit, Serial, NextToken
<1>3. CASE Prefill
  <2>1. stage = "prefill" /\ stage' = "pick" /\ UNCHANGED <<program, exit, said, differs>>
    BY <1>3 DEF Prefill, Go, block
  <2> QED  BY <1>1, <2>1 DEF FInv, Verdict, Counted, Limit
<1>4. CASE Pick
  <2>1. /\ stage = "pick" /\ said' = Append(said, best) /\ UNCHANGED <<program, differs>>
        /\ \/ stage' = "exited" /\ exit' = "done"
           \/ stage' = "feed" /\ exit' = exit /\ ~(program = "text" /\ Len(said) + 1 = K)
    BY <1>4 DEF Pick, Go, Exit, block
  <2>2. Len(said') = Len(said) + 1 /\ Len(said) \in Nat
    BY <1>1, <2>1 DEF Typed
  <2>3. Verdict'
    BY <1>1, <2>1 DEF Verdict
  <2>4. CASE stage' = "feed"
    <3>1. Len(said') <= Limit' /\ (program' = "text" => Len(said') < K)
      BY <1>1, <2>1, <2>2, <2>4, Constants DEF Counted, Limit
    <3> QED  BY <1>1, <2>3, <2>4, <3>1 DEF FInv, Counted
  <2>5. CASE stage' = "exited"
    BY <1>1, <2>3, <2>5 DEF FInv, Counted
  <2> QED  BY <2>1, <2>4, <2>5
<1>5. CASE Feed
  <2>1. /\ stage = "feed" /\ UNCHANGED <<program, exit, said, differs>>
        /\ \/ stage' = "mask" /\ program # "text" /\ (program = "spec" => Len(said) = K + 1)
           \/ stage' = "pick" /\ ~(program = "block" /\ Len(said) = K)
                              /\ ~(program = "spec" /\ Len(said) = K + 1)
    BY <1>5 DEF Feed, Go, block
  <2>2. Len(said) \in Nat /\ program \in {"text", "block", "spec"}
    BY <1>1 DEF Typed
  <2>3. Verdict'
    BY <1>1, <2>1 DEF Verdict
  <2>4. CASE stage' = "mask"
    <3>1. Serial(Len(said))'
      <4>1. Serial(Len(said) - 1) /\ said[Len(said)] = best /\ Len(said) > 0
        BY <1>1, <2>1 DEF Stages
      <4> QED  BY <1>1, <1>5, <2>4, FeedSerial
    <3>2. program' = "spec" => Serial(K + 1)'
      BY <2>1, <2>4, <3>1
    <3> QED  BY <1>1, <2>1, <2>3, <2>4, <3>2 DEF FInv, Counted
  <2>5. CASE stage' = "pick"
    <3>1. Len(said') < Limit'
      BY <1>1, <2>1, <2>2, <2>5, Constants DEF Counted, Limit
    <3> QED  BY <1>1, <2>3, <2>5, <3>1 DEF FInv, Counted
  <2> QED  BY <2>1, <2>4, <2>5
<1>6. CASE VerifyBlock
  <2>1. stage' = "exited" /\ exit' = "done"
    BY <1>6, BlockAgrees DEF VerifyBlock, Exit
  <2> QED  BY <1>1, <2>1 DEF FInv, Verdict, Counted
<1>7. CASE NextMask
  <2>1. /\ stage = "mask" /\ program = "spec" /\ stage' = "draft" /\ drafted' = base.len
        /\ draft' = <<NextToken(base)>>
        /\ UNCHANGED <<program, model, exit, serial, best, said, differs>>
    BY <1>7 DEF NextMask, Go
  <2>2. base.len = Start
    BY <1>1, <2>1 DEF Stages, Prefilled
  <2>3. drafted' = Start + Len(draft') - 1
    BY <2>1, <2>2, Constants
  <2>4. Serial(K + 1)'
    BY <1>1, <2>1 DEF Counted, Serial, NextToken
  <2>5. Verdict' /\ Counted'
    BY <1>1, <2>1, <2>3, <2>4 DEF Verdict, Counted
  <2> QED  BY <1>1, <2>5 DEF FInv
<1>8. CASE Draft
  <2>1. /\ stage = "draft" /\ stage' \in {"verify", "draft"} /\ drafted' = drafted + 1
        /\ UNCHANGED <<program, model, exit, serial, best, said, differs>>
    BY <1>8 DEF Draft, Go
  <2>2. PICK token \in Tokens : draft' = Append(draft, token)
    BY <1>8 DEF Draft
  <2>3. drafted' = Start + Len(draft') - 1
    BY <1>1, <2>1, <2>2, Constants DEF Counted, Typed
  <2>4. Serial(K + 1)'
    BY <1>1, <2>1 DEF Counted, Stages, Serial, NextToken
  <2>5. Verdict' /\ Counted'
    BY <1>1, <2>1, <2>3, <2>4 DEF Verdict, Counted
  <2> QED  BY <1>1, <2>5 DEF FInv
<1>9. CASE Verify
  <2>1. /\ stage = "verify" /\ stage' = "commit"
        /\ UNCHANGED <<program, model, exit, serial, best, said, draft, differs>>
    BY <1>9 DEF Verify, Go
  <2>2. Serial(K + 1)'
    BY <1>1, <2>1 DEF Counted, Stages, Serial, NextToken
  <2>3. \A t \in 1 .. accept' : draft'[t] = target'.row[Start + t]
    BY <1>1, <1>9, <2>1, AcceptedIsText
  <2>4. Verdict' /\ Counted'
    BY <1>1, <2>1, <2>2, <2>3 DEF Verdict, Counted
  <2> QED  BY <1>1, <2>4 DEF FInv
<1>10. CASE Commit
  <2>1. /\ stage = "commit" /\ stage' = "mask"
        /\ UNCHANGED <<program, model, exit, serial, best, said>>
    BY <1>10 DEF Commit, Go
  <2>2. differs' = FALSE
    BY <1>10, DraftsAgree
  <2>3. Serial(K + 1)' /\ program = "spec"
    BY <1>1, <2>1 DEF Counted, Stages, Serial, NextToken
  <2>4. Verdict' /\ Counted'
    BY <1>1, <2>1, <2>2, <2>3 DEF Verdict, Counted
  <2> QED  BY <1>1, <2>4 DEF FInv
<1>11. CASE Conclude
  <2>1. stage' = "exited" /\ exit' = "done"
    BY <1>1, <1>11 DEF Conclude, Exit, Verdict
  <2> QED  BY <1>1, <2>1 DEF FInv, Verdict, Counted
<1>12. CASE Break
  <2>1. stage' = "exited" /\ exit' = "broken"
    BY <1>12, NeverRefused DEF Break, Exit
  <2> QED  BY <1>1, <2>1 DEF FInv, Verdict, Counted
<1> QED
  BY <1>2, <1>3, <1>4, <1>5, <1>6, <1>7, <1>8, <1>9, <1>10, <1>11, <1>12 DEF Next

\* No state refuses a token or a block for its position or room, and no lab
\* sees a difference from its baseline, whatever is drafted: the FAIL lines of
\* exact_block_verify.c and self_spec_sweep.c are out of reach.
THEOREM OnlyReadsFail == Spec => []FailsOnlyByRead
<1>1. Init => FInv
  BY InitGInv, InitVerdict DEF FInv
<1>2. FInv => FailsOnlyByRead
  BY DEF FInv, Verdict, FailsOnlyByRead
<1> QED  BY <1>1, <1>2, NextFInv, PTL DEF Spec

-----------------------------------------------------------------------------
(* The second part: the generator with dynamic skipping. *)

\* The instance's Cardinality is the library's.
LEMMA SameCardinality == \A S : Skip!Cardinality(S) = Cardinality(S)
  BY DEF Skip!Cardinality, Cardinality

-----------------------------------------------------------------------------
(* Dynamic skipping: the classifier. *)

TokenIds == {"system", "user", "assistant", "other", "middle", "end",
             "media_start", "media_content", "media_end", "pad"}
Owners   == {"control", "content", "media"}
Written  == [id : TokenIds, owner : Owners]
Wheres   == {"outside", "system", "header", "body", "media", "assistant"}

\* From a, the scan w reads s and ends in b, and gives every token the family it
\* was written as.
Scans(a, s, b, w) ==
    /\ w \in [0 .. Len(s) -> Wheres] /\ w[0] = a /\ w[Len(s)] = b
    /\ \A i \in 1 .. Len(s) : /\ w[i] = Skip!After(w[i - 1], s[i].id)
                              /\ s[i].owner = Skip!FamilyAt(w[i - 1], s[i].id)

Reads(a, s, b) == \E w : Scans(a, s, b, w)

\* Texts are read one after the other.
LEMMA ReadsAppend ==
  ASSUME NEW a, NEW b, NEW c, NEW s \in Seq(Written), NEW t \in Seq(Written),
         Reads(a, s, b), Reads(b, t, c)
  PROVE  Reads(a, s \o t, c)
<1>1. PICK v : Scans(a, s, b, v)
  BY DEF Reads
<1>2. PICK w : Scans(b, t, c, w)
  BY DEF Reads
<1> DEFINE m == Len(s)
           n == Len(t)
           st == s \o t
           u == [i \in 0 .. m + n |-> IF i <= m THEN v[i] ELSE w[i - m]]
<1>3. /\ m \in Nat /\ n \in Nat /\ Len(st) = m + n
      /\ \A i \in 1 .. m : st[i] = s[i]
      /\ \A i \in m + 1 .. m + n : st[i] = t[i - m]
  OBVIOUS
<1> HIDE DEF m, n, st
<1>4. /\ v \in [0 .. m -> Wheres] /\ v[0] = a /\ v[m] = b
      /\ \A i \in 1 .. m : /\ v[i] = Skip!After(v[i - 1], s[i].id)
                            /\ s[i].owner = Skip!FamilyAt(v[i - 1], s[i].id)
  BY <1>1 DEF Scans, m
<1>5. /\ w \in [0 .. n -> Wheres] /\ w[0] = b /\ w[n] = c
      /\ \A i \in 1 .. n : /\ w[i] = Skip!After(w[i - 1], t[i].id)
                            /\ t[i].owner = Skip!FamilyAt(w[i - 1], t[i].id)
  BY <1>2 DEF Scans, n
<1>6. u \in [0 .. m + n -> Wheres]
  <2>1. \A i \in 0 .. m + n : i <= m => i \in 0 .. m
    BY <1>3
  <2>2. \A i \in 0 .. m + n : ~(i <= m) => i - m \in 0 .. n
    BY <1>3
  <2>3. \A i \in 0 .. m + n : (IF i <= m THEN v[i] ELSE w[i - m]) \in Wheres
    BY <1>4, <1>5, <2>1, <2>2
  <2> QED BY <2>3
<1>7. u[0] = a /\ u[m + n] = c
  <2>1. 0 \in 0 .. m + n /\ m + n \in 0 .. m + n /\ 0 <= m
    BY <1>3
  <2>2. CASE n = 0
    BY <1>3, <1>4, <1>5, <2>1, <2>2
  <2>3. CASE n # 0
    <3>1. ~(m + n <= m) /\ (m + n) - m = n
      BY <1>3, <2>3
    <3> QED BY <1>4, <1>5, <2>1, <3>1
  <2> QED BY <2>2, <2>3
<1>8. ASSUME NEW i \in 1 .. m + n
      PROVE  u[i] = Skip!After(u[i - 1], st[i].id) /\ st[i].owner = Skip!FamilyAt(u[i - 1], st[i].id)
  <2>1. i \in 0 .. m + n /\ i - 1 \in 0 .. m + n
    BY <1>3
  <2>2. CASE i <= m
    <3>1. i \in 1 .. m /\ i - 1 <= m
      BY <1>3, <2>2
    <3>2. u[i] = v[i] /\ u[i - 1] = v[i - 1]
      BY <2>1, <2>2, <3>1
    <3> HIDE DEF u
    <3> QED BY <1>3, <1>4, <3>1, <3>2
  <2>3. CASE ~(i <= m)
    <3>1. i - m \in 1 .. n /\ i \in m + 1 .. m + n /\ (i - m) - 1 = (i - 1) - m
      BY <1>3, <2>3
    <3>2. u[i] = w[i - m]
      BY <2>1, <2>3
    <3>3. u[i - 1] = w[(i - m) - 1]
      <4>1. CASE i - 1 = m
        <5>1. u[i - 1] = v[m] /\ (i - m) - 1 = 0
          BY <1>3, <2>1, <4>1
        <5> QED BY <1>4, <1>5, <5>1
      <4>2. CASE i - 1 # m
        <5>1. ~(i - 1 <= m)
          BY <1>3, <2>3, <4>2
        <5>2. u[i - 1] = w[(i - 1) - m]
          BY <2>1, <5>1
        <5> HIDE DEF u
        <5> QED BY <3>1, <5>2
      <4> QED BY <4>1, <4>2
    <3> HIDE DEF u
    <3> QED BY <1>3, <1>5, <3>1, <3>2, <3>3
  <2> QED BY <2>2, <2>3
<1> HIDE DEF u
<1>9. Scans(a, st, c, u)
  BY <1>3, <1>6, <1>7, <1>8 DEF Scans
<1> QED BY <1>9 DEF Reads, st

\* A token.
LEMMA ReadsOne ==
  ASSUME NEW a \in Wheres, NEW t \in Written, t.owner = Skip!FamilyAt(a, t.id),
         Skip!After(a, t.id) \in Wheres
  PROVE  Reads(a, <<t>>, Skip!After(a, t.id))
<1> DEFINE b == Skip!After(a, t.id)
           w == [i \in 0 .. 1 |-> IF i = 0 THEN a ELSE b]
           s == <<t>>
<1>1. Len(s) = 1 /\ s[1] = t /\ \A i \in 1 .. 1 : i = 1
  OBVIOUS
<1>2. w \in [0 .. 1 -> Wheres] /\ w[0] = a /\ w[1] = b
  OBVIOUS
<1> HIDE DEF w, s
<1>3. Scans(a, s, b, w)
  BY <1>1, <1>2 DEF Scans
<1> QED BY <1>3 DEF Reads, s

-----------------------------------------------------------------------------
\* Concatenating a list of n texts: FlattenSeq chooses the partial results.
Partials(s, n, f) == f = [i \in 1 .. n |-> IF i = 1 THEN s[i] ELSE f[i - 1] \o s[i]]

\* They exist, whatever the texts are.
LEMMA PartialsExist ==
  ASSUME NEW s, NEW n \in Nat \ {0}
  PROVE  \E f : Partials(s, n, f)
<1> DEFINE bad == {m \in 1 .. n : ~ \E f : Partials(s, m, f)}
<1>1. ASSUME bad # {} PROVE FALSE
  <2>1. bad \in SUBSET Nat
    OBVIOUS
  <2>2. PICK m \in bad : \A p \in bad : m <= p
    <3> HIDE DEF bad
    <3> QED BY <1>1, <2>1, LeastNatural
  <2>3. m \in 1 .. n /\ ~ \E f : Partials(s, m, f)
    OBVIOUS
  <2>4. \A p \in 1 .. n : p \notin bad => \E f : Partials(s, p, f)
    OBVIOUS
  <2> HIDE DEF bad
  <2>5. CASE m = 1
    <3>1. Partials(s, 1, [i \in 1 .. 1 |-> s[1]])
      BY DEF Partials
    <3> QED BY <2>3, <2>5, <3>1
  <2>6. CASE m # 1
    <3>1. m - 1 \in 1 .. n /\ m - 1 \notin bad
      BY <2>2, <2>3, <2>6
    <3>2. PICK f : Partials(s, m - 1, f)
      BY <2>4, <3>1
    <3> DEFINE g == [i \in 1 .. m |-> IF i = m THEN f[m - 1] \o s[m] ELSE f[i]]
    <3>3. \A i \in 1 .. m - 1 : f[i] = IF i = 1 THEN s[i] ELSE f[i - 1] \o s[i]
      BY <3>2 DEF Partials
    <3>4. \A i \in 1 .. m : g[i] = IF i = 1 THEN s[i] ELSE g[i - 1] \o s[i]
      <4> TAKE i \in 1 .. m
      <4>1. CASE i = m
        <5>1. m \in 1 .. m /\ m - 1 \in 1 .. m /\ m - 1 # m
          BY <2>3, <2>6
        <5>2. g[m] = f[m - 1] \o s[m] /\ g[m - 1] = f[m - 1]
          BY <5>1
        <5> QED BY <4>1, <5>2, <2>6
      <4>2. CASE i # m
        BY <4>2, <2>3, <3>3
      <4> QED BY <4>1, <4>2
    <3>5. Partials(s, m, g)
      <4>1. g = [i \in 1 .. m |-> g[i]]
        OBVIOUS
      <4> HIDE DEF g
      <4> QED BY <3>4, <4>1 DEF Partials
    <3> QED BY <2>3, <3>5
  <2> QED BY <2>5, <2>6
<1> QED BY <1>1

\* Texts that are each read from A back to A are read so one after the other.
LEMMA FlattenReads ==
  ASSUME NEW A \in SUBSET Wheres, NEW n \in Nat, NEW s \in [1 .. n -> Seq(Written)],
         \A i \in 1 .. n : \A a \in A : \E b \in A : Reads(a, s[i], b)
  PROVE  /\ Skip!FlattenSeq(s) \in Seq(Written)
         /\ \A a \in A : \E b \in A : Reads(a, Skip!FlattenSeq(s), b)
<1> DEFINE Good(t) == t \in Seq(Written) /\ \A a \in A : \E b \in A : Reads(a, t, b)
<1>1. Len(s) = n
  OBVIOUS
<1>2. CASE n = 0
  <2>1. Skip!FlattenSeq(s) = <<>>
    BY <1>1, <1>2 DEF Skip!FlattenSeq
  <2>2. ASSUME NEW a \in A PROVE Reads(a, <<>>, a)
    <3>1. Scans(a, <<>>, a, [i \in 0 .. 0 |-> a])
      BY DEF Scans
    <3> QED BY <3>1 DEF Reads
  <2> QED BY <2>1, <2>2
<1>3. CASE n # 0
  <2> DEFINE f == CHOOSE f : Partials(s, n, f)
  <2>1. Partials(s, n, f)
    BY <1>3, PartialsExist
  <2>2. Skip!FlattenSeq(s) = f[n]
    <3>1. f = CHOOSE flatten : flatten =
                [i \in 1 .. n |-> IF i = 1 THEN s[i] ELSE flatten[i - 1] \o s[i]]
      BY DEF Partials
    <3> HIDE DEF f
    <3> QED BY <1>1, <1>3, <3>1 DEF Skip!FlattenSeq
  <2> HIDE DEF f
  <2>3. \A i \in 1 .. n : f[i] = IF i = 1 THEN s[i] ELSE f[i - 1] \o s[i]
    BY <2>1 DEF Partials
  <2>4. \A i \in 1 .. n : Good(s[i])
    OBVIOUS
  <2>5. ASSUME NEW t, NEW v, Good(t), Good(v) PROVE Good(t \o v)
    <3>1. t \o v \in Seq(Written)
      BY <2>5
    <3>2. ASSUME NEW a \in A PROVE \E c \in A : Reads(a, t \o v, c)
      <4>1. PICK b \in A : Reads(a, t, b)
        BY <2>5
      <4>2. PICK c \in A : Reads(b, v, c)
        BY <2>5
      <4> QED BY <2>5, <4>1, <4>2, ReadsAppend
    <3> QED BY <3>1, <3>2
  <2> HIDE DEF Good
  <2> DEFINE bad == {m \in 1 .. n : ~Good(f[m])}
  <2>6. ASSUME bad # {} PROVE FALSE
    <3>1. PICK m \in bad : \A p \in bad : m <= p
      <4>1. bad \in SUBSET Nat
        OBVIOUS
      <4> HIDE DEF bad
      <4> QED BY <2>6, <4>1, LeastNatural
    <3>2. m \in 1 .. n /\ ~Good(f[m])
      OBVIOUS
    <3>3. m # 1
      BY <2>3, <2>4, <3>2
    <3>4. Good(f[m - 1])
      BY <3>1, <3>2, <3>3
    <3>5. f[m] = f[m - 1] \o s[m]
      BY <2>3, <3>2, <3>3
    <3> QED BY <2>4, <2>5, <3>2, <3>4, <3>5
  <2>7. n \in 1 .. n
    BY <1>3
  <2>8. Good(f[n])
    BY <2>6, <2>7
  <2> QED BY <2>2, <2>8 DEF Good
<1> QED BY <1>2, <1>3

-----------------------------------------------------------------------------
(* The prompts. *)

\* A function on the first n numbers is a sequence of length n.
LEMMA FunctionIsText ==
  ASSUME NEW T, NEW n \in Nat, NEW s \in [1 .. n -> T]
  PROVE  s \in Seq(T) /\ Len(s) = n
  OBVIOUS

\* Three control tokens, as in a header.
LEMMA ReadsThree ==
  ASSUME NEW a \in Wheres, NEW b \in Wheres, NEW c \in Wheres, NEW d \in Wheres,
         NEW x, NEW y, NEW z, NEW s,
         s = Skip!Control(<<x, y, z>>),
         x \in TokenIds, y \in TokenIds, z \in TokenIds,
         b = Skip!After(a, x), c = Skip!After(b, y), d = Skip!After(c, z),
         Skip!FamilyAt(a, x) = "control", Skip!FamilyAt(b, y) = "control", Skip!FamilyAt(c, z) = "control"
  PROVE  s \in Seq(Written) /\ Reads(a, s, d)
<1> DEFINE w == [i \in 0 .. 3 |-> IF i = 0 THEN a ELSE IF i = 1 THEN b ELSE IF i = 2 THEN c ELSE d]
           n == <<x, y, z>>
<1>1. Len(n) = 3 /\ n[1] = x /\ n[2] = y /\ n[3] = z
  OBVIOUS
<1>2. s = [i \in 1 .. 3 |-> Skip!Token(n[i], "control")]
  BY <1>1 DEF Skip!Control
<1> HIDE DEF n
<1>3. \A i \in 1 .. 3 : i = 1 \/ i = 2 \/ i = 3
  OBVIOUS
<1>4. /\ s[1] = Skip!Token(x, "control") /\ s[2] = Skip!Token(y, "control") /\ s[3] = Skip!Token(z, "control")
      /\ \A i \in 1 .. 3 : s[i] \in Written
  BY <1>1, <1>2, <1>3 DEF Skip!Token, Written, Owners
<1>5. s \in Seq(Written) /\ Len(s) = 3
  <2>1. s \in [1 .. 3 -> Written]
    BY <1>2, <1>4
  <2> QED BY <2>1, FunctionIsText
<1>6. w \in [0 .. 3 -> Wheres] /\ w[0] = a /\ w[1] = b /\ w[2] = c /\ w[3] = d
  OBVIOUS
<1> HIDE DEF w
<1>7. \A i \in 1 .. 3 : w[i] = Skip!After(w[i - 1], s[i].id) /\ s[i].owner = Skip!FamilyAt(w[i - 1], s[i].id)
  <2>1. w[1] = Skip!After(w[0], s[1].id) /\ s[1].owner = Skip!FamilyAt(w[0], s[1].id)
    BY <1>4, <1>6 DEF Skip!Token
  <2>2. w[2] = Skip!After(w[1], s[2].id) /\ s[2].owner = Skip!FamilyAt(w[1], s[2].id)
    BY <1>4, <1>6 DEF Skip!Token
  <2>3. w[3] = Skip!After(w[2], s[3].id) /\ s[3].owner = Skip!FamilyAt(w[2], s[3].id)
    BY <1>4, <1>6 DEF Skip!Token
  <2>4. 1 - 1 = 0 /\ 2 - 1 = 1 /\ 3 - 1 = 2
    OBVIOUS
  <2> QED BY <1>3, <2>1, <2>2, <2>3, <2>4
<1>8. Scans(a, s, d, w)
  BY <1>5, <1>6, <1>7 DEF Scans
<1> QED BY <1>5, <1>8 DEF Reads

\* One control token.
LEMMA ReadsControl ==
  ASSUME NEW a \in Wheres, NEW x \in TokenIds, Skip!After(a, x) \in Wheres, Skip!FamilyAt(a, x) = "control"
  PROVE  Skip!Control(<<x>>) \in Seq(Written) /\ Reads(a, Skip!Control(<<x>>), Skip!After(a, x))
<1> DEFINE t == Skip!Token(x, "control")
           n == <<x>>
<1>1. Len(n) = 1 /\ n[1] = x
  OBVIOUS
<1>2. Skip!Control(n) = [i \in 1 .. 1 |-> Skip!Token(n[i], "control")]
  BY <1>1 DEF Skip!Control
<1>3. Skip!Control(n) = <<t>>
  <2>1. \A i \in 1 .. 1 : i = 1
    OBVIOUS
  <2>2. [i \in 1 .. 1 |-> Skip!Token(n[i], "control")] = [i \in 1 .. 1 |-> t]
    BY <1>1, <2>1
  <2> HIDE DEF t, n
  <2> QED BY <1>2, <2>2
<1>4. t \in Written /\ t.id = x /\ t.owner = "control"
  BY DEF Skip!Token, Written, Owners
<1> HIDE DEF t
<1>5. <<t>> \in Seq(Written)
  BY <1>4
<1>6. Reads(a, <<t>>, Skip!After(a, t.id))
  BY <1>4, ReadsOne
<1> QED BY <1>3, <1>4, <1>5, <1>6 DEF n

\* An image, inside the body of a user's turn: only the pads are media.
LEMMA ReadsImage == Skip!Image \in Seq(Written) /\ Reads("body", Skip!Image, "body")
<1> DEFINE open == Skip!Control(<<"media_start", "other", "media_content">>)
           pad == Skip!Token("pad", "media")
           close == Skip!Control(<<"media_end">>)
<1>1. open \in Seq(Written) /\ Reads("body", open, "media")
  <2>1. /\ Skip!After("body", "media_start") = "media" /\ Skip!FamilyAt("body", "media_start") = "control"
        /\ Skip!After("media", "other") = "media" /\ Skip!FamilyAt("media", "other") = "control"
        /\ Skip!After("media", "media_content") = "media"
        /\ Skip!FamilyAt("media", "media_content") = "control"
    BY DEF Skip!After, Skip!FamilyAt
  <2>2. /\ "body" \in Wheres /\ "media" \in Wheres
        /\ "media_start" \in TokenIds /\ "other" \in TokenIds /\ "media_content" \in TokenIds
    BY DEF Wheres, TokenIds
  <2> QED BY <2>1, <2>2, ReadsThree
<1>2. <<pad>> \in Seq(Written) /\ Reads("media", <<pad>>, "media")
  <2>1. Skip!After("media", "pad") = "media" /\ Skip!FamilyAt("media", "pad") = "media" /\ "media" \in Wheres
    BY DEF Skip!After, Skip!FamilyAt, Wheres
  <2>2. pad \in Written /\ pad.id = "pad" /\ pad.owner = "media"
    BY DEF Skip!Token, Written, TokenIds, Owners
  <2> HIDE DEF pad
  <2>3. Reads("media", <<pad>>, Skip!After("media", pad.id))
    BY <2>1, <2>2, ReadsOne
  <2> QED BY <2>1, <2>2, <2>3
<1>3. close \in Seq(Written) /\ Reads("media", close, "body")
  <2>1. Skip!After("media", "media_end") = "body" /\ Skip!FamilyAt("media", "media_end") = "control"
    BY DEF Skip!After, Skip!FamilyAt
  <2>2. "media" \in Wheres /\ "body" \in Wheres /\ "media_end" \in TokenIds
    BY DEF Wheres, TokenIds
  <2> QED BY <2>1, <2>2, ReadsControl
<1>4. Skip!Image = open \o <<pad, pad>> \o close /\ <<pad, pad>> = <<pad>> \o <<pad>>
  BY DEF Skip!Image
<1> HIDE DEF open, pad, close
<1>5. <<pad>> \o <<pad>> \in Seq(Written) /\ Reads("media", <<pad>> \o <<pad>>, "media")
  <2> DEFINE p == <<pad>>
  <2>1. p \in Seq(Written) /\ Reads("media", p, "media")
    BY <1>2
  <2> HIDE DEF p
  <2>2. p \o p \in Seq(Written) /\ Reads("media", p \o p, "media")
    BY <2>1, ReadsAppend
  <2> QED BY <2>2 DEF p
<1> DEFINE pads == <<pad>> \o <<pad>>
<1> HIDE DEF pads
<1>6. pads \in Seq(Written) /\ Reads("media", pads, "media")
  BY <1>5 DEF pads
<1>7. open \o pads \in Seq(Written) /\ Reads("body", open \o pads, "media")
  BY <1>1, <1>6, ReadsAppend
<1> DEFINE opened == open \o pads
<1> HIDE DEF opened
<1>8. opened \in Seq(Written) /\ Reads("body", opened, "media")
  BY <1>7 DEF opened
<1>9. opened \o close \in Seq(Written) /\ Reads("body", opened \o close, "body")
  BY <1>3, <1>8, ReadsAppend
<1> QED BY <1>4, <1>9 DEF opened, pads

\* Where a turn may begin.
Between == {"outside", "assistant"}

Roles == {"system", "user", "assistant"}
Turns == [role : Roles, body : Seq({"text", "image"})]

\* Where the scan is in the body of a turn.
InBody(role) ==
    IF role = "system" THEN "system" ELSE IF role = "user" THEN "body" ELSE "assistant"

\* Where a turn begins, its header is control and leads into its body.
LEMMA ReadsHeader ==
  ASSUME NEW role \in Roles, NEW a \in Between
  PROVE  Skip!Header(role) \in Seq(Written) /\ Reads(a, Skip!Header(role), InBody(role))
<1>1. /\ role \in TokenIds /\ "other" \in TokenIds /\ "middle" \in TokenIds
      /\ a \in Wheres /\ InBody(role) \in Wheres /\ "header" \in Wheres
  BY DEF Roles, Between, TokenIds, Wheres, InBody
<1>2. Skip!FamilyAt(a, role) = "control"
  BY DEF Skip!FamilyAt, Roles, Between
<1>3. CASE role = "user"
  <2>1. Skip!After(a, role) = "header" /\ Skip!After("header", "other") = "header"
        /\ Skip!After("header", "middle") = "body"
    BY <1>3 DEF Skip!After, Between
  <2>2. Skip!FamilyAt("header", "other") = "control" /\ Skip!FamilyAt("header", "middle") = "control"
    BY DEF Skip!FamilyAt
  <2>3. InBody(role) = "body"
    BY <1>3 DEF InBody
  <2> QED BY <1>1, <1>2, <2>1, <2>2, <2>3, ReadsThree DEF Skip!Header
<1>4. CASE role # "user"
  <2> DEFINE b == InBody(role)
  <2>1. Skip!After(a, role) = b /\ Skip!After(b, "other") = b /\ Skip!After(b, "middle") = b
    BY <1>4 DEF Skip!After, Between, Roles, InBody
  <2>2. Skip!FamilyAt(b, "other") = "control" /\ Skip!FamilyAt(b, "middle") = "control"
    BY <1>4 DEF Skip!FamilyAt, Roles, InBody
  <2> HIDE DEF b
  <2>3. b \in Wheres /\ b = InBody(role)
    BY <1>1 DEF b
  <2> QED BY <1>1, <1>2, <2>1, <2>2, <2>3, ReadsThree DEF Skip!Header
<1> QED BY <1>3, <1>4

\* A body is read as its role's: the user's words are content, all else but pads is control.
LEMMA ReadsBody ==
  ASSUME NEW t \in Turns,
         \A j \in 1 .. Len(t.body) : t.body[j] = "image" => t.role = "user"
  PROVE  Skip!Body(t) \in Seq(Written) /\ Reads(InBody(t.role), Skip!Body(t), InBody(t.role))
<1> DEFINE n == Len(t.body)
           b == InBody(t.role)
           word == Skip!Token("other", IF t.role = "user" THEN "content" ELSE "control")
           s == [i \in 1 .. n |-> IF t.body[i] = "image" THEN Skip!Image ELSE <<word>>]
<1>1. t.role \in Roles /\ n \in Nat
  BY DEF Turns
<1>2. b \in Wheres
  BY <1>1 DEF InBody, Wheres, Roles
<1>3. <<word>> \in Seq(Written) /\ Reads(b, <<word>>, b)
  <2>1. word \in Written /\ word.id = "other"
        /\ word.owner = IF t.role = "user" THEN "content" ELSE "control"
    BY DEF Skip!Token, Written, TokenIds, Owners
  <2>2. Skip!After(b, "other") = b
    BY <1>1 DEF Skip!After, InBody, Roles
  <2>3. Skip!FamilyAt(b, "other") = IF t.role = "user" THEN "content" ELSE "control"
    BY <1>1 DEF Skip!FamilyAt, InBody, Roles
  <2> HIDE DEF word, b
  <2>4. <<word>> \in Seq(Written)
    BY <2>1
  <2>5. Reads(b, <<word>>, Skip!After(b, word.id))
    BY <1>2, <2>1, <2>2, <2>3, ReadsOne
  <2> QED BY <2>1, <2>2, <2>4, <2>5
<1>4. ASSUME NEW i \in 1 .. n
      PROVE  s[i] \in Seq(Written) /\ Reads(b, s[i], b)
  <2>1. CASE t.body[i] = "image"
    <3>1. b = "body"
      BY <2>1 DEF InBody
    <3> QED BY <2>1, <3>1, ReadsImage
  <2>2. CASE t.body[i] # "image"
    BY <1>3, <2>2
  <2> QED BY <2>1, <2>2
<1>5. Skip!Body(t) = Skip!FlattenSeq(s)
  BY DEF Skip!Body
<1>6. s = [i \in 1 .. n |-> s[i]]
  OBVIOUS
<1> HIDE DEF n, b, s
<1>7. s \in [1 .. n -> Seq(Written)]
  BY <1>4, <1>6
<1>8. \A i \in 1 .. n : \A a \in {b} : \E c \in {b} : Reads(a, s[i], c)
  BY <1>4
<1>9. {b} \in SUBSET Wheres
  BY <1>2
<1>10. Skip!FlattenSeq(s) \in Seq(Written) /\ \A a \in {b} : \E c \in {b} : Reads(a, Skip!FlattenSeq(s), c)
  BY <1>1, <1>7, <1>8, <1>9, FlattenReads
<1> QED BY <1>5, <1>10 DEF b

\* A turn leads from where a turn may begin to where one may begin.
LEMMA ReadsTurn ==
  ASSUME NEW t \in Turns, NEW a \in Between,
         \A j \in 1 .. Len(t.body) : t.body[j] = "image" => t.role = "user"
  PROVE  Skip!Turn(t) \in Seq(Written) /\ \E c \in Between : Reads(a, Skip!Turn(t), c)
<1> DEFINE b == InBody(t.role)
           c == Skip!After(b, "end")
           head == Skip!Header(t.role)
           body == Skip!Body(t)
           close == Skip!Control(<<"end">>)
<1>1. t.role \in Roles
  BY DEF Turns
<1>2. head \in Seq(Written) /\ Reads(a, head, b)
  BY <1>1, ReadsHeader
<1>3. body \in Seq(Written) /\ Reads(b, body, b)
  BY ReadsBody
<1>4. close \in Seq(Written) /\ Reads(b, close, c) /\ c \in Between
  <2>1. c \in Between /\ Skip!FamilyAt(b, "end") = "control" /\ b \in Wheres /\ "end" \in TokenIds
    BY <1>1 DEF Skip!After, Skip!FamilyAt, InBody, Roles, Between, Wheres, TokenIds
  <2>2. c \in Wheres
    BY <2>1 DEF Between, Wheres
  <2> HIDE DEF b
  <2> QED BY <2>1, <2>2, ReadsControl
<1>5. Skip!Turn(t) = (head \o body) \o close
  BY DEF Skip!Turn
<1> HIDE DEF b, c, head, body, close
<1>6. head \o body \in Seq(Written) /\ Reads(a, head \o body, b)
  BY <1>2, <1>3, ReadsAppend
<1> DEFINE most == head \o body
<1> HIDE DEF most
<1>7. most \in Seq(Written) /\ Reads(a, most, b)
  BY <1>6 DEF most
<1>8. most \o close \in Seq(Written) /\ Reads(a, most \o close, c)
  BY <1>4, <1>7, ReadsAppend
<1> QED BY <1>4, <1>5, <1>8 DEF most

\* The family of every token is what the template wrote it as.
LEMMA ReadsPrompt ==
  ASSUME Skip!Parameters, NEW d \in Dialogues
  PROVE  /\ Skip!PromptOf(d) \in Seq(Written) /\ Len(Skip!PromptOf(d)) > 0
         /\ \E b : Reads("outside", Skip!PromptOf(d), b)
<1> DEFINE n == Len(d)
           s == [i \in 1 .. n |-> Skip!Turn(d[i])]
           head == Skip!Header("assistant")
<1>1. d \in Seq(Turns) /\ n \in Nat
  BY DEF Skip!Parameters, Turns, Roles
<1>2. \A i \in 1 .. n : d[i] \in Turns
  BY <1>1
<1>3. \A i \in 1 .. n : \A j \in 1 .. Len(d[i].body) : d[i].body[j] = "image" => d[i].role = "user"
  BY DEF Skip!Parameters
<1>4. \A i \in 1 .. n : Skip!Turn(d[i]) \in Seq(Written)
                        /\ \A a \in Between : \E c \in Between : Reads(a, Skip!Turn(d[i]), c)
  <2>1. "outside" \in Between
    BY DEF Between
  <2> QED BY <1>2, <1>3, <2>1, ReadsTurn
<1>5. /\ s \in [1 .. n -> Seq(Written)]
      /\ \A i \in 1 .. n : \A a \in Between : \E c \in Between : Reads(a, s[i], c)
  BY <1>4
<1>6. Skip!PromptOf(d) = Skip!FlattenSeq(s) \o head
  BY DEF Skip!PromptOf
<1> HIDE DEF n, s
<1>7. Between \in SUBSET Wheres /\ "outside" \in Between
  BY DEF Between, Wheres
<1>8. /\ Skip!FlattenSeq(s) \in Seq(Written)
      /\ \A a \in Between : \E c \in Between : Reads(a, Skip!FlattenSeq(s), c)
  BY <1>1, <1>5, <1>7, FlattenReads
<1>9. PICK c \in Between : Reads("outside", Skip!FlattenSeq(s), c)
  BY <1>7, <1>8
<1>10. head \in Seq(Written) /\ Reads(c, head, InBody("assistant"))
  BY ReadsHeader DEF Roles
<1>11. Len(head) = 3
  <2>1. Len(<<"assistant", "other", "middle">>) = 3
    OBVIOUS
  <2> QED BY <2>1 DEF Skip!Header, Skip!Control
<1> DEFINE turns == Skip!FlattenSeq(s)
<1> HIDE DEF head, turns
<1>12. turns \in Seq(Written) /\ Reads("outside", turns, c)
  BY <1>8, <1>9 DEF turns
<1>13. /\ turns \o head \in Seq(Written) /\ Len(turns \o head) > 0
       /\ Reads("outside", turns \o head, InBody("assistant"))
  <2>1. Len(turns \o head) = Len(turns) + Len(head) /\ Len(turns) \in Nat
    BY <1>10, <1>12
  <2> QED BY <1>10, <1>11, <1>12, <2>1, ReadsAppend
<1> QED BY <1>6, <1>13 DEF turns

\* What the dispatcher computes of the ids is what a scan reads.
LEMMA FamiliesAreOwners ==
  ASSUME NEW s \in Seq(Written), NEW b, Reads("outside", s, b)
  PROVE  \A i \in 1 .. Len(s) : Skip!Families(s)[i] = s[i].owner
<1> DEFINE n == Len(s)
           f == CHOOSE where : where =
                    [i \in 0 .. n |-> IF i = 0 THEN "outside" ELSE Skip!After(where[i - 1], s[i].id)]
<1>1. PICK w : Scans("outside", s, b, w)
  BY DEF Reads
<1>2. n \in Nat
  OBVIOUS
<1>3. Skip!Families(s) = [i \in 1 .. n |-> Skip!FamilyAt(f[i - 1], s[i].id)]
  BY DEF Skip!Families
<1> HIDE DEF n, f
<1>4. /\ w = [i \in 0 .. n |-> w[i]] /\ w[0] = "outside"
      /\ \A i \in 1 .. n : w[i] = Skip!After(w[i - 1], s[i].id) /\ s[i].owner = Skip!FamilyAt(w[i - 1], s[i].id)
  BY <1>1 DEF Scans, n
<1>5. \A i \in 0 .. n : w[i] = IF i = 0 THEN "outside" ELSE Skip!After(w[i - 1], s[i].id)
  <2>1. \A i \in 0 .. n : i # 0 => i \in 1 .. n
    BY <1>2
  <2>2. ASSUME NEW i \in 0 .. n
        PROVE  w[i] = IF i = 0 THEN "outside" ELSE Skip!After(w[i - 1], s[i].id)
    <3>1. CASE i = 0
      BY <1>4, <3>1
    <3>2. CASE i # 0
      <4>1. w[i] = Skip!After(w[i - 1], s[i].id)
        BY <1>4, <2>1, <3>2
      <4> QED BY <3>2, <4>1
    <3> QED BY <3>1, <3>2
  <2> QED BY <2>2
<1>6. w = [i \in 0 .. n |-> IF i = 0 THEN "outside" ELSE Skip!After(w[i - 1], s[i].id)]
  BY <1>4, <1>5
<1>7. f = [i \in 0 .. n |-> IF i = 0 THEN "outside" ELSE Skip!After(f[i - 1], s[i].id)]
  BY <1>6 DEF f
<1>8. \A i \in 0 .. n : f[i] = w[i]
  <2> DEFINE bad == {i \in 0 .. n : f[i] # w[i]}
  <2> SUFFICES ASSUME bad # {} PROVE FALSE
    OBVIOUS
  <2>1. PICK m \in bad : \A p \in bad : m <= p
    <3>1. bad \in SUBSET Nat
      BY <1>2
    <3> HIDE DEF bad
    <3> QED BY <3>1, LeastNatural
  <2>2. m \in 0 .. n /\ f[m] # w[m]
    OBVIOUS
  <2>3. m # 0
    BY <1>4, <1>7, <2>2
  <2>4. m \in 1 .. n /\ m - 1 \in 0 .. n /\ m - 1 \notin bad
    BY <1>2, <2>1, <2>2, <2>3
  <2>5. f[m - 1] = w[m - 1]
    BY <2>4
  <2>6. f[m] = Skip!After(f[m - 1], s[m].id) /\ w[m] = Skip!After(w[m - 1], s[m].id)
    <3> HIDE DEF bad
    <3> QED BY <1>4, <1>7, <2>2, <2>3, <2>4
  <2> QED BY <2>2, <2>5, <2>6
<1>9. \A i \in 1 .. n : i - 1 \in 0 .. n
  BY <1>2
<1>10. \A i \in 1 .. n : Skip!Families(s)[i] = s[i].owner
  BY <1>3, <1>4, <1>8, <1>9
<1> QED BY <1>10 DEF n

-----------------------------------------------------------------------------
(* The policy. *)

\* The partial sums of the weights.
Sums(w, n, f) == f = [i \in 0 .. n |-> IF i = 0 THEN 0 ELSE f[i - 1] + w[i]]

\* They exist, whatever the weights are.
LEMMA SumsExist ==
  ASSUME NEW w, NEW n \in Nat
  PROVE  \E f : Sums(w, n, f)
<1> DEFINE bad == {m \in 0 .. n : ~ \E f : Sums(w, m, f)}
<1>1. ASSUME bad # {} PROVE FALSE
  <2>1. bad \in SUBSET Nat
    OBVIOUS
  <2>2. PICK m \in bad : \A p \in bad : m <= p
    <3> HIDE DEF bad
    <3> QED BY <1>1, <2>1, LeastNatural
  <2>3. m \in 0 .. n /\ ~ \E f : Sums(w, m, f)
    OBVIOUS
  <2>4. \A p \in 0 .. n : p \notin bad => \E f : Sums(w, p, f)
    OBVIOUS
  <2> HIDE DEF bad
  <2>5. CASE m = 0
    <3>1. Sums(w, 0, [i \in 0 .. 0 |-> 0])
      BY DEF Sums
    <3> QED BY <2>3, <2>5, <3>1
  <2>6. CASE m # 0
    <3>1. m - 1 \in 0 .. n /\ m - 1 \notin bad
      BY <2>2, <2>3, <2>6
    <3>2. PICK f : Sums(w, m - 1, f)
      BY <2>4, <3>1
    <3> DEFINE g == [i \in 0 .. m |-> IF i = m THEN f[m - 1] + w[m] ELSE f[i]]
    <3>3. \A i \in 0 .. m - 1 : f[i] = IF i = 0 THEN 0 ELSE f[i - 1] + w[i]
      BY <3>2 DEF Sums
    <3>4. \A i \in 0 .. m : g[i] = IF i = 0 THEN 0 ELSE g[i - 1] + w[i]
      <4> TAKE i \in 0 .. m
      <4>1. CASE i = m
        <5>1. m \in 0 .. m /\ m - 1 \in 0 .. m /\ m - 1 # m
          BY <2>3, <2>6
        <5>2. g[m] = f[m - 1] + w[m] /\ g[m - 1] = f[m - 1]
          BY <5>1
        <5> QED BY <4>1, <5>2, <2>6
      <4>2. CASE i # m
        BY <4>2, <2>3, <3>3
      <4> QED BY <4>1, <4>2
    <3>5. Sums(w, m, g)
      <4>1. g = [i \in 0 .. m |-> g[i]]
        OBVIOUS
      <4> HIDE DEF g
      <4> QED BY <3>4, <4>1 DEF Sums
    <3> QED BY <2>3, <3>5
  <2> QED BY <2>5, <2>6
<1> QED BY <1>1

\* The sum of the weights is not negative.
LEMMA SumType ==
  ASSUME Skip!Parameters, NEW w \in [1 .. TopK -> Weights]
  PROVE  Skip!Sum(w) \in Nat
<1> DEFINE f == CHOOSE f : Sums(w, TopK, f)
<1>1. TopK \in Nat /\ \A i \in 1 .. TopK : w[i] \in Nat
  BY DEF Skip!Parameters
<1>2. Sums(w, TopK, f)
  BY <1>1, SumsExist
<1>3. Skip!Sum(w) = f[TopK]
  <2>1. f = CHOOSE sum : sum = [i \in 0 .. TopK |-> IF i = 0 THEN 0 ELSE sum[i - 1] + w[i]]
    BY DEF Sums
  <2> HIDE DEF f
  <2> QED BY <2>1 DEF Skip!Sum
<1> HIDE DEF f
<1>4. \A i \in 0 .. TopK : f[i] = IF i = 0 THEN 0 ELSE f[i - 1] + w[i]
  BY <1>2 DEF Sums
<1> DEFINE bad == {m \in 0 .. TopK : f[m] \notin Nat}
<1>5. ASSUME bad # {} PROVE FALSE
  <2>1. PICK m \in bad : \A p \in bad : m <= p
    <3>1. bad \in SUBSET Nat
      BY <1>1
    <3> HIDE DEF bad
    <3> QED BY <1>5, <3>1, LeastNatural
  <2>2. m \in 0 .. TopK /\ f[m] \notin Nat
    OBVIOUS
  <2>3. m # 0
    BY <1>4, <2>2
  <2>4. m - 1 \in 0 .. TopK /\ m \in 1 .. TopK
    BY <1>1, <2>2, <2>3
  <2>5. f[m - 1] \in Nat
    BY <1>1, <2>1, <2>2, <2>4
  <2>6. f[m] = f[m - 1] + w[m]
    BY <1>4, <2>2, <2>3
  <2> QED BY <1>1, <2>2, <2>4, <2>5, <2>6
<1> QED BY <1>1, <1>3, <1>5

\* The last of some lines is one of them.
LEMMA MaxIsMember ==
  ASSUME NEW n \in Nat, NEW S \in SUBSET (1 .. n), S # {}
  PROVE  Skip!Max(S) \in S
<1> DEFINE D == {n - x : x \in S}
<1>1. D \in SUBSET Nat /\ D # {}
  <2>1. \A x \in S : x \in Nat /\ x <= n
    OBVIOUS
  <2>2. \A x \in S : n - x \in Nat
    BY <2>1
  <2> QED BY <2>2
<1>2. PICK m \in D : \A p \in D : m <= p
  <2> HIDE DEF D
  <2> QED BY <1>1, LeastNatural
<1>3. PICK x \in S : m = n - x
  BY <1>2
<1>4. ASSUME NEW y \in S PROVE x >= y
  <2>1. n - x <= n - y
    BY <1>2, <1>3
  <2> QED BY <2>1
<1> QED BY <1>4 DEF Skip!Max

PolicyLine == [family : STRING, layer : Int, threshold : Int, min_keep : Int]

\* A policy file is a sequence of lines.
LEMMA FileTyped ==
  ASSUME Skip!Parameters, file \in PolicyFiles \cup {<<>>}
  PROVE  file \in Seq(PolicyLine)
<1>1. PolicyFiles \subseteq Seq(PolicyLine)
  BY DEF Skip!Parameters, PolicyLine
<1>2. CASE file \in PolicyFiles
  BY <1>1, <1>2
<1>3. CASE file = <<>>
  BY <1>3
<1> QED BY <1>2, <1>3

\* An active line of a file that loads keeps at least one route; without a file none is active.
LEMMA PolicyTyped ==
  ASSUME Skip!Parameters, file \in Seq(PolicyLine), NEW family, NEW layer
  PROVE  /\ Skip!Policy(family, layer).threshold \in Int /\ Skip!Policy(family, layer).min_keep \in Int
         /\ Skip!Loads /\ Skip!Policy(family, layer).threshold # 0 => Skip!Policy(family, layer).min_keep >= 1
         /\ ~Skip!Enabled => Skip!Policy(family, layer).threshold = 0
<1> DEFINE lines == {i \in 1 .. Len(file) : file[i].family = family /\ file[i].layer = layer}
<1>2. Len(file) \in Nat /\ \A i \in 1 .. Len(file) : file[i] \in PolicyLine
  OBVIOUS
<1>3. CASE lines = {}
  <2>1. Skip!Policy(family, layer) = [threshold |-> 0, min_keep |-> 0]
    BY <1>3 DEF Skip!Policy
  <2> QED BY <2>1
<1>4. CASE lines # {}
  <2> DEFINE i == Skip!Max(lines)
  <2>1. lines \in SUBSET (1 .. Len(file))
    OBVIOUS
  <2>2. i \in lines
    <3> HIDE DEF lines
    <3> QED BY <1>2, <1>4, <2>1, MaxIsMember
  <2>3. Skip!Policy(family, layer) = [threshold |-> file[i].threshold, min_keep |-> file[i].min_keep]
    BY <1>4 DEF Skip!Policy
  <2>4. i \in 1 .. Len(file)
    BY <2>1, <2>2
  <2>5. file[i].threshold \in Int /\ file[i].min_keep \in Int
    BY <1>2, <2>4 DEF PolicyLine
  <2>6. Skip!Enabled
    <3>1. file # <<>>
      BY <2>4
    <3> QED BY <3>1 DEF Skip!Enabled
  <2>7. Skip!Loads => file[i].min_keep >= 1
    BY <2>4 DEF Skip!Loads, Skip!Valid
  <2> HIDE DEF i
  <2> QED BY <2>3, <2>5, <2>6, <2>7
<1> QED BY <1>3, <1>4

\* Of two weights the threshold is between, the one below it is the lesser.
LEMMA Lighter ==
  ASSUME NEW u \in Nat \ {0}, NEW x \in Nat, NEW y \in Nat, NEW z \in Int,
         y * u >= z, ~(x * u >= z)
  PROVE  x < y
<1>1. x * u < y * u
  OBVIOUS
<1>2. ASSUME y <= x PROVE FALSE
  <2>1. y * u <= x * u
    BY <1>2
  <2> QED BY <1>1, <2>1
<1> QED BY <1>2

\* Skipping drops the lightest of a token's routes, and never more than its line allows.
LEMMA KeptExact ==
  ASSUME Skip!Parameters, file \in Seq(PolicyLine), NEW family, NEW layer,
         NEW w \in [1 .. TopK -> Weights], Skip!Enabled => Skip!Loads
  PROVE  LET kept == Skip!Kept(family, layer, w)
             skipped == (1 .. TopK) \ kept
         IN  skipped # {} =>
                /\ Skip!Enabled /\ family # "control"
                /\ \A i \in skipped, j \in kept : w[i] <= w[j]
                /\ kept # {}
                /\ Cardinality(kept) >= Skip!Policy(family, layer).min_keep
<1> DEFINE routes == 1 .. TopK
           policy == Skip!Policy(family, layer)
           t == policy.threshold
           k == policy.min_keep
           z == t * Skip!Sum(w)
           heavy == {i \in routes : w[i] * Unit >= z}
           rest == routes \ heavy
           before(i, j) == w[i] > w[j] \/ (w[i] = w[j] /\ i < j)
           pre(i) == {j \in rest : before(j, i)}
           rank(i) == Cardinality(pre(i))
           light == {i \in rest : Cardinality(heavy) + rank(i) < k}
           kept == Skip!Kept(family, layer, w)
           skipped == routes \ kept
<1> SUFFICES ASSUME skipped # {}
             PROVE  /\ Skip!Enabled /\ family # "control"
                    /\ \A i \in skipped, j \in kept : w[i] <= w[j]
                    /\ kept # {} /\ Cardinality(kept) >= k
  OBVIOUS
<1>1. family # "control" /\ t # 0 /\ kept = heavy \cup light
  BY SameCardinality DEF Skip!Kept
<1>2. t \in Int /\ k \in Int /\ Skip!Enabled /\ k >= 1 /\ z \in Int
  BY <1>1, PolicyTyped, SumType
<1>3. TopK \in Nat /\ Unit \in Nat \ {0} /\ \A i \in routes : w[i] \in Nat /\ i \in Nat
  <2>1. TopK \in Nat /\ Unit \in Nat \ {0} /\ Weights \subseteq Nat
    BY DEF Skip!Parameters
  <2>2. \A i \in routes : w[i] \in Weights /\ i \in Nat
    OBVIOUS
  <2>3. TopK \in Nat
    BY <2>1
  <2> HIDE DEF routes
  <2> QED BY <2>1, <2>2, <2>3
<1>4. IsFiniteSet(routes)
  BY <1>3, FS_Interval
<1>5. heavy \in SUBSET routes /\ light \in SUBSET rest /\ rest = routes \ heavy
      /\ \A i \in rest : pre(i) \in SUBSET rest
  OBVIOUS
<1>6. \A i \in rest, j \in heavy : w[i] < w[j]
  BY <1>2, <1>3, Lighter
<1>7. skipped = rest \ light
  BY <1>1, <1>5
<1>8. /\ IsFiniteSet(heavy) /\ IsFiniteSet(rest) /\ IsFiniteSet(kept)
      /\ Cardinality(heavy) \in Nat /\ Cardinality(kept) \in Nat
      /\ \A i \in rest : IsFiniteSet(pre(i)) /\ rank(i) \in Nat
  <2> HIDE DEF heavy, light, kept, pre
  <2>1. kept \in SUBSET routes /\ rest \in SUBSET routes
    BY <1>1, <1>5
  <2>2. IsFiniteSet(heavy) /\ IsFiniteSet(rest) /\ IsFiniteSet(kept)
    BY <1>4, <1>5, <2>1, FS_Subset
  <2>3. \A i \in rest : IsFiniteSet(pre(i))
    BY <1>5, <2>2, FS_Subset
  <2> QED BY <2>2, <2>3, FS_CardinalityType
\* The ranks follow the order.
<1>9. ASSUME NEW i \in rest, NEW j \in rest, before(i, j)
      PROVE  rank(i) < rank(j)
  <2>1. pre(i) \in SUBSET pre(j) /\ i \in pre(j) /\ i \notin pre(i)
    BY <1>3, <1>9
  <2>2. IsFiniteSet(pre(j)) /\ rank(i) \in Nat /\ rank(j) \in Nat
    BY <1>8
  <2> HIDE DEF pre
  <2> QED BY <2>1, <2>2, FS_Subset
<1>10. ASSUME NEW i \in skipped, NEW j \in kept PROVE w[i] <= w[j]
  <2>1. i \in rest /\ i \notin light /\ i \in routes /\ j \in routes
    BY <1>1, <1>5, <1>7
  <2>2. CASE j \in heavy
    BY <1>3, <1>6, <2>1, <2>2
  <2>3. CASE j \in light
    <3>1. j \in rest /\ rank(j) < rank(i)
      <4>1. Cardinality(heavy) + rank(j) < k /\ ~(Cardinality(heavy) + rank(i) < k) /\ j \in rest
        BY <2>1, <2>3
      <4>2. Cardinality(heavy) \in Nat /\ rank(i) \in Nat /\ rank(j) \in Nat
        BY <1>8, <2>1, <4>1
      <4> HIDE DEF heavy, rank, rest
      <4> QED BY <1>2, <4>1, <4>2
    <3>2. ~before(i, j)
      <4>1. rank(i) \in Nat /\ rank(j) \in Nat
        BY <1>8, <2>1, <3>1
      <4> HIDE DEF rank, before, rest
      <4> QED BY <1>9, <2>1, <3>1, <4>1
    <3> QED BY <1>3, <2>1, <3>2
  <2> QED BY <1>1, <2>2, <2>3
\* A skipped route of the least rank: all that precede it are kept.
<1>11. PICK i \in skipped : \A j \in skipped : rank(i) <= rank(j)
  <2> DEFINE R == {rank(j) : j \in skipped}
  <2>1. skipped \in SUBSET rest
    BY <1>7
  <2>2. R \in SUBSET Nat /\ R # {}
    <3>1. \A j \in skipped : rank(j) \in Nat
      BY <1>8, <2>1
    <3> HIDE DEF rank, skipped
    <3> QED BY <3>1
  <2>3. PICK m \in R : \A p \in R : m <= p
    <3> HIDE DEF R
    <3> QED BY <2>2, LeastNatural
  <2> HIDE DEF skipped, rank
  <2> QED BY <2>3
<1>12. i \in rest /\ ~(Cardinality(heavy) + rank(i) < k)
  BY <1>7
<1>13. pre(i) \in SUBSET light
  <2> SUFFICES ASSUME NEW j \in pre(i), j \notin light PROVE FALSE
    BY <1>5, <1>12
  <2>1. j \in rest /\ before(j, i) /\ j \in skipped
    BY <1>7
  <2>2. rank(j) < rank(i) /\ rank(i) <= rank(j) /\ rank(i) \in Nat /\ rank(j) \in Nat
    BY <1>8, <1>9, <1>11, <1>12, <2>1
  <2> HIDE DEF rank
  <2> QED BY <2>2
<1>14. Cardinality(heavy \cup pre(i)) = Cardinality(heavy) + rank(i)
  <2>1. heavy \cap pre(i) = {}
    BY <1>5, <1>12
  <2>2. IsFiniteSet(heavy) /\ IsFiniteSet(pre(i))
    BY <1>8, <1>12
  <2>3. Cardinality({}) = 0
    BY FS_EmptySet
  <2>4. Cardinality(heavy) \in Nat /\ rank(i) \in Nat
    BY <1>8, <1>12
  <2> HIDE DEF heavy, pre
  <2>5. Cardinality(heavy \cup pre(i))
          = Cardinality(heavy) + rank(i) - Cardinality(heavy \cap pre(i))
    BY <2>2, FS_Union
  <2>6. Cardinality(heavy \cap pre(i)) = 0
    BY <2>1, <2>3
  <2> HIDE DEF rank
  <2>7. Cardinality(heavy \cup pre(i)) = Cardinality(heavy) + rank(i) - 0
    BY <2>5, <2>6 DEF rank
  <2> QED BY <2>4, <2>7
<1>15. Cardinality(kept) >= k
  <2>1. heavy \cup pre(i) \in SUBSET kept
    BY <1>1, <1>13
  <2>2. Cardinality(heavy \cup pre(i)) <= Cardinality(kept)
    <3> HIDE DEF heavy, pre, kept
    <3> QED BY <1>8, <2>1, FS_Subset
  <2>3. Cardinality(heavy) \in Nat /\ rank(i) \in Nat /\ Cardinality(kept) \in Nat
    BY <1>8, <1>12
  <2> HIDE DEF heavy, pre, kept
  <2> QED BY <1>2, <1>12, <1>14, <2>2, <2>3
<1>16. kept # {}
  <2> HIDE DEF kept, k, z
  <2> SUFFICES ASSUME kept = {} PROVE FALSE
    OBVIOUS
  <2>1. Cardinality(kept) = 0
    BY FS_EmptySet
  <2> QED BY <1>2, <1>15, <2>1
<1> QED BY <1>1, <1>2, <1>10, <1>15, <1>16

-----------------------------------------------------------------------------
(* The inductive invariant: where the dispatcher believes the generator is. *)

Places   == [layer : 1 .. Layers, token : Nat \ {0}]
Trackers == [layer : Nat, pos : Nat, active : BOOLEAN]

\* p is at the call the generator makes at a.
Synced(p, a) ==
    /\ p.active /\ a.token <= Len(prompt) /\ a.token <= Len(ids)
    /\ p.layer = a.layer /\ p.pos + 1 = a.token
    /\ Len(ids) # Len(prompt) => a.layer = 1

\* Told another length, p is at another layer: the next call is refused.
Lost(p, a) == /\ p.active /\ a.token <= Len(prompt)
              /\ p.layer # a.layer /\ Len(ids) # Len(prompt)

\* Both are through with the prompt.
Past(p, a) == ~p.active /\ a.token > Len(prompt) /\ Len(ids) = Len(prompt)

Follows(p, a) == Synced(p, a) \/ Lost(p, a) \/ Past(p, a)

SkipTyped ==
    /\ prompt \in {Skip!PromptOf(d) : d \in Dialogues}
    /\ ids \in {Skip!PromptOf(d) : d \in Dialogues} \cup {<<>>}
    /\ file \in PolicyFiles \cup {<<>>}
    /\ at \in Places /\ prefill \in Trackers /\ runtime \in 0 .. 2

\* Before the first call nothing has moved, and a refused start ends the program.
Unstarted ==
    /\ runtime = 0 => /\ at = [layer |-> 1, token |-> 1] /\ last = Skip!Idle
                      /\ ~prefill.active
    /\ ~Skip!Enabled => ~prefill.active
    /\ runtime = 2 => ended # "no"

Tracked == Skip!Enabled /\ ended = "no" /\ runtime = 1 => Skip!Allowed /\ Follows(prefill, at)

Stuck == Skip!Enabled /\ Len(ids) # Len(prompt) => ~Skip!Decoding

Ordered == ids = prompt => ended # "order"

\* The last call was served under its token's family and its line of the policy.
Served ==
    last # Skip!Idle =>
        /\ last.weights \in [1 .. TopK -> Weights]
        /\ last.kept = Skip!Kept(last.family, last.layer, last.weights)
        /\ Skip!Enabled => Skip!Loads /\ (ids = prompt => last.family = Skip!Owner)

SkipInv == SkipTyped /\ Unstarted /\ Tracked /\ Stuck /\ Ordered /\ Served

\* The prompt has a token, and its families are its owners'.
LEMMA PromptFacts ==
  ASSUME Skip!Parameters, SkipTyped
  PROVE  /\ Len(prompt) \in Nat /\ Len(prompt) > 0
         /\ Len(ids) \in Nat /\ (ids # <<>> => Len(ids) > 0)
         /\ \A i \in 1 .. Len(prompt) : Skip!Families(prompt)[i] = prompt[i].owner
<1>1. PICK d \in Dialogues : prompt = Skip!PromptOf(d)
  BY DEF SkipTyped
<1>2. prompt \in Seq(Written) /\ Len(prompt) > 0 /\ \E b : Reads("outside", prompt, b)
  BY <1>1, ReadsPrompt
<1>3. \A i \in 1 .. Len(prompt) : Skip!Families(prompt)[i] = prompt[i].owner
  BY <1>2, FamiliesAreOwners
<1>4. Len(ids) \in Nat /\ (ids # <<>> => Len(ids) > 0)
  <2>1. CASE ids = <<>>
    BY <2>1
  <2>2. CASE ids # <<>>
    <3>1. PICK e \in Dialogues : ids = Skip!PromptOf(e)
      BY <2>2 DEF SkipTyped
    <3>2. ids \in Seq(Written) /\ Len(ids) > 0
      BY <3>1, ReadsPrompt
    <3> QED BY <3>2
  <2> QED BY <2>1, <2>2
<1> QED BY <1>2, <1>3, <1>4

\* The generator stays within the layers.
LEMMA ForwardTyped ==
  ASSUME Skip!Parameters, SkipTyped
  PROVE  Skip!Forward \in Places
<1>1. Layers \in Nat /\ Layers > 1 /\ Len(prompt) \in Nat
  BY PromptFacts DEF Skip!Parameters
<1>2. at \in Places
  BY DEF SkipTyped
<1> QED BY <1>1, <1>2 DEF Skip!Forward, Places

\* The tracker's next state is one of its states.
LEMMA AdvancedTyped ==
  ASSUME Skip!Parameters, NEW p \in Trackers
  PROVE  Skip!Advanced(p) \in Trackers
<1>1. CASE ~p.active
  BY <1>1 DEF Skip!Advanced
<1>2. CASE p.active /\ p.pos + 1 < Len(ids)
  BY <1>2 DEF Skip!Advanced, Trackers
<1>3. CASE p.active /\ ~(p.pos + 1 < Len(ids))
  <2>1. Skip!Advanced(p) = [layer |-> p.layer + 1, pos |-> 0, active |-> p.layer + 1 <= Layers]
    BY <1>3 DEF Skip!Advanced
  <2>2. p.layer + 1 \in Nat /\ (p.layer + 1 <= Layers) \in BOOLEAN
    BY DEF Trackers
  <2> QED BY <2>1, <2>2 DEF Trackers
<1> QED BY <1>1, <1>2, <1>3

\* The dispatcher and the generator move together, or are apart at a layer's end.
LEMMA StepFollows ==
  ASSUME Skip!Parameters, SkipTyped, NEW p \in Trackers, Follows(p, at), Skip!Expected(p)
  PROVE  Follows(Skip!Advanced(p), Skip!Forward)
<1> DEFINE n == Len(prompt)
           m == Len(ids)
           q == Skip!Advanced(p)
           b == Skip!Forward
<1>1. Layers \in Nat /\ Layers > 1 /\ n \in Nat /\ n > 0 /\ m \in Nat
  BY PromptFacts DEF Skip!Parameters
<1>2. at.layer \in 1 .. Layers /\ at.token \in Nat /\ at.token > 0
  BY DEF SkipTyped, Places
<1>3. ~Lost(p, at)
  BY DEF Lost, Skip!Expected
<1>4. CASE Synced(p, at)
  <2>1. p.active /\ at.token <= n /\ at.token <= m /\ p.layer = at.layer /\ p.pos + 1 = at.token
        /\ (m # n => at.layer = 1)
    BY <1>4 DEF Synced
  <2>2. ~Skip!Decoding
    BY <1>1, <1>2, <2>1 DEF Skip!Decoding
  <2>3. CASE at.token < m
    <3>1. q.active /\ q.layer = p.layer /\ q.pos = p.pos + 1
      BY <2>1, <2>3 DEF Skip!Advanced, Trackers
    <3>2. CASE at.token < n
      <4>1. b.layer = at.layer /\ b.token = at.token + 1
        BY <1>2, <2>2, <3>2 DEF Skip!Forward, SkipTyped, Places
      <4> HIDE DEF q, b
      <4>2. Synced(q, b)
        BY <1>1, <1>2, <2>1, <2>3, <3>1, <3>2, <4>1 DEF Synced
      <4> QED BY <4>2 DEF Follows, q, b
    <3>3. CASE ~(at.token < n)
      <4>1. m # n /\ at.layer = 1 /\ at.layer < Layers
        BY <1>1, <1>2, <2>1, <2>3, <3>3
      <4>2. b = [layer |-> at.layer + 1, token |-> 1]
        BY <2>2, <3>3, <4>1 DEF Skip!Forward
      <4>3. b.layer = 2 /\ b.token = 1 /\ q.layer = 1
        BY <2>1, <3>1, <4>1, <4>2
      <4> HIDE DEF q, b
      <4>4. Lost(q, b)
        BY <1>1, <3>1, <4>1, <4>3 DEF Lost
      <4> QED BY <4>4 DEF Follows, q, b
    <3> QED BY <3>2, <3>3
  <2>4. CASE ~(at.token < m)
    <3>1. at.token = m /\ q = [layer |-> p.layer + 1, pos |-> 0, active |-> p.layer + 1 <= Layers]
      BY <1>1, <1>2, <2>1, <2>4 DEF Skip!Advanced
    <3>2. q.layer = at.layer + 1 /\ q.pos = 0 /\ (q.active <=> at.layer + 1 <= Layers)
      <4> HIDE DEF q
      <4>1. q.layer = p.layer + 1 /\ q.pos = 0 /\ q.active = (p.layer + 1 <= Layers)
        BY <3>1
      <4>2. p.layer = at.layer
        BY <2>1
      <4> QED BY <4>1, <4>2, Zenon
    <3>3. CASE at.token < n
      <4>1. b.layer = at.layer /\ b.token = at.token + 1
        BY <1>2, <2>2, <3>3 DEF Skip!Forward, SkipTyped, Places
      <4>2. m # n /\ at.layer = 1
        BY <1>1, <1>2, <2>1, <3>1, <3>3
      <4> HIDE DEF q, b
      <4>3. Lost(q, b)
        BY <1>1, <1>2, <3>2, <3>3, <4>1, <4>2 DEF Lost
      <4> QED BY <4>3 DEF Follows, q, b
    <3>4. CASE ~(at.token < n) /\ at.layer < Layers
      <4>1. m = n
        BY <1>1, <1>2, <2>1, <3>1, <3>4
      <4>2. b = [layer |-> at.layer + 1, token |-> 1]
        BY <2>2, <3>4 DEF Skip!Forward
      <4>3. b.layer = at.layer + 1 /\ b.token = 1
        BY <4>2
      <4> HIDE DEF q, b
      <4>4. Synced(q, b)
        BY <1>1, <1>2, <3>2, <3>4, <4>1, <4>3 DEF Synced
      <4> QED BY <4>4 DEF Follows, q, b
    <3>5. CASE ~(at.token < n) /\ ~(at.layer < Layers)
      <4>1. m = n /\ at.token = n /\ ~(at.layer + 1 <= Layers)
        BY <1>1, <1>2, <2>1, <3>1, <3>5
      <4>2. b = [layer |-> 1, token |-> at.token + 1]
        BY <2>2, <3>5 DEF Skip!Forward
      <4>3. b.token = at.token + 1
        BY <4>2
      <4> HIDE DEF q, b
      <4>4. Past(q, b)
        BY <1>1, <1>2, <3>2, <4>1, <4>3 DEF Past
      <4> QED BY <4>4 DEF Follows, q, b
    <3> QED BY <3>3, <3>4, <3>5
  <2> QED BY <2>3, <2>4
<1>5. CASE Past(p, at)
  <2>1. ~p.active /\ at.token > n /\ m = n /\ Skip!Decoding
    BY <1>5 DEF Past, Skip!Decoding
  <2>2. q = p
    BY <2>1 DEF Skip!Advanced
  <2>3. b.token = at.token \/ b.token = at.token + 1
    BY <2>1 DEF Skip!Forward, SkipTyped, Places
  <2>4. b.token > n
    BY <1>1, <1>2, <2>1, <2>3
  <2> HIDE DEF b
  <2>5. Past(q, b)
    BY <2>1, <2>2, <2>4 DEF Past
  <2> QED BY <2>5 DEF Follows, b
<1> QED BY <1>3, <1>4, <1>5 DEF Follows

\* The tracker a call is judged by.
LEMMA StartedFollows ==
  ASSUME Skip!Parameters, SkipTyped, Unstarted, Tracked, Skip!Enabled, ended = "no",
         runtime = 1 \/ Skip!Allowed
  PROVE  Skip!Started \in Trackers /\ Follows(Skip!Started, at) /\ Skip!Allowed
<1>1. CASE runtime = 0
  <2> DEFINE p == [layer |-> 1, pos |-> 0, active |-> TRUE]
  <2>1. Skip!Allowed /\ Skip!Started = p /\ at = [layer |-> 1, token |-> 1]
    BY <1>1 DEF Skip!Started, Unstarted
  <2>2. p \in Trackers
    BY DEF Trackers
  <2>3. Len(prompt) \in Nat /\ Len(prompt) > 0 /\ Len(ids) \in Nat /\ Len(ids) > 0
    BY <2>1, PromptFacts DEF Skip!Allowed
  <2>4. Synced(p, at)
    BY <2>1, <2>3 DEF Synced
  <2> QED BY <2>1, <2>2, <2>4 DEF Follows
<1>2. CASE runtime # 0
  <2>1. runtime = 1
    BY <1>2 DEF Unstarted, SkipTyped
  <2>2. Skip!Started = prefill
    BY <1>2 DEF Skip!Started
  <2> QED BY <2>1, <2>2 DEF Tracked, SkipTyped
<1> QED BY <1>1, <1>2

\* Told the prompt that is run, the dispatcher expects the call and knows its token.
LEMMA FamilyIsOwner ==
  ASSUME Skip!Parameters, SkipTyped, NEW p \in Trackers, Follows(p, at), ids = prompt
  PROVE  /\ Skip!Expected(p)
         /\ Skip!FamilyNow(p) = IF at.token <= Len(prompt) THEN prompt[at.token].owner ELSE "control"
<1>1. Len(prompt) \in Nat /\ at.token \in Nat /\ at.token > 0
  BY PromptFacts DEF SkipTyped, Places
<1>2. CASE Synced(p, at)
  <2>1. p.active /\ at.token <= Len(prompt) /\ p.layer = at.layer /\ p.pos + 1 = at.token
    BY <1>2 DEF Synced
  <2>2. Skip!FamilyNow(p) = Skip!Families(prompt)[at.token]
    BY <2>1 DEF Skip!FamilyNow
  <2>3. at.token \in 1 .. Len(prompt)
    BY <1>1, <2>1
  <2>4. Skip!FamilyNow(p) = prompt[at.token].owner
    BY <2>2, <2>3, PromptFacts
  <2> QED BY <2>1, <2>4 DEF Skip!Expected
<1>3. CASE Past(p, at)
  <2>1. ~p.active /\ ~(at.token <= Len(prompt))
    BY <1>1, <1>3 DEF Past
  <2> QED BY <2>1 DEF Skip!FamilyNow, Skip!Expected
<1> QED BY <1>2, <1>3 DEF Follows, Lost

-----------------------------------------------------------------------------
(* Every step keeps it. *)

\* The invariant holds before the first call.
LEMMA InitSkipInv == ASSUME Skip!Parameters, Skip!Init PROVE SkipInv
<1> USE DEF Skip!Init
<1>1. SkipTyped
  <2>1. at \in Places
    BY DEF Places, Skip!Parameters
  <2>2. prefill \in Trackers
    BY DEF Trackers
  <2> QED BY <2>1, <2>2 DEF SkipTyped
<1>2. Unstarted
  BY DEF Unstarted
<1>3. Tracked
  BY DEF Tracked
<1>4. Stuck
  <2>1. Len(prompt) \in Nat /\ Len(prompt) > 0 /\ at.token = 1
    BY <1>1, PromptFacts
  <2> QED BY <2>1 DEF Stuck, Skip!Decoding
<1>5. Ordered /\ Served
  BY DEF Ordered, Served
<1> QED BY <1>1, <1>2, <1>3, <1>4, <1>5 DEF SkipInv

\* A served call keeps it.
LEMMA CallSkipInv == ASSUME Skip!Parameters, SkipInv, Skip!Call PROVE SkipInv'
<1> DEFINE p == Skip!Started
<1>1. SkipTyped /\ Unstarted /\ Tracked /\ Stuck /\ Ordered /\ Served
  BY DEF SkipInv
<1>2. /\ ended = "no" /\ ended' = ended /\ prompt' = prompt /\ ids' = ids /\ file' = file
      /\ masked' = masked /\ runtime' = 1 /\ prefill' = Skip!Advanced(p) /\ at' = Skip!Forward
      /\ Skip!Enabled => (runtime = 1 \/ Skip!Allowed) /\ Skip!Expected(p)
  BY DEF Skip!Call, Skip!Running
<1>3. (Skip!Enabled' <=> Skip!Enabled) /\ (Skip!Allowed' <=> Skip!Allowed) /\ (Skip!Loads' <=> Skip!Loads)
  BY <1>2 DEF Skip!Enabled, Skip!Allowed, Skip!Loads
<1>4. ASSUME Skip!Enabled
      PROVE  p \in Trackers /\ Follows(p, at) /\ Skip!Expected(p) /\ Skip!Allowed
  BY <1>1, <1>2, <1>4, StartedFollows
<1>5. ASSUME ~Skip!Enabled
      PROVE  p = prefill /\ p \in Trackers /\ ~p.active
  BY <1>1, <1>5 DEF Skip!Started, Unstarted, SkipTyped
<1>6. p \in Trackers
  BY <1>4, <1>5
<1> HIDE DEF p
<1>7. SkipTyped'
  <2>1. Skip!Forward \in Places /\ Skip!Advanced(p) \in Trackers
    BY <1>1, <1>6, ForwardTyped, AdvancedTyped
  <2>2. at' \in Places /\ prefill' \in Trackers /\ runtime' \in 0 .. 2
    BY <1>2, <2>1
  <2> QED BY <1>1, <1>2, <2>2 DEF SkipTyped
<1>8. Unstarted'
  <2>1. ASSUME ~Skip!Enabled PROVE ~prefill'.active
    BY <1>2, <1>5, <2>1 DEF Skip!Advanced
  <2> QED BY <1>2, <1>3, <2>1 DEF Unstarted
<1>9. ASSUME Skip!Enabled PROVE Follows(prefill, at)'
  <2>1. Follows(Skip!Advanced(p), Skip!Forward)
    BY <1>1, <1>4, <1>9, StepFollows
  <2> QED BY <1>2, <2>1 DEF Follows, Synced, Lost, Past
<1>10. Tracked'
  BY <1>2, <1>3, <1>4, <1>9 DEF Tracked
<1>11. Stuck'
  <2> SUFFICES ASSUME Skip!Enabled, Len(ids) # Len(prompt) PROVE ~Skip!Decoding'
    BY <1>2, <1>3 DEF Stuck
  <2>1. at'.token <= Len(prompt')
    BY <1>2, <1>9 DEF Follows, Synced, Lost, Past
  <2>2. at'.token \in Nat /\ Len(prompt') \in Nat
    BY <1>1, <1>2, <1>7, PromptFacts DEF SkipTyped, Places
  <2> QED BY <2>1, <2>2 DEF Skip!Decoding
<1>12. Ordered'
  BY <1>1, <1>2 DEF Ordered
<1>13. Served'
  <2>1. PICK w \in [1 .. TopK -> Weights] :
            last' = [layer |-> at.layer, token |-> at.token, family |-> Skip!FamilyNow(p),
                     weights |-> w, kept |-> Skip!Kept(Skip!FamilyNow(p), at.layer, w)]
    BY DEF Skip!Call, p
  <2>2. /\ last'.weights \in [1 .. TopK -> Weights] /\ last'.token = at.token
        /\ last'.family = Skip!FamilyNow(p)
        /\ last'.kept = Skip!Kept(last'.family, last'.layer, last'.weights)
    BY <2>1
  <2>3. last'.kept = Skip!Kept(last.family, last.layer, last.weights)'
    BY <1>2, <2>2 DEF Skip!Kept, Skip!Policy
  <2>4. Skip!Enabled => Skip!Loads'
    BY <1>3, <1>4 DEF Skip!Allowed
  <2>5. Skip!Enabled /\ ids = prompt => last'.family = Skip!Owner'
    BY <1>1, <1>2, <1>4, <2>2, FamilyIsOwner DEF Skip!Owner
  <2> QED BY <1>2, <1>3, <2>2, <2>3, <2>4, <2>5 DEF Served
<1> QED BY <1>7, <1>8, <1>10, <1>11, <1>12, <1>13 DEF SkipInv

\* A call that fails keeps it, and fails by its order only under another prompt.
LEMMA FailSkipInv == ASSUME Skip!Parameters, SkipInv, Skip!Fail PROVE SkipInv'
<1>1. SkipTyped /\ Unstarted /\ Tracked /\ Stuck /\ Ordered /\ Served
  BY DEF SkipInv
<1>2. /\ ended = "no" /\ ended' # "no" /\ prompt' = prompt /\ ids' = ids /\ file' = file
      /\ masked' = masked /\ prefill' = prefill /\ at' = at /\ last' = last
      /\ runtime' \in {1, 2}
  BY DEF Skip!Fail, Skip!Running
<1>3. (Skip!Enabled' <=> Skip!Enabled) /\ (Skip!Loads' <=> Skip!Loads)
  BY <1>2 DEF Skip!Enabled, Skip!Loads
<1>4. SkipTyped'
  BY <1>1, <1>2 DEF SkipTyped
<1>5. Unstarted' /\ Tracked' /\ Stuck'
  BY <1>1, <1>2, <1>3 DEF Unstarted, Tracked, Stuck, Skip!Decoding
<1>6. Ordered'
  <2> SUFFICES ASSUME ids = prompt, ended' = "order" PROVE FALSE
    BY <1>2 DEF Ordered
  <2>1. Skip!Enabled /\ ~(runtime = 0 /\ ~Skip!Allowed) /\ ~Skip!Expected(Skip!Started)
    BY DEF Skip!Fail
  <2>2. runtime = 1 \/ Skip!Allowed
    BY <1>1, <1>2, <2>1 DEF Unstarted, SkipTyped
  <2>3. Skip!Started \in Trackers /\ Follows(Skip!Started, at)
    BY <1>1, <1>2, <2>1, <2>2, StartedFollows
  <2> QED BY <1>1, <2>1, <2>3, FamilyIsOwner
<1>7. Served'
  BY <1>1, <1>2, <1>3 DEF Served, Skip!Kept, Skip!Policy, Skip!Owner
<1> QED BY <1>4, <1>5, <1>6, <1>7 DEF SkipInv

\* Every step keeps it.
LEMMA NextSkipInv == ASSUME Skip!Parameters, SkipInv, [Skip!Next]_(Skip!vars) PROVE SkipInv'
<1>1. CASE Skip!Call
  BY <1>1, CallSkipInv
<1>2. CASE Skip!Fail
  BY <1>2, FailSkipInv
<1>3. CASE UNCHANGED Skip!vars
  <2>1. /\ prompt' = prompt /\ ids' = ids /\ file' = file /\ masked' = masked /\ at' = at
        /\ prefill' = prefill /\ last' = last /\ runtime' = runtime /\ ended' = ended
    BY <1>3 DEF Skip!vars
  <2>2. SkipTyped' /\ Unstarted' /\ Tracked' /\ Stuck' /\ Ordered' /\ Served'
    BY <2>1 DEF SkipInv, SkipTyped, Unstarted, Tracked, Stuck, Ordered, Served, Skip!Enabled,
                Skip!Allowed, Skip!Loads, Skip!Decoding, Follows, Synced, Lost, Past, Skip!Kept, Skip!Policy, Skip!Owner
  <2> QED BY <2>2 DEF SkipInv
<1> QED BY <1>1, <1>2, <1>3 DEF Skip!Next

\* It implies the property.
LEMMA SkipInvSuffices == ASSUME Skip!Parameters, SkipInv PROVE Skip!SkipsAsIntended
<1>1. SkipTyped /\ Stuck /\ Ordered /\ Served
  BY DEF SkipInv
<1>2. ids = prompt => ended # "order" /\ (Skip!Enabled /\ last # Skip!Idle => last.family = Skip!Owner)
  BY <1>1 DEF Ordered, Served
<1>3. Skip!Enabled /\ Len(ids) # Len(prompt) => ~Skip!Decoding
  BY <1>1 DEF Stuck
<1>4. ASSUME Skip!Skipped # {}
      PROVE  /\ Skip!Enabled /\ (ids = prompt => Skip!Owner # "control")
             /\ \A i \in Skip!Skipped, j \in last.kept : last.weights[i] <= last.weights[j]
             /\ last.kept # {}
             /\ Cardinality(last.kept) >= Skip!Policy(last.family, last.layer).min_keep
  <2>1. last # Skip!Idle
    <3>1. Skip!Idle.kept = 1 .. TopK
      BY DEF Skip!Idle
    <3> QED BY <1>4, <3>1 DEF Skip!Skipped
  <2>2. /\ last.weights \in [1 .. TopK -> Weights]
        /\ last.kept = Skip!Kept(last.family, last.layer, last.weights)
        /\ Skip!Enabled => Skip!Loads /\ (ids = prompt => last.family = Skip!Owner)
    BY <1>1, <2>1 DEF Served
  <2>3. file \in Seq(PolicyLine)
    BY <1>1, FileTyped DEF SkipTyped
  <2>4. /\ Skip!Enabled /\ last.family # "control"
        /\ \A i \in (1 .. TopK) \ last.kept, j \in last.kept : last.weights[i] <= last.weights[j]
        /\ last.kept # {}
        /\ Cardinality(last.kept) >= Skip!Policy(last.family, last.layer).min_keep
    BY <1>4, <2>2, <2>3, KeptExact DEF Skip!Skipped
  <2> QED BY <2>2, <2>4 DEF Skip!Skipped
<1> QED BY SameCardinality, <1>2, <1>3, <1>4 DEF Skip!SkipsAsIntended

\* Under any prompt file the dispatcher's tracker (next_family of
\* moe_dynamic_skip.c) is at the generator's next call, or, told another length,
\* at another layer, or both are through with the prompt; and the last call was
\* served under its token's family and its line of the policy.
THEOREM SkippingInvariant == Skip!Spec => []SkipInv
<1>1. Skip!Init => SkipInv
  BY InitSkipInv, SkipAssumption
<1>2. SkipInv /\ [Skip!Next]_(Skip!vars) => SkipInv'
  BY NextSkipInv, SkipAssumption
<1> QED BY <1>1, <1>2, PTL DEF Skip!Spec

\* For every dialogue, policy file and number of layers: told the prompt that is
\* run, the dispatcher never objects to the order of the calls and skips only
\* under the family the template wrote the token as; told a prompt of another
\* length, the generator never decodes; and the routes skipped are the lightest
\* of the token's, never more than kvl_moe_dynskip_apply_policy's min_keep allows.
THEOREM SkippingFailsClosed == EitherSpec => []SkipsAsIntended
<1> DEFINE IInv == prompt = <<>> \/ SkipInv
<1>1. EitherInit => IInv
  BY InitSkipInv, SkipAssumption DEF EitherInit, NotSkipping
<1>2. IInv /\ [EitherNext]_<<vars, skip>> => IInv'
  <2> SUFFICES ASSUME IInv, [EitherNext]_<<vars, skip>> PROVE IInv'
    OBVIOUS
  <2>1. CASE prompt = <<>> /\ UNCHANGED skip
    BY <2>1 DEF skip
  <2>2. CASE prompt # <<>> /\ Skip!Next
    BY <2>2, NextSkipInv, SkipAssumption
  <2>3. CASE prompt # <<>> /\ UNCHANGED skip
    <3>1. UNCHANGED Skip!vars
      BY <2>3 DEF skip, Skip!vars
    <3> QED BY <2>3, <3>1, NextSkipInv, SkipAssumption
  <2> QED BY <2>1, <2>2, <2>3 DEF EitherNext
<1>3. IInv => SkipsAsIntended
  BY SkipInvSuffices, SkipAssumption DEF SkipsAsIntended
<1> QED BY <1>1, <1>2, <1>3, PTL DEF EitherSpec
=============================================================================
