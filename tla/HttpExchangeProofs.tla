-------------------------- MODULE HttpExchangeProofs --------------------------
(***************************************************************************)
(* Theorems about SseParser and HttpExchange: what ParseSseEvents makes of a *)
(* text that is cut in two, for every text and every cut; and about an       *)
(* exchange, for any set of replies.                                        *)
(***************************************************************************)
EXTENDS HttpExchange, RunningFoldsProofs, SequenceTheorems

\* What a text consists of, and what its values are.
Tokens ==
  [kind : {"event", "data", "return", "newline"}, is : STRING, spaced : BOOLEAN]
    \cup {NL, CR}
Contents == {token.is : token \in Tokens}
Scanned == [blocks : Seq(Seq(Tokens)), block : Seq(Tokens), ended : BOOLEAN]

LEMMA NewlineToken == NL \in Tokens /\ CR \in Tokens /\ NL # CR
<1>1. NL.kind # CR.kind
  BY DEF NL, CR, Token
<1> QED
  BY <1>1 DEF Tokens

-----------------------------------------------------------------------------
(* The loops satisfy their equations *)

LEMMA AddTokenType ==
  ASSUME NEW acc \in Scanned, NEW token \in Tokens
  PROVE  AddToken(acc, token) \in Scanned
<1> HIDE DEF Tokens
<1>1. CASE token # NL
  <2>1. AddToken(acc, token) =
          [blocks |-> acc.blocks, block |-> Append(acc.block, token), ended |-> FALSE]
    BY <1>1 DEF AddToken, Scanned
  <2>2. acc.blocks \in Seq(Seq(Tokens)) /\ Append(acc.block, token) \in Seq(Tokens)
    BY DEF Scanned
  <2> QED
    BY <2>1, <2>2 DEF Scanned
<1>2. CASE token = NL /\ ~ acc.ended
  BY <1>2 DEF AddToken, Scanned
<1>3. CASE token = NL /\ acc.ended /\ acc.block = <<>>
  BY <1>3 DEF AddToken, Scanned
<1>4. CASE token = NL /\ acc.ended /\ acc.block # <<>>
  BY <1>4 DEF AddToken, Scanned
<1> QED
  BY <1>1, <1>2, <1>3, <1>4

LEMMA NoBlocksType == NoBlocks \in Scanned
<1> HIDE DEF Tokens
<1> QED
  BY DEF NoBlocks, Scanned

LEMMA ScanLoop ==
  ASSUME NEW text \in Seq(Tokens)
  PROVE  /\ Scan(text) \in [0..Len(text) -> Scanned]
         /\ Scan(text)[0] = NoBlocks
         /\ \A n \in 1..Len(text) : Scan(text)[n] = AddToken(Scan(text)[n - 1], text[n])
<1> HIDE DEF Tokens, Scanned
<1> DEFINE Is(f) == f = [n \in 0..Len(text) |->
                           IF n = 0 THEN NoBlocks ELSE AddToken(f[n - 1], text[n])]
           next == [n \in 1..Len(text) |-> [acc \in Scanned |-> AddToken(acc, text[n])]]
<1>1. NoBlocks \in Scanned
  BY NoBlocksType
<1>2. next \in [1..Len(text) -> [Scanned -> Scanned]]
  BY AddTokenType
<1>3. PICK f : IsLoop(f, Len(text), Scanned, NoBlocks, next)
  <2> HIDE DEF next
  <2>1. Len(text) \in Nat
    OBVIOUS
  <2> QED BY <1>1, <1>2, <2>1, LoopExists
<1>4. Is(f)
  <2>1. \A n \in 1..Len(text) : f[n] = AddToken(f[n - 1], text[n])
    BY <1>3 DEF IsLoop
  <2> QED BY <1>3, <2>1 DEF IsLoop
<1>5. Scan(text) = CHOOSE g : Is(g)
  BY DEF Scan, Running
<1>6. Is(Scan(text))
  <2> HIDE DEF Is
  <2> QED BY <1>4, <1>5
<1>7. IsLoop(Scan(text), Len(text), Scanned, NoBlocks, next)
  <2> DEFINE loop == Scan(text)
  <2>1. loop = [n \in 0..Len(text) |-> loop[n]] /\ loop[0] = NoBlocks
    BY <1>6
  <2>2. ASSUME NEW n \in 1..Len(text), loop[n - 1] \in Scanned
        PROVE  loop[n] = next[n][loop[n - 1]]
    BY <1>6, <2>2
  <2>3. Len(text) \in Nat
    OBVIOUS
  <2> HIDE DEF loop, next, Is
  <2>4. IsLoop(loop, Len(text), Scanned, NoBlocks, next)
    BY <1>1, <1>2, <2>1, <2>2, <2>3, LoopType
  <2> QED
    BY <2>4 DEF loop
<1>8. ASSUME NEW n \in 1..Len(text)
      PROVE  Scan(text)[n] = AddToken(Scan(text)[n - 1], text[n])
  BY <1>6
<1>9. Scan(text)[0] = NoBlocks /\ Scan(text) \in [0..Len(text) -> Scanned]
  BY <1>7 DEF IsLoop
<1> HIDE DEF Is, next
<1> QED
  BY <1>8, <1>9

LEMMA KeepTokenType ==
  ASSUME NEW kept \in Seq(Tokens), NEW token \in Tokens
  PROVE  KeepToken(kept, token) \in Seq(Tokens)
<1> HIDE DEF Tokens
<1> QED
  BY DEF KeepToken

LEMMA KeptLoop ==
  ASSUME NEW input \in Seq(Tokens)
  PROVE  /\ Kept(input) \in [0..Len(input) -> Seq(Tokens)]
         /\ Kept(input)[0] = <<>>
         /\ \A n \in 1..Len(input) : Kept(input)[n] = KeepToken(Kept(input)[n - 1], input[n])
<1> HIDE DEF Tokens
<1> DEFINE Is(f) == f = [n \in 0..Len(input) |->
                           IF n = 0 THEN <<>> ELSE KeepToken(f[n - 1], input[n])]
           next == [n \in 1..Len(input) |-> [acc \in Seq(Tokens) |-> KeepToken(acc, input[n])]]
<1>1. <<>> \in Seq(Tokens)
  OBVIOUS
<1>2. next \in [1..Len(input) -> [Seq(Tokens) -> Seq(Tokens)]]
  <2>1. ASSUME NEW n \in 1..Len(input), NEW acc \in Seq(Tokens) PROVE KeepToken(acc, input[n]) \in Seq(Tokens)
    <3>1. input[n] \in Tokens
      OBVIOUS
    <3> QED BY <3>1, KeepTokenType
  <2> QED BY <2>1
<1>3. PICK f : IsLoop(f, Len(input), Seq(Tokens), <<>>, next)
  <2> HIDE DEF next
  <2>1. Len(input) \in Nat
    OBVIOUS
  <2> QED BY <1>1, <1>2, <2>1, LoopExists
<1>4. Is(f)
  <2>1. ASSUME NEW n \in 1..Len(input) PROVE f[n] = KeepToken(f[n - 1], input[n])
    <3>1. n - 1 \in 0..Len(input) /\ f \in [0..Len(input) -> Seq(Tokens)] /\ f[n] = next[n][f[n - 1]]
      BY <1>3 DEF IsLoop
    <3>2. f[n - 1] \in Seq(Tokens)
      BY <3>1
    <3> QED BY <3>1, <3>2
  <2> QED BY <1>3, <2>1 DEF IsLoop
<1>5. Kept(input) = CHOOSE g : Is(g)
  BY DEF Kept, Running
<1>6. Is(Kept(input))
  <2> HIDE DEF Is
  <2> QED BY <1>4, <1>5
<1>7. IsLoop(Kept(input), Len(input), Seq(Tokens), <<>>, next)
  <2> DEFINE loop == Kept(input)
  <2>1. loop = [n \in 0..Len(input) |-> loop[n]] /\ loop[0] = <<>>
    BY <1>6
  <2>2. ASSUME NEW n \in 1..Len(input), loop[n - 1] \in Seq(Tokens)
        PROVE  loop[n] = next[n][loop[n - 1]]
    BY <1>6, <2>2
  <2>3. Len(input) \in Nat
    OBVIOUS
  <2> HIDE DEF loop, next, Is
  <2>4. IsLoop(loop, Len(input), Seq(Tokens), <<>>, next)
    BY <1>1, <1>2, <2>1, <2>2, <2>3, LoopType
  <2> QED
    BY <2>4 DEF loop
<1>8. ASSUME NEW n \in 1..Len(input)
      PROVE  Kept(input)[n] = KeepToken(Kept(input)[n - 1], input[n])
  BY <1>6
<1>9. Kept(input)[0] = <<>> /\ Kept(input) \in [0..Len(input) -> Seq(Tokens)]
  BY <1>7 DEF IsLoop
<1> HIDE DEF Is, next
<1> QED
  BY <1>8, <1>9

LEMMA KeptType ==
  ASSUME NEW input \in Seq(Tokens), NEW n \in 0..Len(input)
  PROVE  Kept(input)[n] \in Seq(Tokens)
<1> HIDE DEF Tokens
<1> DEFINE S == Seq(Tokens)
           f == Kept(input)
<1>1. f \in [0..Len(input) -> S]
  BY KeptLoop
<1> HIDE DEF S, f
<1>2. f[n] \in S
  BY <1>1
<1> QED
  BY <1>2 DEF S, f

LEMMA FirstIs ==
  ASSUME NEW places, places \subseteq Nat, places # {}
  PROVE  /\ First(places) \in places
         /\ \A i \in places : First(places) <= i
<1>1. PICK n \in places : \A m \in places : n <= m
  BY LeastNatural
<1> QED
  BY <1>1 DEF First

LEMMA FirstOfType ==
  ASSUME NEW block \in Seq(Tokens), NEW kind
  PROVE  FirstOf(kind, block) \in Tokens
<1> DEFINE lines == {i \in DOMAIN block : block[i].kind = kind}
<1>1. CASE lines = {}
  BY <1>1, NewlineToken DEF FirstOf
<1>2. CASE lines # {}
  <2>1. First(lines) \in lines
    <3>1. lines \subseteq Nat
      OBVIOUS
    <3> HIDE DEF lines
    <3> QED BY <1>2, <3>1, FirstIs
  <2> HIDE DEF Tokens
  <2>2. block[First(lines)] \in Tokens
    BY <2>1
  <2> QED
    BY <1>2, <2>2 DEF FirstOf
<1> QED
  BY <1>1, <1>2

LEMMA ParseSseBlockType ==
  ASSUME NEW block \in Seq(Tokens)
  PROVE  ParseSseBlock(block) \in Seq(Contents)
<1>1. FirstOf("data", block).is \in Contents
  BY FirstOfType DEF Contents
<1> HIDE DEF Contents, Tokens
<1> QED
  BY <1>1 DEF ParseSseBlock

LEMMA AddValuesType ==
  ASSUME NEW values \in Seq(Contents), NEW block \in Seq(Tokens)
  PROVE  AddValues(values, block) \in Seq(Contents)
<1> HIDE DEF Contents, Tokens
<1> QED
  BY ParseSseBlockType DEF AddValues

LEMMA ValuesLoop ==
  ASSUME NEW blocks \in Seq(Seq(Tokens))
  PROVE  /\ Values(blocks) \in [0..Len(blocks) -> Seq(Contents)]
         /\ Values(blocks)[0] = <<>>
         /\ \A n \in 1..Len(blocks) : Values(blocks)[n] = AddValues(Values(blocks)[n - 1], blocks[n])
<1> HIDE DEF Tokens, Contents
<1> DEFINE Is(f) == f = [n \in 0..Len(blocks) |->
                           IF n = 0 THEN <<>> ELSE AddValues(f[n - 1], blocks[n])]
           next == [n \in 1..Len(blocks) |-> [acc \in Seq(Contents) |-> AddValues(acc, blocks[n])]]
<1>1. <<>> \in Seq(Contents)
  OBVIOUS
<1>2. next \in [1..Len(blocks) -> [Seq(Contents) -> Seq(Contents)]]
  <2>1. ASSUME NEW n \in 1..Len(blocks), NEW acc \in Seq(Contents) PROVE AddValues(acc, blocks[n]) \in Seq(Contents)
    <3>1. blocks[n] \in Seq(Tokens)
      OBVIOUS
    <3> QED BY <3>1, AddValuesType
  <2> QED BY <2>1
<1>3. PICK f : IsLoop(f, Len(blocks), Seq(Contents), <<>>, next)
  <2> HIDE DEF next
  <2>1. Len(blocks) \in Nat
    OBVIOUS
  <2> QED BY <1>1, <1>2, <2>1, LoopExists
<1>4. Is(f)
  <2>1. ASSUME NEW n \in 1..Len(blocks) PROVE f[n] = AddValues(f[n - 1], blocks[n])
    <3>1. n - 1 \in 0..Len(blocks)
      OBVIOUS
    <3>2. f[n] = next[n][f[n - 1]] /\ f[n - 1] \in Seq(Contents)
      <4> HIDE DEF next
      <4> QED BY <1>3, <3>1 DEF IsLoop
    <3> QED BY <3>2
  <2> QED BY <1>3, <2>1 DEF IsLoop
<1>5. Values(blocks) = CHOOSE g : Is(g)
  BY DEF Values, Running
<1>6. Is(Values(blocks))
  <2> HIDE DEF Is
  <2> QED BY <1>4, <1>5
<1>7. ASSUME NEW n \in 1..Len(blocks)
      PROVE  Values(blocks)[n] = AddValues(Values(blocks)[n - 1], blocks[n])
  <2> DEFINE loop == Values(blocks)
  <2>1. Is(loop)
    BY <1>6
  <2>2. n \in 0..Len(blocks) /\ n # 0
    OBVIOUS
  <2> HIDE DEF loop
  <2>3. loop[n] = AddValues(loop[n - 1], blocks[n])
    BY <2>1, <2>2
  <2> QED BY <2>3 DEF loop
<1>8. IsLoop(Values(blocks), Len(blocks), Seq(Contents), <<>>, next)
  <2> DEFINE loop == Values(blocks)
  <2>1. loop = [n \in 0..Len(blocks) |-> loop[n]] /\ loop[0] = <<>>
    BY <1>6
  <2>2. ASSUME NEW n \in 1..Len(blocks), loop[n - 1] \in Seq(Contents)
        PROVE  loop[n] = next[n][loop[n - 1]]
    <3>1. loop[n] = AddValues(loop[n - 1], blocks[n])
      <4> HIDE DEF loop
      <4> QED BY <1>7 DEF loop
    <3> QED BY <2>2, <3>1
  <2>3. Len(blocks) \in Nat
    OBVIOUS
  <2> HIDE DEF loop, next, Is
  <2>4. IsLoop(loop, Len(blocks), Seq(Contents), <<>>, next)
    BY <1>1, <1>2, <2>1, <2>2, <2>3, LoopType
  <2> QED
    BY <2>4 DEF loop
<1>9. Values(blocks)[0] = <<>> /\ Values(blocks) \in [0..Len(blocks) -> Seq(Contents)]
  BY <1>8 DEF IsLoop
<1> HIDE DEF Is, next
<1> QED
  BY <1>7, <1>9

-----------------------------------------------------------------------------
(* The empty lines of a text that is cut in two, and the blocks on both sides *)

\* The text after its first k tokens.
After(text, k) == SubSeq(text, k + 1, Len(text))

\* No line and no block is open after k tokens.
Closed(text, k) == k = 0 \/ k \in EmptyLines(text)

\* A scan with other blocks in front of its own.
Behind(blocks, acc) ==
  [blocks |-> blocks \o acc.blocks, block |-> acc.block, ended |-> acc.ended]

LEMMA AfterIs ==
  ASSUME NEW text \in Seq(Tokens), NEW k \in 0..Len(text)
  PROVE  /\ After(text, k) \in Seq(Tokens)
         /\ Len(After(text, k)) = Len(text) - k
         /\ \A i \in 1..(Len(text) - k) : After(text, k)[i] = text[k + i]
<1> HIDE DEF Tokens
<1> QED
  BY DEF After

\* Texts that agree on their first n tokens are scanned alike so far.
LEMMA ScanAgrees ==
  ASSUME NEW s \in Seq(Tokens), NEW t \in Seq(Tokens), NEW n \in Nat,
         n <= Len(s), n <= Len(t), \A i \in 1..n : s[i] = t[i]
  PROVE  \A i \in 0..n : Scan(s)[i] = Scan(t)[i]
<1> HIDE DEF Tokens
<1> DEFINE S == {i \in 0..n : Scan(s)[i] = Scan(t)[i]}
<1>1. 0 \in S
  BY ScanLoop
<1>2. ASSUME NEW i \in 1..n, i - 1 \in S PROVE i \in S
  <2>1. i \in 1..Len(s) /\ i \in 1..Len(t)
    OBVIOUS
  <2>2. Scan(s)[i] = AddToken(Scan(s)[i - 1], s[i])
    BY <2>1, ScanLoop
  <2>3. Scan(t)[i] = AddToken(Scan(t)[i - 1], t[i])
    BY <2>1, ScanLoop
  <2> QED
    BY <1>2, <2>2, <2>3
<1>3. 0..n \subseteq S
  <2> HIDE DEF S
  <2> QED BY <1>1, <1>2, UpTo
<1> QED
  BY <1>3

\* (Statements that the provers match by their name only.)
AppendsLater(s, t, e) == Append(s \o t, e) = s \o Append(t, e)

LEMMA ConcatAppend ==
  ASSUME NEW S, NEW s \in Seq(S)
  PROVE  \A t \in Seq(S), e \in S : AppendsLater(s, t, e)
BY SMT DEF AppendsLater

LEMMA AddTokenBehind ==
  ASSUME NEW blocks \in Seq(Seq(Tokens)), NEW acc \in Scanned, NEW token \in Tokens
  PROVE  AddToken(Behind(blocks, acc), token) = Behind(blocks, AddToken(acc, token))
<1> HIDE DEF Tokens
<1>1. CASE token # NL
  BY <1>1 DEF AddToken, Behind, Scanned
<1>2. CASE token = NL /\ ~ acc.ended
  BY <1>2 DEF AddToken, Behind, Scanned
<1>3. CASE token = NL /\ acc.ended /\ acc.block = <<>>
  BY <1>3 DEF AddToken, Behind, Scanned
<1>4. CASE token = NL /\ acc.ended /\ acc.block # <<>>
  <2>1. Append(blocks \o acc.blocks, acc.block) = blocks \o Append(acc.blocks, acc.block)
    <3> DEFINE B == Seq(Tokens)
               t == acc.blocks
               e == acc.block
    <3>1. blocks \in Seq(B) /\ t \in Seq(B) /\ e \in B
      BY DEF Scanned
    <3> HIDE DEF B, t, e
    <3>2. AppendsLater(blocks, t, e)
      BY <3>1, ConcatAppend
    <3>3. Append(blocks \o t, e) = blocks \o Append(t, e)
      BY <3>2 DEF AppendsLater
    <3> QED
      BY <3>3 DEF t, e
  <2> QED
    BY <1>4, <2>1 DEF AddToken, Behind
<1> QED
  BY <1>1, <1>2, <1>3, <1>4

\* Behind an empty line, a text is scanned as if it began there.
LEMMA ClosedScan ==
  ASSUME NEW text \in Seq(Tokens), NEW k \in 0..Len(text), Closed(text, k)
  PROVE  Scan(text)[k] = Behind(Scan(text)[k].blocks, NoBlocks)
<1> HIDE DEF Tokens
<1>1. Scan(text)[k] \in Scanned
  BY ScanLoop
<1>2. Scan(text)[k].block = <<>> /\ Scan(text)[k].ended
  <2>1. CASE k = 0
    BY <2>1, ScanLoop DEF NoBlocks
  <2>2. CASE k \in EmptyLines(text)
    <3>1. /\ k - 1 \in 0..Len(text) /\ k - 1 \in 1..Len(text) /\ k \in 1..Len(text)
          /\ k - 2 \in 0..Len(text) /\ text[k] = NL /\ text[k - 1] = NL
      BY <2>2 DEF EmptyLines
    <3>2. Scan(text)[k] = AddToken(Scan(text)[k - 1], NL)
      BY <3>1, ScanLoop
    <3>3. Scan(text)[k - 1] = AddToken(Scan(text)[k - 1 - 1], NL)
      BY <3>1, ScanLoop
    <3>4. Scan(text)[k - 1] \in Scanned /\ Scan(text)[k - 1 - 1] \in Scanned
      <4>1. Scan(text) \in [0..Len(text) -> Scanned]
        BY ScanLoop
      <4>2. k - 1 - 1 \in 0..Len(text)
        BY <3>1
      <4> QED BY <3>1, <4>1, <4>2
    <3>5. Scan(text)[k - 1].ended
      BY <3>3, <3>4 DEF AddToken, Scanned
    <3> QED
      BY <3>2, <3>4, <3>5 DEF AddToken, Scanned
  <2> QED
    BY <2>1, <2>2 DEF Closed
<1>3. Scan(text)[k].blocks \in Seq(Seq(Tokens))
  BY <1>1 DEF Scanned
<1>4. Scan(text)[k].blocks \o <<>> = Scan(text)[k].blocks
  BY <1>3
<1> QED
  BY <1>1, <1>2, <1>4 DEF Behind, NoBlocks, Scanned

LEMMA ScanAfter ==
  ASSUME NEW text \in Seq(Tokens), NEW k \in 0..Len(text), Closed(text, k),
         NEW n \in 0..(Len(text) - k)
  PROVE  Scan(text)[k + n] = Behind(Scan(text)[k].blocks, Scan(After(text, k))[n])
<1> HIDE DEF Tokens
<1> DEFINE rest == After(text, k)
           blocks == Scan(text)[k].blocks
           S == {i \in 0..(Len(text) - k) : Scan(text)[k + i] = Behind(blocks, Scan(rest)[i])}
<1>0. rest \in Seq(Tokens) /\ Len(rest) = Len(text) - k
  BY AfterIs
<1>1. blocks \in Seq(Seq(Tokens))
  BY ScanLoop DEF Scanned
<1>2. 0 \in S
  BY <1>0, ScanLoop, ClosedScan
<1>3. ASSUME NEW i \in 1..(Len(text) - k), i - 1 \in S PROVE i \in S
  <2>1. k + i \in 1..Len(text) /\ (k + i) - 1 = k + (i - 1) /\ i \in 1..Len(rest)
    BY <1>0
  <2>2. Scan(text)[k + i] = AddToken(Scan(text)[k + (i - 1)], text[k + i])
    BY <2>1, ScanLoop
  <2>3. Scan(rest)[i] = AddToken(Scan(rest)[i - 1], rest[i]) /\ Scan(rest)[i - 1] \in Scanned
    <3> HIDE DEF rest, blocks, S, Scanned
    <3>1. /\ Scan(rest) \in [0..Len(rest) -> Scanned]
          /\ \A m \in 1..Len(rest) : Scan(rest)[m] = AddToken(Scan(rest)[m - 1], rest[m])
      BY <1>0, ScanLoop
    <3>2. i - 1 \in 0..Len(rest)
      BY <1>0
    <3> QED BY <2>1, <3>1, <3>2
  <2>4. rest[i] = text[k + i] /\ rest[i] \in Tokens
    <3>1. rest[i] = text[k + i]
      BY AfterIs
    <3>2. rest[i] \in Tokens
      <4> HIDE DEF rest
      <4> QED BY <1>0, <2>1
    <3> QED BY <3>1, <3>2
  <2> HIDE DEF rest, blocks
  <2> QED
    BY <1>1, <1>3, <2>2, <2>3, <2>4, AddTokenBehind
<1>4. 0..(Len(text) - k) \subseteq S
  <2>1. Len(text) - k \in Nat
    OBVIOUS
  <2> HIDE DEF S
  <2> QED BY <1>2, <1>3, <2>1, UpTo
<1> QED
  BY <1>4

LeavesLater(s, t, k) == After(s, k) \o t = After(s \o t, k)

LEMMA AfterConcat ==
  ASSUME NEW s \in Seq(Tokens), NEW t \in Seq(Tokens), NEW k \in 0..Len(s)
  PROVE  LeavesLater(s, t, k)
<1> HIDE DEF Tokens
<1> DEFINE rest == After(s, k)
           st == s \o t
           behind == After(st, k)
           joined == rest \o t
           m == Len(s)
           n == Len(t)
<1>1. /\ st \in Seq(Tokens) /\ Len(st) = m + n /\ m \in Nat /\ n \in Nat
      /\ \A i \in 1..m : st[i] = s[i]
      /\ \A i \in 1..n : st[m + i] = t[i]
  OBVIOUS
<1>2. /\ rest \in Seq(Tokens) /\ Len(rest) = m - k
      /\ \A i \in 1..(m - k) : rest[i] = s[k + i]
  BY AfterIs
<1> HIDE DEF rest, st
<1>3. k \in 0..m /\ k \in 0..Len(st)
  BY <1>1
<1>4. /\ behind \in Seq(Tokens) /\ Len(behind) = Len(st) - k
      /\ \A i \in 1..(Len(st) - k) : behind[i] = st[k + i]
  BY <1>1, <1>3, AfterIs DEF Tokens
<1>5. /\ joined \in Seq(Tokens) /\ Len(joined) = Len(rest) + n
      /\ \A i \in 1..Len(rest) : joined[i] = rest[i]
      /\ \A i \in 1..n : joined[Len(rest) + i] = t[i]
  BY <1>2
<1> HIDE DEF joined, behind, m, n
<1>6. Len(joined) = m + n - k /\ Len(behind) = m + n - k
  BY <1>1, <1>2, <1>3, <1>4, <1>5
<1>7. ASSUME NEW i \in 1..(m + n - k) PROVE joined[i] = behind[i]
  <2>1. behind[i] = st[k + i]
    BY <1>1, <1>4
  <2>2. CASE i <= m - k
    <3>1. i \in 1..(m - k) /\ k + i \in 1..m
      BY <1>1, <1>3, <2>2
    <3> QED BY <1>1, <1>2, <1>5, <2>1, <3>1
  <2>3. CASE ~ (i <= m - k)
    <3> DEFINE j == i - (m - k)
    <3>1. j \in 1..n /\ (m - k) + j = i /\ k + i = m + j
      BY <1>1, <1>3, <2>3
    <3> HIDE DEF j
    <3>2. joined[i] = t[j]
      BY <1>2, <1>5, <3>1
    <3>3. st[k + i] = t[j]
      BY <1>1, <3>1
    <3> QED BY <2>1, <3>2, <3>3
  <2> QED BY <2>2, <2>3
<1>8. joined = behind
  BY <1>4, <1>5, <1>6, <1>7, SeqEqual
<1> QED
  BY <1>8 DEF joined, behind, rest, st, LeavesLater

\* The places of a text behind its k-th token: j-th place of After(text, k).
LEMMA EmptyLinesAfter ==
  ASSUME NEW text \in Seq(Tokens), NEW k \in 0..Len(text),
         NEW i \in 2..(Len(text) - k)
  PROVE  i \in EmptyLines(After(text, k)) <=> k + i \in EmptyLines(text)
<1> HIDE DEF Tokens
<1>1. After(text, k)[i] = text[k + i] /\ After(text, k)[i - 1] = text[k + (i - 1)]
  <2> DEFINE rest == After(text, k)
  <2>1. \A j \in 1..(Len(text) - k) : rest[j] = text[k + j]
    BY AfterIs
  <2> HIDE DEF rest
  <2>2. i \in 1..(Len(text) - k) /\ i - 1 \in 1..(Len(text) - k)
    OBVIOUS
  <2>3. rest[i] = text[k + i] /\ rest[i - 1] = text[k + (i - 1)]
    BY <2>1, <2>2
  <2> QED BY <2>3 DEF rest
<1>2. k + (i - 1) = (k + i) - 1 /\ Len(After(text, k)) = Len(text) - k
  BY AfterIs
<1>3. k + i \in 2..Len(text)
  OBVIOUS
<1> QED
  BY <1>1, <1>2, <1>3 DEF EmptyLines

LEMMA LastIs ==
  ASSUME NEW bound \in Nat, NEW places, places \subseteq 0..bound, places # {}
  PROVE  /\ Last(places) \in places
         /\ \A i \in places : i <= Last(places)
<1>1. PICK n \in places : \A m \in places : m <= n
  BY GreatestNatural
<1> QED
  BY <1>1 DEF Last

LEMMA LastEmptyLineIs ==
  ASSUME NEW text \in Seq(Tokens), EmptyLines(text) # {}
  PROVE  /\ LastEmptyLine(text) \in EmptyLines(text)
         /\ LastEmptyLine(text) \in 2..Len(text)
         /\ \A i \in EmptyLines(text) : i <= LastEmptyLine(text)
<1> HIDE DEF Tokens
<1>1. EmptyLines(text) \subseteq 2..Len(text)
  BY DEF EmptyLines
<1>2. Len(text) \in Nat /\ EmptyLines(text) \subseteq 0..Len(text)
  BY <1>1
<1> HIDE DEF EmptyLines
<1>3. /\ LastEmptyLine(text) \in EmptyLines(text)
      /\ \A i \in EmptyLines(text) : i <= LastEmptyLine(text)
  BY <1>2, LastIs DEF LastEmptyLine
<1> QED
  BY <1>1, <1>3

\* Where the last empty line is, if what follows a closed place has none.
LEMMA LastEmptyLineHere ==
  ASSUME NEW text \in Seq(Tokens), NEW k \in 0..Len(text), Closed(text, k),
         EmptyLines(After(text, k)) = {}, EmptyLines(text) # {}
  PROVE  /\ k # 0
         /\ LastEmptyLine(text) \in {k, k + 1}
         /\ LastEmptyLine(text) <= Len(text)
         /\ text[LastEmptyLine(text)] = NL
<1> DEFINE last == LastEmptyLine(text)
<1>1. last \in EmptyLines(text) /\ last \in 2..Len(text) /\ \A i \in EmptyLines(text) : i <= last
  BY LastEmptyLineIs
<1>2. k < last - 1 => FALSE
  <2>1. SUFFICES ASSUME k < last - 1 PROVE FALSE
    OBVIOUS
  <2> HIDE DEF Tokens
  <2>2. last - k \in 2..(Len(text) - k) /\ k + (last - k) = last
    BY <1>1, <2>1
  <2>3. last - k \in EmptyLines(After(text, k))
    <3> HIDE DEF last
    <3> QED BY <1>1, <2>2, EmptyLinesAfter DEF Tokens
  <2> QED
    BY <2>3
<1>3. k # 0
  <2> HIDE DEF last
  <2> QED BY <1>1, <1>2
<1>4. k \in EmptyLines(text)
  BY <1>3 DEF Closed
<1>5. k <= last
  BY <1>1, <1>4
<1>6. text[last] = NL
  BY <1>1 DEF EmptyLines
<1> HIDE DEF last, Tokens
<1>7. last = k \/ last = k + 1
  <2>1. last \in Nat /\ k \in Nat
    BY <1>1
  <2> QED BY <1>2, <1>5, <2>1
<1> QED
  BY <1>1, <1>3, <1>6, <1>7 DEF last

\* Where it is, if there is one behind the closed place.
LEMMA LastEmptyLineAfter ==
  ASSUME NEW text \in Seq(Tokens), NEW k \in 0..Len(text),
         EmptyLines(After(text, k)) # {}
  PROVE  /\ EmptyLines(text) # {}
         /\ LastEmptyLine(text) = k + LastEmptyLine(After(text, k))
<1> DEFINE rest == After(text, k)
           last == LastEmptyLine(rest)
<1>1. rest \in Seq(Tokens) /\ Len(rest) = Len(text) - k
  BY AfterIs
<1>2. last \in EmptyLines(rest) /\ last \in 2..Len(rest)
      /\ \A i \in EmptyLines(rest) : i <= last
  <2> HIDE DEF rest
  <2> QED BY <1>1, LastEmptyLineIs DEF rest
<1>3. last \in 2..(Len(text) - k)
  BY <1>1, <1>2
<1>4. k + last \in EmptyLines(text)
  <2> HIDE DEF last
  <2> QED BY <1>2, <1>3, EmptyLinesAfter
<1>5. LastEmptyLine(text) \in EmptyLines(text) /\ LastEmptyLine(text) \in 2..Len(text)
      /\ \A i \in EmptyLines(text) : i <= LastEmptyLine(text)
  BY <1>4, LastEmptyLineIs
<1> DEFINE there == LastEmptyLine(text)
<1>6. k + last <= there
  BY <1>4, <1>5
<1>7. there - k \in 2..(Len(text) - k) /\ k + (there - k) = there
  <2> HIDE DEF last, there, Tokens
  <2>1. there \in 2..Len(text)
    BY <1>5 DEF there
  <2> QED BY <1>3, <1>6, <2>1
<1>8. there - k \in EmptyLines(rest)
  <2> HIDE DEF there
  <2> QED BY <1>5, <1>7, EmptyLinesAfter DEF there
<1>9. there - k <= last
  BY <1>2, <1>8
<1> HIDE DEF last, there, rest, Tokens
<1>10. there = k + last
  <2>1. there \in Nat /\ last \in Nat /\ k \in Nat
    BY <1>3, <1>5 DEF there
  <2> QED BY <1>6, <1>9, <2>1
<1> QED
  BY <1>4, <1>10 DEF there, last, rest

-----------------------------------------------------------------------------
(* Texts and blocks that are put together *)

\* What is read later is normalized by itself.
LEMMA NormalizedConcat ==
  ASSUME NEW s \in Seq(Tokens), NEW t \in Seq(Tokens)
  PROVE  Normalized(s \o t) = Normalized(s) \o Normalized(t)
<1> HIDE DEF Tokens
<1> DEFINE st == s \o t
<1>0. /\ st \in Seq(Tokens) /\ Len(st) = Len(s) + Len(t)
      /\ \A i \in 1..Len(s) : st[i] = s[i]
      /\ \A i \in 1..Len(t) : st[Len(s) + i] = t[i]
  OBVIOUS
<1> HIDE DEF st
<1>1. Kept(st)[Len(s)] = Kept(s)[Len(s)]
  <2> DEFINE S == {i \in 0..Len(s) : Kept(st)[i] = Kept(s)[i]}
  <2>1. 0 \in S
    BY <1>0, KeptLoop
  <2>2. ASSUME NEW i \in 1..Len(s), i - 1 \in S PROVE i \in S
    <3>1. i \in 1..Len(st)
      BY <1>0
    <3>2. Kept(st)[i] = KeepToken(Kept(st)[i - 1], st[i])
      BY <1>0, <3>1, KeptLoop
    <3>3. Kept(s)[i] = KeepToken(Kept(s)[i - 1], s[i])
      BY KeptLoop
    <3> QED
      BY <1>0, <2>2, <3>2, <3>3
  <2>3. Len(s) \in S
    <3>1. Len(s) \in Nat
      OBVIOUS
    <3>2. 0..Len(s) \subseteq S
      <4> HIDE DEF S
      <4> QED BY <2>1, <2>2, <3>1, UpTo
    <3> QED BY <3>1, <3>2
  <2> QED
    BY <2>3
<1> DEFINE Goes(i) == Kept(st)[Len(s) + i] = Kept(s)[Len(s)] \o Kept(t)[i]
           R == {i \in 0..Len(t) : Goes(i)}
<1>2. 0 \in R
  <2>1. Kept(t)[0] = <<>> /\ Kept(s)[Len(s)] \in Seq(Tokens)
    <3>1. Len(s) \in 0..Len(s)
      OBVIOUS
    <3> QED BY <3>1, KeptLoop, KeptType
  <2>2. Kept(s)[Len(s)] \o <<>> = Kept(s)[Len(s)]
    BY <2>1
  <2>3. Goes(0)
    <3>1. Len(s) + 0 = Len(s)
      OBVIOUS
    <3> QED BY <1>1, <2>1, <2>2, <3>1
  <2>4. 0 \in 0..Len(t)
    OBVIOUS
  <2> HIDE DEF Goes
  <2> QED
    BY <2>3, <2>4
<1>3. ASSUME NEW i \in 1..Len(t), i - 1 \in R PROVE i \in R
  <2>1. Len(s) + i \in 1..Len(st) /\ (Len(s) + i) - 1 = Len(s) + (i - 1)
    BY <1>0
  <2>2. Kept(st)[Len(s) + i] = KeepToken(Kept(st)[Len(s) + (i - 1)], t[i])
    BY <1>0, <2>1, KeptLoop
  <2>3. Kept(t)[i] = KeepToken(Kept(t)[i - 1], t[i])
    BY KeptLoop
  <2>4. Kept(t)[i - 1] \in Seq(Tokens) /\ Kept(s)[Len(s)] \in Seq(Tokens) /\ t[i] \in Tokens
    <3>1. Len(s) \in 0..Len(s) /\ i - 1 \in 0..Len(t)
      OBVIOUS
    <3>2. t[i] \in Tokens
      OBVIOUS
    <3> QED BY <3>1, <3>2, KeptType
  <2> DEFINE old == Kept(s)[Len(s)]
             new == Kept(t)[i - 1]
             token == t[i]
  <2>5. KeepToken(old \o new, token) = old \o KeepToken(new, token)
    <3>1. AppendsLater(old, new, token)
      <4> HIDE DEF old, new, token
      <4> QED BY <2>4, ConcatAppend DEF old, new, token
    <3> QED
      BY <3>1 DEF KeepToken, AppendsLater
  <2>6. Kept(st)[Len(s) + (i - 1)] = old \o new
    BY <1>3
  <2>7. Goes(i)
    <3> HIDE DEF old, new, token
    <3> QED BY <2>2, <2>3, <2>5, <2>6 DEF old, new, token
  <2>8. i \in 0..Len(t)
    OBVIOUS
  <2> HIDE DEF Goes
  <2> QED
    BY <2>7, <2>8
<1>4. Len(t) \in R
  <2>1. Len(t) \in Nat
    OBVIOUS
  <2> HIDE DEF Goes
  <2>2. 0..Len(t) \subseteq R
    <3> HIDE DEF R
    <3> QED BY <1>2, <1>3, <2>1, UpTo
  <2> QED BY <2>1, <2>2
<1>5. Goes(Len(t))
  <2> HIDE DEF Goes
  <2> QED BY <1>4
<1> QED
  BY <1>0, <1>5 DEF Normalized, st

LEMMA NormalizedType ==
  ASSUME NEW text \in Seq(Tokens)
  PROVE  Normalized(text) \in Seq(Tokens)
<1> HIDE DEF Tokens
<1> QED
  BY KeptLoop DEF Normalized

\* Without "\r", nothing changes ...
LEMMA NormalizedSame ==
  ASSUME NEW text \in Seq(Tokens), \A i \in 1..Len(text) : text[i] # CR
  PROVE  Normalized(text) = text
<1> HIDE DEF Tokens
<1> DEFINE Same(i) == Kept(text)[i] = SubSeq(text, 1, i)
           S == {i \in 0..Len(text) : Same(i)}
<1>1. 0 \in S
  <2>1. Kept(text)[0] = <<>> /\ SubSeq(text, 1, 0) = <<>>
    BY KeptLoop
  <2>2. Same(0) /\ 0 \in 0..Len(text)
    BY <2>1
  <2> HIDE DEF Same
  <2> QED BY <2>2
<1>2. ASSUME NEW i \in 1..Len(text), i - 1 \in S PROVE i \in S
  <2>1. Kept(text)[i] = Append(SubSeq(text, 1, i - 1), text[i])
    BY <1>2, KeptLoop DEF KeepToken
  <2>2. Append(SubSeq(text, 1, i - 1), text[i]) = SubSeq(text, 1, i)
    OBVIOUS
  <2> QED
    BY <2>1, <2>2
<1>3. Len(text) \in S
  <2>1. Len(text) \in Nat
    OBVIOUS
  <2>2. 0..Len(text) \subseteq S
    <3> HIDE DEF S
    <3> QED BY <1>1, <1>2, <2>1, UpTo
  <2> QED BY <2>1, <2>2
<1>4. SubSeq(text, 1, Len(text)) = text
  OBVIOUS
<1> QED
  BY <1>3, <1>4 DEF Normalized

\* ... and none is left.
LEMMA NormalizedHasNone ==
  ASSUME NEW text \in Seq(Tokens)
  PROVE  \A i \in 1..Len(Normalized(text)) : Normalized(text)[i] # CR
<1> HIDE DEF Tokens
<1> DEFINE Clean(kept) == \A i \in 1..Len(kept) : kept[i] # CR
           S == {n \in 0..Len(text) : Clean(Kept(text)[n])}
<1>1. 0 \in S
  BY KeptLoop
<1>2. ASSUME NEW n \in 1..Len(text), n - 1 \in S PROVE n \in S
  <2> DEFINE kept == Kept(text)[n - 1]
             token == text[n]
  <2>1. Kept(text)[n] = KeepToken(kept, token) /\ kept \in Seq(Tokens) /\ token \in Tokens
    <3>1. n - 1 \in 0..Len(text) /\ token \in Tokens
      OBVIOUS
    <3>2. kept \in Seq(Tokens)
      BY <3>1, KeptType
    <3>3. Kept(text)[n] = KeepToken(kept, token)
      BY KeptLoop
    <3> QED BY <3>1, <3>2, <3>3
  <2>2. Clean(kept)
    BY <1>2
  <2> HIDE DEF kept, token
  <2>3. Clean(KeepToken(kept, token))
    BY <2>1, <2>2 DEF KeepToken
  <2> QED
    BY <2>1, <2>3
<1>3. Len(text) \in S
  <2>1. Len(text) \in Nat
    OBVIOUS
  <2>2. 0..Len(text) \subseteq S
    <3> HIDE DEF S
    <3> QED BY <1>1, <1>2, <2>1, UpTo
  <2> QED BY <2>1, <2>2
<1> QED
  BY <1>3 DEF Normalized

LEMMA ValuesType ==
  ASSUME NEW blocks \in Seq(Seq(Tokens)), NEW n \in 0..Len(blocks)
  PROVE  Values(blocks)[n] \in Seq(Contents)
<1> DEFINE S == Seq(Contents)
           f == Values(blocks)
<1>1. f \in [0..Len(blocks) -> S]
  BY ValuesLoop
<1> HIDE DEF S, f
<1>2. f[n] \in S
  BY <1>1
<1> QED
  BY <1>2 DEF S, f

AddsLater(old, new, block) == AddValues(old \o new, block) = old \o AddValues(new, block)

LEMMA AddValuesLater ==
  ASSUME NEW old \in Seq(Contents), NEW new \in Seq(Contents), NEW block \in Seq(Tokens)
  PROVE  AddsLater(old, new, block)
<1> DEFINE more == ParseSseBlock(block)
<1>1. more \in Seq(Contents)
  BY ParseSseBlockType
<1> HIDE DEF more, Contents, Tokens
<1>2. (old \o new) \o more = old \o (new \o more)
  BY <1>1
<1> QED
  BY <1>2 DEF AddsLater, AddValues, more

\* The values of blocks that follow others come behind those of the others.
LEMMA ValuesConcat ==
  ASSUME NEW s \in Seq(Seq(Tokens)), NEW t \in Seq(Seq(Tokens)), NEW n \in 0..Len(t)
  PROVE  Values(s \o t)[Len(s) + n] = Values(s)[Len(s)] \o Values(t)[n]
<1> DEFINE Block == Seq(Tokens)
           st == s \o t
<1>a. s \in Seq(Block) /\ t \in Seq(Block)
  OBVIOUS
<1>b. /\ st \in Seq(Block) /\ Len(st) = Len(s) + Len(t)
      /\ \A i \in 1..Len(s) : st[i] = s[i]
      /\ \A i \in 1..Len(t) : st[Len(s) + i] = t[i]
  <2> HIDE DEF Block
  <2> QED BY <1>a
<1>c. st \in Seq(Seq(Tokens))
  BY <1>b
<1>d. Len(s) \in Nat /\ Len(t) \in Nat
  <2> HIDE DEF Block
  <2> QED BY <1>a
<1> HIDE DEF st, Block, Tokens, Contents
<1>1. Values(st)[Len(s)] = Values(s)[Len(s)]
  <2> DEFINE Same(i) == Values(st)[i] = Values(s)[i]
             S == {i \in 0..Len(s) : Same(i)}
  <2>1. 0 \in S
    <3>1. Values(st)[0] = <<>> /\ Values(s)[0] = <<>>
      BY <1>c, ValuesLoop
    <3>2. Same(0) /\ 0 \in 0..Len(s)
      BY <3>1, <1>d
    <3> HIDE DEF Same
    <3> QED BY <3>2
  <2>2. ASSUME NEW i \in 1..Len(s), i - 1 \in S PROVE i \in S
    <3>1. i \in 1..Len(st) /\ i \in 0..Len(s)
      BY <1>b, <1>d
    <3>2. Values(st)[i] = AddValues(Values(st)[i - 1], st[i])
      BY <1>c, <3>1, ValuesLoop
    <3>3. Values(s)[i] = AddValues(Values(s)[i - 1], s[i])
      BY ValuesLoop
    <3>4. Same(i - 1) /\ st[i] = s[i]
      BY <2>2, <1>b
    <3>5. Same(i)
      BY <3>2, <3>3, <3>4
    <3> HIDE DEF Same
    <3> QED
      BY <3>1, <3>5
  <2>3. 0..Len(s) \subseteq S
    <3> HIDE DEF S
    <3> QED BY <2>1, <2>2, <1>d, UpTo
  <2>4. Same(Len(s))
    <3> HIDE DEF Same
    <3> QED BY <2>3, <1>d
  <2> QED
    BY <2>4
<1>2. Values(s)[Len(s)] \in Seq(Contents)
  <2>1. Len(s) \in 0..Len(s)
    BY <1>d
  <2> QED BY <2>1, ValuesType
<1> DEFINE old == Values(s)[Len(s)]
           Goes(i) == Values(st)[Len(s) + i] = old \o Values(t)[i]
           R == {i \in 0..Len(t) : Goes(i)}
<1>3. 0 \in R
  <2>1. Values(t)[0] = <<>>
    BY ValuesLoop
  <2>2. old \o <<>> = old
    BY <1>2
  <2>3. Goes(0)
    <3>1. Len(s) + 0 = Len(s)
      BY <1>d
    <3> QED BY <1>1, <2>1, <2>2, <3>1
  <2>4. 0 \in 0..Len(t)
    BY <1>d
  <2> HIDE DEF Goes
  <2> QED
    BY <2>3, <2>4
<1>4. ASSUME NEW i \in 1..Len(t), i - 1 \in R PROVE i \in R
  <2> DEFINE new == Values(t)[i - 1]
  <2>1. /\ Len(s) + i \in 1..Len(st) /\ (Len(s) + i) - 1 = Len(s) + (i - 1)
        /\ i \in 0..Len(t) /\ i - 1 \in 0..Len(t)
    BY <1>b, <1>d
  <2>2. Values(st)[Len(s) + i] = AddValues(Values(st)[Len(s) + (i - 1)], t[i])
    BY <1>b, <1>c, <2>1, ValuesLoop
  <2>3. Values(t)[i] = AddValues(new, t[i])
    BY ValuesLoop
  <2>4. new \in Seq(Contents)
    BY <2>1, ValuesType
  <2>5. t[i] \in Seq(Tokens)
    <3>1. t[i] \in Block
      BY <1>a
    <3> QED BY <3>1 DEF Block
  <2>6. AddsLater(old, new, t[i])
    <3> HIDE DEF old, new
    <3> QED BY <1>2, <2>4, <2>5, AddValuesLater DEF old
  <2>7. Goes(i - 1)
    BY <1>4
  <2>8. Goes(i)
    <3> HIDE DEF old
    <3> QED BY <2>2, <2>3, <2>6, <2>7 DEF AddsLater
  <2> HIDE DEF Goes
  <2> QED
    BY <2>1, <2>8
<1>5. 0..Len(t) \subseteq R
  <2> HIDE DEF R
  <2> QED BY <1>3, <1>4, <1>d, UpTo
<1>6. Goes(n)
  <2> HIDE DEF Goes
  <2> QED BY <1>5
<1> QED
  BY <1>6 DEF st

\* Where the end of the stream is among blocks that follow others.
LEMMA CompleteIs ==
  ASSUME NEW blocks \in Seq(Seq(Tokens))
  PROVE  /\ Complete(blocks) \in 1..(Len(blocks) + 1)
         /\ \A i \in 1..Len(blocks) : i < Complete(blocks) => ~ IsComplete(blocks[i])
         /\ Complete(blocks) <= Len(blocks) => IsComplete(blocks[Complete(blocks)])
<1> DEFINE Block == Seq(Tokens)
           ends == {i \in DOMAIN blocks : IsComplete(blocks[i])}
<1>0. blocks \in Seq(Block)
  OBVIOUS
<1> HIDE DEF Block
<1>1. Len(blocks) \in Nat /\ DOMAIN blocks = 1..Len(blocks)
  BY <1>0
<1>2. CASE ends = {}
  <2>1. Complete(blocks) = Len(blocks) + 1
    BY <1>2 DEF Complete
  <2> QED
    BY <1>1, <1>2, <2>1
<1>3. CASE ends # {}
  <2>1. ends \subseteq 1..Len(blocks) /\ ends \subseteq Nat
    BY <1>1
  <2>2. Complete(blocks) = First(ends)
    BY <1>3 DEF Complete
  <2>3. First(ends) \in ends /\ \A i \in ends : First(ends) <= i
    <3> HIDE DEF ends
    <3> QED BY <1>3, <2>1, FirstIs
  <2>4. Complete(blocks) \in 1..Len(blocks) /\ IsComplete(blocks[Complete(blocks)])
    BY <2>1, <2>2, <2>3
  <2>5. ASSUME NEW i \in 1..Len(blocks), i < Complete(blocks), IsComplete(blocks[i])
        PROVE  FALSE
    <3>1. i \in ends
      BY <1>1, <2>5
    <3>2. Complete(blocks) <= i /\ Complete(blocks) \in Nat
      BY <2>2, <2>3, <2>4, <3>1
    <3> QED BY <2>5, <3>2
  <2> QED
    BY <1>1, <2>4, <2>5
<1> QED
  BY <1>2, <1>3

LEMMA CompleteConcat ==
  ASSUME NEW s \in Seq(Seq(Tokens)), NEW t \in Seq(Seq(Tokens)), Complete(s) > Len(s)
  PROVE  Complete(s \o t) = Len(s) + Complete(t)
<1> DEFINE Block == Seq(Tokens)
           st == s \o t
<1>1. s \in Seq(Block) /\ t \in Seq(Block)
  OBVIOUS
<1>2. /\ st \in Seq(Block) /\ Len(st) = Len(s) + Len(t)
      /\ \A i \in 1..Len(s) : st[i] = s[i]
      /\ \A i \in 1..Len(t) : st[Len(s) + i] = t[i]
      /\ Len(s) \in Nat /\ Len(t) \in Nat
  <2> HIDE DEF Block
  <2> QED BY <1>1
<1>3. /\ Complete(st) \in 1..(Len(st) + 1)
      /\ \A i \in 1..Len(st) : i < Complete(st) => ~ IsComplete(st[i])
      /\ Complete(st) <= Len(st) => IsComplete(st[Complete(st)])
  <2>1. st \in Seq(Seq(Tokens))
    BY <1>2
  <2> HIDE DEF st
  <2> QED BY <2>1, CompleteIs
<1>4. /\ Complete(t) \in 1..(Len(t) + 1)
      /\ \A i \in 1..Len(t) : i < Complete(t) => ~ IsComplete(t[i])
      /\ Complete(t) <= Len(t) => IsComplete(t[Complete(t)])
  BY CompleteIs
<1>5. \A i \in 1..Len(s) : ~ IsComplete(s[i])
  <2>1. \A i \in 1..Len(s) : i < Complete(s) => ~ IsComplete(s[i])
    BY CompleteIs
  <2>2. Complete(s) \in Nat
    BY CompleteIs, <1>2
  <2> QED BY <1>2, <2>1, <2>2
<1> DEFINE at == Complete(st)
           here == Complete(t)
<1> HIDE DEF st, Block, Tokens, at, here
<1>6. at > Len(s)
  <2> SUFFICES ASSUME at <= Len(s) PROVE FALSE
    BY <1>2, <1>3 DEF at
  <2>1. at \in 1..Len(s) /\ at <= Len(st)
    BY <1>2, <1>3 DEF at
  <2>2. IsComplete(st[at]) /\ st[at] = s[at]
    BY <1>2, <1>3, <2>1 DEF at
  <2> QED
    BY <1>5, <2>1, <2>2
<1>7. ~ (at < Len(s) + here)
  <2> SUFFICES ASSUME at < Len(s) + here PROVE FALSE
    OBVIOUS
  <2>0. at \in Nat /\ here \in 1..(Len(t) + 1)
    BY <1>2, <1>3, <1>4 DEF at, here
  <2>1. at - Len(s) \in 1..Len(t) /\ at - Len(s) < here /\ at <= Len(st)
        /\ Len(s) + (at - Len(s)) = at
    BY <1>2, <1>6, <2>0
  <2>2. IsComplete(st[at])
    BY <1>3, <2>1 DEF at
  <2>3. st[at] = t[at - Len(s)]
    BY <1>2, <2>1
  <2>4. ~ IsComplete(t[at - Len(s)])
    BY <1>4, <2>1 DEF here
  <2> QED
    BY <2>2, <2>3, <2>4
<1>8. ~ (Len(s) + here < at)
  <2> SUFFICES ASSUME Len(s) + here < at PROVE FALSE
    OBVIOUS
  <2>0. at \in 1..(Len(st) + 1) /\ here \in 1..(Len(t) + 1)
    BY <1>3, <1>4 DEF at, here
  <2>1. here \in 1..Len(t) /\ Len(s) + here \in 1..Len(st)
    BY <1>2, <2>0
  <2>2. IsComplete(t[here])
    BY <1>4, <2>1 DEF here
  <2>3. ~ IsComplete(st[Len(s) + here])
    BY <1>3, <2>1 DEF at
  <2> QED
    BY <1>2, <2>1, <2>2, <2>3
<1>9. at = Len(s) + here
  <2> DEFINE n == Len(s)
  <2>1. at \in Nat /\ here \in Nat /\ n \in Nat
    BY <1>2, <1>3, <1>4 DEF at, here
  <2>2. ~ (at < n + here) /\ ~ (n + here < at)
    BY <1>7, <1>8
  <2> HIDE DEF n
  <2>3. at = n + here
    BY <2>1, <2>2
  <2> QED BY <2>3 DEF n
<1> QED
  BY <1>9 DEF at, here, st

-----------------------------------------------------------------------------
(* What is parsed when the text comes in two parts *)

\* "rest" is what the parser left of the text that it was given so far, without
\* having come to the end of the stream.
Parsed(text, rest) ==
  \E k \in 0..Len(text) :
    /\ Closed(text, k)
    /\ rest = After(text, k)
    /\ EmptyLines(rest) = {}
    /\ Complete(Scan(text)[k].blocks) > Len(Scan(text)[k].blocks)

LEMMA ParsedType ==
  ASSUME NEW text \in Seq(Tokens), NEW rest, Parsed(text, rest)
  PROVE  rest \in Seq(Tokens)
BY AfterIs DEF Parsed

LEMMA ScanBlocks ==
  ASSUME NEW text \in Seq(Tokens), NEW n \in 0..Len(text)
  PROVE  /\ Scan(text)[n].blocks \in Seq(Seq(Tokens))
         /\ Blocks(SubSeq(text, 1, n)) = Scan(text)[n].blocks
<1> HIDE DEF Tokens
<1> DEFINE part == SubSeq(text, 1, n)
<1>1. part \in Seq(Tokens) /\ Len(part) = n /\ \A i \in 1..n : part[i] = text[i]
  OBVIOUS
<1>2. n <= Len(part) /\ n <= Len(text) /\ n \in Nat /\ n \in 0..n
  BY <1>1
<1> HIDE DEF part
<1>3. \A i \in 0..n : Scan(part)[i] = Scan(text)[i]
  BY <1>1, <1>2, ScanAgrees
<1>4. Blocks(part) = Scan(text)[n].blocks
  BY <1>1, <1>2, <1>3 DEF Blocks
<1>5. Scan(text)[n] \in Scanned
  BY ScanLoop
<1> QED
  BY <1>4, <1>5 DEF part, Scanned

\* The fields of what ParseSseEvents returns.
LEMMA ParseQuiet ==
  ASSUME NEW input, EmptyLines(Normalized(input)) = {}
  PROVE  /\ ParseSseEvents(input).results = <<>>
         /\ ParseSseEvents(input).remaining = Normalized(input)
         /\ ~ ParseSseEvents(input).completed
BY DEF ParseSseEvents

ParsesTo(input, text, last, blocks) ==
  /\ ParseSseEvents(input).results = Values(blocks)[Complete(blocks) - 1]
  /\ ParseSseEvents(input).remaining = After(text, last)
  /\ ParseSseEvents(input).completed <=> Complete(blocks) <= Len(blocks)

LEMMA ParseLoud ==
  ASSUME NEW input, NEW text, text = Normalized(input), text \in Seq(Tokens),
         EmptyLines(text) # {}
  PROVE  ParsesTo(input, text, LastEmptyLine(text),
                  Scan(text)[LastEmptyLine(text)].blocks)
<1> DEFINE last == LastEmptyLine(text)
           blocks == Scan(text)[last].blocks
<1>1. last \in 0..Len(text)
  BY LastEmptyLineIs
<1>2. Blocks(SubSeq(text, 1, last)) = blocks
  <2> HIDE DEF last
  <2> QED BY <1>1, ScanBlocks
<1> HIDE DEF blocks, Tokens
<1>3. /\ ParseSseEvents(input).results = Values(blocks)[Complete(blocks) - 1]
      /\ ParseSseEvents(input).remaining = SubSeq(text, last + 1, Len(text))
      /\ ParseSseEvents(input).completed <=> Complete(blocks) <= Len(blocks)
  BY <1>2 DEF ParseSseEvents
<1> QED
  BY <1>3 DEF ParsesTo, After, blocks

\* Nothing new behind a closed place: the values are those of the blocks so far.
LEMMA QuietAfter ==
  ASSUME NEW input, NEW text, text = Normalized(input), text \in Seq(Tokens),
         NEW k \in 0..Len(text), Closed(text, k), EmptyLines(After(text, k)) = {},
         NEW blocks, blocks = Scan(text)[k].blocks, Complete(blocks) > Len(blocks)
  PROVE  /\ ParseSseEvents(input).results = Values(blocks)[Len(blocks)]
         /\ ~ ParseSseEvents(input).completed
<1> DEFINE last == LastEmptyLine(text)
<1>0. blocks \in Seq(Seq(Tokens))
  BY ScanBlocks
<1>1. Complete(blocks) \in 1..(Len(blocks) + 1) /\ Len(blocks) \in Nat
  BY <1>0, CompleteIs
<1>2. Complete(blocks) - 1 = Len(blocks) /\ ~ (Complete(blocks) <= Len(blocks))
  BY <1>1
<1>3. CASE EmptyLines(text) = {}
  <2>1. k = 0
    BY <1>3 DEF Closed
  <2>2. blocks = <<>>
    BY <2>1, ScanLoop DEF NoBlocks
  <2>3. Values(blocks)[Len(blocks)] = <<>>
    <3>1. Len(blocks) = 0
      BY <2>2
    <3> QED BY <1>0, <3>1, ValuesLoop
  <2>4. EmptyLines(Normalized(input)) = {}
    BY <1>3
  <2> QED
    BY <2>3, <2>4, ParseQuiet
<1>4. CASE EmptyLines(text) # {}
  <2>1. k # 0 /\ last \in {k, k + 1} /\ last <= Len(text) /\ text[last] = NL
    BY <1>4, LastEmptyLineHere
  <2>2. Scan(text)[last].blocks = blocks
    <3>1. CASE last = k
      BY <3>1
    <3>2. CASE last = k + 1
      <4>1. last \in 1..Len(text) /\ last - 1 = k
        BY <2>1, <3>2
      <4>2. Scan(text)[last] = AddToken(Scan(text)[k], NL)
        <5> HIDE DEF last, Tokens
        <5> QED BY <2>1, <4>1, ScanLoop DEF Tokens
      <4>3. Scan(text)[k] = Behind(blocks, NoBlocks)
        BY ClosedScan
      <4>4. blocks \o <<>> = blocks
        <5> DEFINE B == Seq(Tokens)
        <5>1. blocks \in Seq(B)
          BY <1>0
        <5> HIDE DEF B
        <5> QED BY <5>1
      <4>5. AddToken(Behind(blocks, NoBlocks), NL).blocks = blocks
        BY <4>4 DEF AddToken, Behind, NoBlocks
      <4> QED
        BY <4>2, <4>3, <4>5
    <3> QED
      BY <2>1, <3>1, <3>2
  <2>3. ParsesTo(input, text, last, blocks)
    <3>1. ParsesTo(input, text, last, Scan(text)[last].blocks)
      BY <1>4, ParseLoud
    <3> QED BY <2>2, <3>1
  <2> QED
    BY <1>2, <2>3 DEF ParsesTo
<1> QED
  BY <1>3, <1>4

\* What is parsed of the whole text, if that of its last part comes after "values".
GoesOn(whole, values, part, text) ==
  /\ whole.results = values \o part.results
  /\ whole.completed <=> part.completed
  /\ ~ part.completed => Parsed(text, part.remaining)

\* Something new behind a closed place: the same as if the text began there.
LEMMA LoudAfter ==
  ASSUME NEW input, NEW text, text = Normalized(input), text \in Seq(Tokens),
         NEW k \in 0..Len(text), Closed(text, k),
         NEW blocks, blocks = Scan(text)[k].blocks, Complete(blocks) > Len(blocks),
         NEW later, Normalized(later) = After(text, k), EmptyLines(After(text, k)) # {}
  PROVE  GoesOn(ParseSseEvents(input), Values(blocks)[Len(blocks)],
                ParseSseEvents(later), text)
<1> DEFINE rest == After(text, k)
           last == LastEmptyLine(rest)
           more == Scan(rest)[last].blocks
           whole == ParseSseEvents(input)
           part == ParseSseEvents(later)
           Block == Seq(Tokens)
<1>1. rest \in Seq(Tokens) /\ Len(rest) = Len(text) - k
  BY AfterIs
<1>2. last \in EmptyLines(rest) /\ last \in 2..Len(rest)
      /\ \A i \in EmptyLines(rest) : i <= last
  <2> HIDE DEF rest
  <2> QED BY <1>1, LastEmptyLineIs DEF rest
<1>3. EmptyLines(text) # {} /\ LastEmptyLine(text) = k + last
  BY LastEmptyLineAfter
<1>4. last \in 0..(Len(text) - k) /\ last \in 0..Len(rest) /\ k + last \in 0..Len(text)
      /\ last \in 2..(Len(text) - k)
  <2> HIDE DEF last, rest, Tokens
  <2> QED BY <1>1, <1>2
<1>5. Scan(text)[k + last] = Behind(blocks, Scan(rest)[last])
  <2> HIDE DEF last
  <2> QED BY <1>4, ScanAfter
<1>6. blocks \in Seq(Block) /\ more \in Seq(Block)
  <2>1. blocks \in Seq(Seq(Tokens))
    BY ScanBlocks
  <2>2. more \in Seq(Seq(Tokens))
    <3> HIDE DEF last, rest
    <3> QED BY <1>1, <1>4, ScanBlocks
  <2> QED BY <2>1, <2>2
<1>7. Scan(text)[k + last].blocks = blocks \o more
  <2>1. \A acc : Behind(blocks, acc).blocks = blocks \o acc.blocks
    BY DEF Behind
  <2>2. Behind(blocks, Scan(rest)[last]).blocks = blocks \o Scan(rest)[last].blocks
    <3> HIDE DEF rest, last
    <3> QED BY <2>1
  <2> QED
    BY <1>5, <2>2
<1>8. ParsesTo(input, text, k + last, blocks \o more)
  <2>1. ParsesTo(input, text, LastEmptyLine(text), Scan(text)[LastEmptyLine(text)].blocks)
    BY <1>3, ParseLoud
  <2> QED BY <1>3, <1>7, <2>1
<1>9. ParsesTo(later, rest, last, more)
  <2> HIDE DEF rest
  <2> QED BY <1>1, ParseLoud DEF rest
<1>10. /\ Complete(more) \in 1..(Len(more) + 1)
       /\ Complete(blocks \o more) = Len(blocks) + Complete(more)
       /\ Len(blocks) \in Nat /\ Len(more) \in Nat
       /\ Len(blocks \o more) = Len(blocks) + Len(more)
  <2>1. blocks \in Seq(Seq(Tokens)) /\ more \in Seq(Seq(Tokens))
    BY <1>6
  <2>2. /\ Len(blocks) \in Nat /\ Len(more) \in Nat
        /\ Len(blocks \o more) = Len(blocks) + Len(more)
    <3> HIDE DEF Block, more
    <3> QED BY <1>6
  <2> HIDE DEF more
  <2>3. Complete(more) \in 1..(Len(more) + 1)
    BY <2>1, CompleteIs
  <2>4. Complete(blocks \o more) = Len(blocks) + Complete(more)
    BY <2>1, CompleteConcat
  <2> QED BY <2>2, <2>3, <2>4
<1> DEFINE n == Complete(more) - 1
           all == blocks \o more
<1>11. n \in 0..Len(more) /\ Complete(all) - 1 = Len(blocks) + n
  <2> DEFINE a == Complete(more)
             b == Complete(all)
             l == Len(blocks)
             m == Len(more)
  <2>1. a \in 1..(m + 1) /\ b = l + a /\ l \in Nat /\ m \in Nat
    BY <1>10
  <2> HIDE DEF a, b, l, m
  <2>2. a - 1 \in 0..m /\ b - 1 = l + (a - 1)
    BY <2>1
  <2> QED BY <2>2 DEF a, b, l, m
<1>12. Values(all)[Len(blocks) + n] = Values(blocks)[Len(blocks)] \o Values(more)[n]
  <2>1. blocks \in Seq(Seq(Tokens)) /\ more \in Seq(Seq(Tokens))
    BY <1>6
  <2> HIDE DEF more, n
  <2> QED BY <1>11, <2>1, ValuesConcat
<1>13. whole.results = Values(blocks)[Len(blocks)] \o part.results
  <2>1. whole.results = Values(all)[Complete(all) - 1]
    BY <1>8 DEF ParsesTo
  <2>2. part.results = Values(more)[n]
    BY <1>9 DEF ParsesTo
  <2> HIDE DEF whole, part, all, more, n
  <2> QED BY <1>11, <1>12, <2>1, <2>2
<1>14. (Complete(all) <= Len(all)) <=> (Complete(more) <= Len(more))
  <2> DEFINE a == Complete(more)
             b == Complete(all)
             l == Len(blocks)
             m == Len(more)
             s == Len(all)
  <2>1. a \in 1..(m + 1) /\ b = l + a /\ l \in Nat /\ m \in Nat /\ s = l + m
    BY <1>10
  <2> HIDE DEF a, b, l, m, s
  <2>2. (b <= s) <=> (a <= m)
    BY <2>1
  <2> QED BY <2>2 DEF a, b, l, m, s
<1>15. whole.completed <=> part.completed
  <2>1. whole.completed <=> Complete(all) <= Len(all)
    BY <1>8 DEF ParsesTo
  <2>2. part.completed <=> Complete(more) <= Len(more)
    BY <1>9 DEF ParsesTo
  <2> QED BY <1>14, <2>1, <2>2
<1>16. ASSUME ~ part.completed PROVE Parsed(text, part.remaining)
  <2> DEFINE place == k + last
  <2>1. place \in 0..Len(text) /\ Closed(text, place)
    <3>1. last \in 2..(Len(text) - k) /\ last \in EmptyLines(After(text, k))
      BY <1>2, <1>4
    <3>2. k + last \in EmptyLines(text)
      <4> HIDE DEF last
      <4> QED BY <3>1, EmptyLinesAfter
    <3> QED BY <1>4, <3>2 DEF Closed
  <2>2. part.remaining = After(rest, last)
    BY <1>9 DEF ParsesTo
  <2>3. After(rest, last) = After(text, place)
    <3> HIDE DEF last, Tokens
    <3>1. last \in 0..(Len(text) - k) /\ k \in 0..Len(text)
      BY <1>4
    <3> QED
      BY <3>1 DEF After
  <2>4. EmptyLines(After(rest, last)) = {}
    <3> SUFFICES ASSUME NEW i \in EmptyLines(After(rest, last)) PROVE FALSE
      OBVIOUS
    <3>1. Len(After(rest, last)) = Len(rest) - last
      <4> HIDE DEF last, rest
      <4> QED BY <1>1, <1>4, AfterIs
    <3>2. i \in 2..(Len(rest) - last)
      BY <3>1 DEF EmptyLines
    <3>3. last + i \in EmptyLines(rest)
      <4> HIDE DEF last, rest
      <4> QED BY <1>1, <1>4, <3>2, EmptyLinesAfter
    <3>4. last + i <= last
      BY <1>2, <3>3
    <3> HIDE DEF last, rest, Tokens
    <3>5. last \in Nat /\ i \in Nat /\ i >= 2
      BY <1>4, <3>2
    <3> QED BY <3>4, <3>5
  <2>5. Scan(text)[place].blocks = all
    BY <1>7
  <2>6. Complete(all) > Len(all)
    <3>1. part.completed <=> Complete(more) <= Len(more)
      BY <1>9 DEF ParsesTo
    <3>2. ~ (Complete(all) <= Len(all))
      BY <1>14, <1>16, <3>1
    <3> DEFINE b == Complete(all)
               s == Len(all)
    <3>3. b \in Int /\ s \in Int
      BY <1>10
    <3> HIDE DEF b, s
    <3>4. ~ (b <= s) => b > s
      BY <3>3
    <3> QED BY <3>2, <3>4 DEF b, s
  <2> HIDE DEF place, part, all, rest, last
  <2> QED
    BY <2>1, <2>2, <2>3, <2>4, <2>5, <2>6 DEF Parsed
<1> QED
  BY <1>13, <1>15, <1>16 DEF GoesOn

\* The parser makes the same of a text, whether it gets it at once or in two
\* parts, of which it keeps what it left of the first in front of the second.
THEOREM PartsAreParsedAsTheWhole ==
  ASSUME NEW text \in Seq(Tokens), NEW chunk \in Seq(Tokens),
         NEW rest, Parsed(Normalized(text), rest)
  PROVE  /\ ~ ParseSseEvents(text).completed
         /\ GoesOn(ParseSseEvents(text \o chunk), ParseSseEvents(text).results,
                   ParseSseEvents(rest \o chunk), Normalized(text \o chunk))
<1> DEFINE old == Normalized(text)
           new == Normalized(text \o chunk)
           added == Normalized(chunk)
           before == ParseSseEvents(text)
           whole == ParseSseEvents(text \o chunk)
           part == ParseSseEvents(rest \o chunk)
<1>1. old \in Seq(Tokens) /\ added \in Seq(Tokens)
  BY NormalizedType
<1>2. new = old \o added
  BY NormalizedConcat
<1>3. PICK k \in 0..Len(old) :
        /\ Closed(old, k)
        /\ rest = After(old, k)
        /\ EmptyLines(rest) = {}
        /\ Complete(Scan(old)[k].blocks) > Len(Scan(old)[k].blocks)
  BY DEF Parsed
<1> DEFINE blocks == Scan(old)[k].blocks
           behind == After(new, k)
<1>4. \A i \in 1..Len(old) : old[i] # CR
  BY NormalizedHasNone
<1> HIDE DEF old, added
<1>5. new \in Seq(Tokens) /\ Len(new) = Len(old) + Len(added)
      /\ (\A i \in 1..Len(old) : new[i] = old[i])
      /\ Len(old) \in Nat /\ Len(added) \in Nat
  <2> HIDE DEF new, Tokens
  <2> QED BY <1>1, <1>2
<1> HIDE DEF new
<1>6. k \in 0..Len(new)
  <2> HIDE DEF Tokens
  <2> QED BY <1>5
<1>7. Closed(new, k)
  <2>1. CASE k = 0
    BY <2>1 DEF Closed
  <2>2. CASE k \in EmptyLines(old)
    <3> HIDE DEF Tokens
    <3>1. k \in 2..Len(old) /\ old[k] = NL /\ old[k - 1] = NL
      BY <2>2 DEF EmptyLines
    <3>2. k \in 2..Len(new) /\ k \in 1..Len(old) /\ k - 1 \in 1..Len(old)
      BY <1>5, <3>1
    <3>3. k \in EmptyLines(new)
      BY <1>5, <3>1, <3>2 DEF EmptyLines
    <3> QED BY <3>3 DEF Closed
  <2> QED
    BY <1>3, <2>1, <2>2 DEF Closed
<1>8. Scan(new)[k] = Scan(old)[k]
  <2>1. Len(old) <= Len(old) /\ Len(old) <= Len(new) /\ Len(old) \in Nat
    <3> HIDE DEF Tokens
    <3> QED BY <1>5
  <2>2. \A i \in 0..Len(old) : Scan(new)[i] = Scan(old)[i]
    BY <1>1, <1>5, <2>1, ScanAgrees
  <2> QED
    BY <2>2
<1>9. rest \in Seq(Tokens) /\ \A i \in 1..Len(rest) : rest[i] # CR
  <2>1. /\ rest \in Seq(Tokens) /\ Len(rest) = Len(old) - k
        /\ \A i \in 1..(Len(old) - k) : rest[i] = old[k + i]
    BY <1>1, <1>3, AfterIs
  <2>2. ASSUME NEW i \in 1..Len(rest) PROVE rest[i] # CR
    <3> HIDE DEF Tokens
    <3>1. i \in 1..(Len(old) - k) /\ k + i \in 1..Len(old)
      BY <1>5, <2>1
    <3> QED BY <1>4, <2>1, <3>1
  <2> QED BY <2>1, <2>2
<1>10. Normalized(rest \o chunk) = behind
  <2>1. Normalized(rest \o chunk) = Normalized(rest) \o added
    BY <1>9, NormalizedConcat DEF added
  <2>2. Normalized(rest) = rest
    BY <1>9, NormalizedSame
  <2>3. rest \o added = behind
    <3> HIDE DEF Tokens
    <3>1. LeavesLater(old, added, k)
      BY <1>1, AfterConcat
    <3> QED
      BY <1>2, <1>3, <3>1 DEF LeavesLater
  <2> QED
    BY <2>1, <2>2, <2>3
<1>11. before.results = Values(blocks)[Len(blocks)] /\ ~ before.completed
  <2> HIDE DEF blocks
  <2>1. old = Normalized(text) /\ EmptyLines(After(old, k)) = {}
    BY <1>3 DEF old
  <2> QED BY <1>1, <1>3, <2>1, QuietAfter DEF blocks
<1>12. /\ new = Normalized(text \o chunk) /\ blocks = Scan(new)[k].blocks
       /\ Complete(blocks) > Len(blocks)
  BY <1>3, <1>8 DEF new
<1>13. CASE EmptyLines(behind) = {}
  <2>1. whole.results = Values(blocks)[Len(blocks)] /\ ~ whole.completed
    <3> HIDE DEF blocks
    <3> QED BY <1>5, <1>6, <1>7, <1>12, <1>13, QuietAfter
  <2>2. EmptyLines(Normalized(rest \o chunk)) = {}
    BY <1>10, <1>13
  <2>3. part.results = <<>> /\ part.remaining = behind /\ ~ part.completed
    BY <1>10, <2>2, ParseQuiet
  <2>4. Values(blocks)[Len(blocks)] \o <<>> = Values(blocks)[Len(blocks)]
    <3>1. blocks \in Seq(Seq(Tokens))
      BY <1>1, ScanBlocks
    <3> DEFINE B == Seq(Tokens)
    <3>2. blocks \in Seq(B)
      BY <3>1
    <3>3. Len(blocks) \in 0..Len(blocks)
      <4> HIDE DEF B, blocks
      <4> QED BY <3>2
    <3> HIDE DEF blocks
    <3>4. Values(blocks)[Len(blocks)] \in Seq(Contents)
      BY <3>1, <3>3, ValuesType
    <3> QED BY <3>4
  <2>5. Parsed(new, behind)
    BY <1>6, <1>7, <1>12, <1>13 DEF Parsed
  <2>6. whole.results = before.results \o part.results
    BY <1>11, <2>1, <2>3, <2>4
  <2>7. whole.completed <=> part.completed
    BY <2>1, <2>3
  <2> QED
    BY <1>11, <2>3, <2>5, <2>6, <2>7 DEF new, GoesOn
<1>14. CASE EmptyLines(behind) # {}
  <2>1. /\ whole.results = Values(blocks)[Len(blocks)] \o part.results
        /\ whole.completed <=> part.completed
        /\ ~ part.completed => Parsed(new, part.remaining)
    <3> DEFINE values == Values(blocks)[Len(blocks)]
    <3>1. GoesOn(whole, values, part, new)
      <4> HIDE DEF blocks
      <4> QED BY <1>5, <1>6, <1>7, <1>10, <1>12, <1>14, LoudAfter
    <3> QED BY <3>1 DEF GoesOn
  <2> QED
    BY <1>11, <2>1 DEF new, GoesOn
<1> QED
  BY <1>13, <1>14

LEMMA ParseNothing ==
  /\ Parsed(Normalized(<<>>), <<>>)
  /\ ParseSseEvents(<<>>).results = <<>>
<1> DEFINE none == <<>>
<1>1. none \in Seq(Tokens) /\ Len(none) = 0 /\ none \in Seq(Seq(Tokens))
  OBVIOUS
<1>2. Normalized(none) = none
  <2>1. \A i \in 1..Len(none) : none[i] # CR
    BY <1>1
  <2> HIDE DEF none
  <2> QED BY <1>1, <2>1, NormalizedSame
<1>3. EmptyLines(none) = {}
  BY <1>1 DEF EmptyLines
<1>4. Scan(none)[0].blocks = none
  <2>1. Scan(none)[0] = NoBlocks
    <3> HIDE DEF none
    <3> QED BY <1>1, ScanLoop
  <2> QED BY <2>1 DEF NoBlocks
<1>5. Complete(none) = 1
  BY <1>1 DEF Complete
<1>6. After(none, 0) = none
  BY DEF After
<1>7. Parsed(none, none)
  <2> HIDE DEF none
  <2>1. 0 \in 0..Len(none) /\ Complete(none) > Len(none)
    BY <1>1, <1>5
  <2> QED BY <1>3, <1>4, <1>6, <2>1 DEF Parsed, Closed
<1>8. ParseSseEvents(none).results = none
  BY <1>2, <1>3, ParseQuiet
<1> QED
  BY <1>2, <1>7, <1>8

LEMMA ParseType ==
  ASSUME NEW input \in Seq(Tokens)
  PROVE  ParseSseEvents(input).results \in Seq(Contents)
<1> DEFINE text == Normalized(input)
           last == LastEmptyLine(text)
           blocks == Scan(text)[last].blocks
<1>1. text \in Seq(Tokens)
  BY NormalizedType
<1>2. CASE EmptyLines(text) = {}
  <2>1. ParseSseEvents(input).results = <<>>
    BY <1>2, ParseQuiet
  <2> QED BY <2>1
<1>3. CASE EmptyLines(text) # {}
  <2>1. ParsesTo(input, text, last, blocks)
    BY <1>1, <1>3, ParseLoud
  <2>2. last \in 0..Len(text)
    <3>1. last \in 2..Len(text)
      BY <1>1, <1>3, LastEmptyLineIs
    <3> HIDE DEF last
    <3> QED BY <3>1
  <2>3. blocks \in Seq(Seq(Tokens))
    <3> HIDE DEF last, text
    <3> QED BY <1>1, <2>2, ScanBlocks
  <2> HIDE DEF blocks
  <2>4. Complete(blocks) \in 1..(Len(blocks) + 1)
    BY <2>3, CompleteIs
  <2> DEFINE B == Seq(Tokens)
  <2>5. Len(blocks) \in Nat
    <3>1. blocks \in Seq(B)
      BY <2>3
    <3> HIDE DEF B
    <3> QED BY <3>1
  <2>6. Complete(blocks) - 1 \in 0..Len(blocks)
    <3> DEFINE a == Complete(blocks)
               l == Len(blocks)
    <3>1. a \in 1..(l + 1) /\ l \in Nat
      BY <2>4, <2>5
    <3> HIDE DEF a, l
    <3>2. a - 1 \in 0..l
      BY <3>1
    <3> QED BY <3>2 DEF a, l
  <2> QED
    BY <2>1, <2>3, <2>6, ValuesType DEF ParsesTo
<1> QED
  BY <1>2, <1>3


-----------------------------------------------------------------------------
\* The frame of Send and the reader, as one invariant: the timer is armed
\* exactly while the reader runs, and only a sender that waits or has waited has
\* started one.
Frame ==
  /\ FrameOutlivesReader
  /\ SenderWakes
  /\ reader = "none" <=> done = "none"
  /\ reader = "none" => sender \in {"new", "connecting", "securing", "writing", "ended"}
  /\ reader # "none" => sender \in {"waiting", "closing", "ended"}

IInv == TypeOK /\ Frame

LEMMA InitIInv == Init => IInv
BY DEF Init, IInv, TypeOK, Frame, FrameOutlivesReader, SenderWakes, NoReply

\* What a step of the reader may do to the variables of IInv.
ReaderMoves ==
  /\ request' = request /\ sender' = sender /\ link' = link
  /\ reader \in {"header", "body"}
  /\ reply' \in SseReplies \cup PlainReplies \cup {NoReply} /\ got' \in Nat
  /\ listening' \in BOOLEAN /\ ending' \in {"none", "completed", "error"}
  /\ \/ reader' = "body" /\ done' = done
     \/ reader' = "ended" /\ done' = "cancelled"

LEMMA ReaderStep == ASSUME IInv, ReadSteps PROVE ReaderMoves
<1> USE DEF IInv, Frame, ReaderMoves, Replies
<1>1. CASE OnHeader
  <2>1. PICK r \in Replies :
          /\ reply' = r
          /\ IF r.framed /\ r.body = <<>>
             THEN got' = 1 /\ EndOfEmptyBody
             ELSE reader' = "body" /\ UNCHANGED got /\ Deliver(<<>>)
    BY <1>1 DEF OnHeader
  <2>2. CASE r.framed /\ r.body = <<>>
    <3>1. got' = 1 /\ EndWith(<<>>, IF IsSse THEN "completed" ELSE "error")
      BY <2>1, <2>2 DEF EndOfEmptyBody
    <3>2. reader = "header" /\ reply' \in Replies /\ UNCHANGED <<request, sender, link>>
      BY <1>1, <2>1 DEF OnHeader
    <3> QED
      BY <3>1, <3>2 DEF EndWith, ReaderTerminates, Terminate, TypeOK,
         FrameOutlivesReader
  <2>3. CASE ~(r.framed /\ r.body = <<>>)
    BY <1>1, <2>1, <2>3 DEF OnHeader, Deliver, TypeOK
  <2> QED BY <2>2, <2>3
<1>2. CASE OnErrorStatus
  BY <1>2 DEF OnErrorStatus, EndOnErrorStatus, EndWith, ReaderTerminates, Terminate,
     TypeOK, FrameOutlivesReader
<1>3. CASE OnNoReply
  BY <1>3 DEF OnNoReply, EndWith, ReaderTerminates, Terminate, TypeOK,
     FrameOutlivesReader
<1>4. CASE OnHeaderLost
  BY <1>4 DEF OnHeaderLost, EndWith, ReaderTerminates, Terminate, TypeOK,
     FrameOutlivesReader
<1>5. CASE OnSseChunk
  <2>1. /\ reader = "body" /\ UNCHANGED <<request, sender, link, reply>>
        /\ \E n \in Nat : got' = got + n
        /\ \/ \E values, kind : /\ kind \in {"completed", "error"}
                                /\ EndWith(values, kind)
           \/ \E values : Deliver(values) /\ UNCHANGED reader
    BY <1>5 DEF OnSseChunk
  <2>2. got' \in Nat
    BY <2>1 DEF TypeOK
  <2> QED
    BY <2>1, <2>2 DEF EndWith, Deliver, ReaderTerminates, Terminate, TypeOK,
       FrameOutlivesReader
<1>6. CASE OnBodyChunk
  <2>1. /\ reader = "body" /\ UNCHANGED <<request, sender, link, reply>>
        /\ \E n \in Nat : got' = got + n
        /\ \/ \E values, kind : /\ kind \in {"completed", "error"}
                                /\ EndWith(values, kind)
           \/ \E values : Deliver(values) /\ UNCHANGED reader
    BY <1>6 DEF OnBodyChunk, EndWithJson
  <2>2. got' \in Nat
    BY <2>1 DEF TypeOK
  <2> QED
    BY <2>1, <2>2 DEF EndWith, Deliver, ReaderTerminates, Terminate, TypeOK,
       FrameOutlivesReader
<1>7. CASE OnEof
  BY <1>7 DEF OnEof, OnTruncated, EndWithJson, EndWith, ReaderTerminates, Terminate,
     TypeOK, FrameOutlivesReader
<1>8. CASE OnReset
  BY <1>8 DEF OnReset, EndWith, ReaderTerminates, Terminate, TypeOK,
     FrameOutlivesReader
<1> QED BY <1>1, <1>2, <1>3, <1>4, <1>5, <1>6, <1>7, <1>8 DEF ReadSteps

LEMMA NextIInv == IInv /\ [Next]_vars => IInv'
<1> SUFFICES ASSUME IInv, [Next]_vars PROVE IInv'
  OBVIOUS
<1> USE DEF IInv, Frame, TypeOK, FrameOutlivesReader, SenderWakes, appVars, readerVars,
            senderVars
<1>1. CASE Application
  BY <1>1 DEF Application, Subscribe, SubscribeBadUrl, Unsubscribe, Terminate
<1>2. CASE SendSteps
  BY <1>2 DEF SendSteps, OnConnected, OnSecured, OnWritten, OnSendFailed, FailSend,
     OnDone, OnShutdown, Terminate
<1>3. CASE ReadSteps
  <2>1. ReaderMoves
    BY <1>3, ReaderStep
  <2> QED BY <2>1 DEF ReaderMoves
<1>4. CASE Network
  BY <1>4 DEF Network, PeerCloses, LinkBreaks, LinkEnds
<1>5. CASE UNCHANGED vars
  BY <1>5 DEF vars
<1> QED BY <1>1, <1>2, <1>3, <1>4, <1>5 DEF Next

LEMMA AlwaysIInv == Spec => []IInv
BY InitIInv, NextIInv, PTL DEF Spec

\* Every step keeps the coroutines, the timer and the observer in their types,
\* whatever servers answer.
THEOREM ExchangeTyped == Spec => []TypeOK
BY AlwaysIInv, PTL DEF IInv

\* While the reader runs, the frame of Send that its callbacks refer to exists and
\* its timer is armed: there is no use after free between the two coroutines.
THEOREM ReaderInsideFrame == Spec => []FrameOutlivesReader
BY AlwaysIInv, PTL DEF IInv, Frame

\* A sender that waits for a reader that has ended is about to be woken.
THEOREM NoLostWakeup == Spec => []SenderWakes
BY AlwaysIInv, PTL DEF IInv, Frame

-----------------------------------------------------------------------------
\* Why a query has one answer: nothing is seen before the reader ends, a header
\* is read once, and what ends the reader with "completed" brings a value.
Answers == {<<>>, <<"failure">>, <<"answer">>}
AnswerInv ==
  ~IsSse => /\ reader \in {"none", "header", "body"} =>
                 seen = <<>> /\ ending # "completed"
            /\ reader \in {"none", "header"} => reply = NoReply
            /\ seen \in Answers
            /\ ending = "completed" /\ reply # NoReply => seen # <<>>

LEMMA Shown ==
  /\ <<>> \o <<>> = <<>>
  /\ <<>> \o <<"failure">> = <<"failure">>
  /\ <<>> \o <<"answer">> = <<"answer">>
  /\ <<"failure">> # <<>> /\ <<"answer">> # <<>>
  /\ \A s \in Answers : Len(s) <= 1 /\ (s # <<>> => Len(s) = 1)
BY DEF Answers

LEMMA InitAnswer == Init => AnswerInv
BY DEF Init, AnswerInv, Answers

LEMMA NextAnswer == ASSUME IInv, AnswerInv, [Next]_vars PROVE AnswerInv'
<1>0. request' = request
  BY DEF Next, Application, Subscribe, SubscribeBadUrl, Unsubscribe, SendSteps,
     OnConnected, OnSecured, OnWritten, OnSendFailed, OnDone, OnShutdown, ReadSteps,
     OnHeader, OnErrorStatus, OnNoReply, OnHeaderLost, OnSseChunk, OnBodyChunk, OnEof,
     OnReset, Network, PeerCloses, LinkBreaks, LinkEnds, readerVars, vars
<1> SUFFICES ASSUME ~IsSse PROVE AnswerInv'
  BY <1>0 DEF AnswerInv, IsSse
<1> USE DEF AnswerInv, senderVars, readerVars, appVars
\* A reader that ends with at most one value, and completes only with one or
\* without a reply.
<1>e. ASSUME NEW values \in Answers, NEW kind \in {"completed", "error"},
             reader \in {"header", "body"}, EndWith(values, kind),
             kind = "completed" => values # <<>> \/ reply' = NoReply
      PROVE  AnswerInv'
  <2>1. seen = <<>> /\ ending # "completed"
    BY <1>e
  <2>2. seen' = IF listening THEN values ELSE <<>>
    BY <1>e, <2>1, Shown DEF EndWith, OnNext, Answers
  <2>3. ending' = IF listening THEN kind ELSE ending
    BY <1>e DEF EndWith, ReaderTerminates, Terminate
  <2> QED
    BY <1>e, <2>1, <2>2, <2>3 DEF EndWith, Answers
\* A reader that goes on.
<1>d. ASSUME reader \in {"header", "body"}, Deliver(<<>>), reader' = "body"
      PROVE  AnswerInv'
  <2>1. seen' = <<>>
    BY <1>d, Shown DEF Deliver, OnNext
  <2> QED
    BY <1>d, <2>1 DEF Deliver, Answers
<1>1. CASE Application
  BY <1>1, Shown DEF Application, Subscribe, SubscribeBadUrl, Unsubscribe, Terminate
<1>2. CASE SendSteps
  BY <1>2, Shown DEF SendSteps, OnConnected, OnSecured, OnWritten, OnSendFailed,
     FailSend, OnDone, OnShutdown, Terminate, IInv, Frame
<1>3. CASE Network
  BY <1>3 DEF Network, PeerCloses, LinkBreaks, LinkEnds
<1>4. CASE UNCHANGED vars
  BY <1>4 DEF vars
<1>5. CASE OnHeader
  <2>1. CASE EndOfEmptyBody
    BY <1>5, <2>1, <1>e, Shown DEF OnHeader, EndOfEmptyBody, Answers
  <2>2. CASE Deliver(<<>>) /\ reader' = "body"
    BY <1>5, <2>2, <1>d DEF OnHeader
  <2> QED BY <1>5, <2>1, <2>2 DEF OnHeader
<1>6. CASE OnErrorStatus
  BY <1>6, <1>e, Shown DEF OnErrorStatus, EndOnErrorStatus, Answers
<1>7. CASE OnNoReply
  BY <1>7, <1>e, Shown DEF OnNoReply, Answers
<1>8. CASE OnHeaderLost \/ OnReset
  BY <1>8, <1>e, Shown DEF OnHeaderLost, OnReset, Answers
<1>9. ASSUME NEW n, EndWithJson(n), reader = "body"
      PROVE  AnswerInv'
  <2>1. JsonValue(n) \in Answers
    BY DEF JsonValue, Answers
  <2> QED BY <1>9, <2>1, <1>e DEF EndWithJson
<1>10. CASE OnBodyChunk
  <2>1. reader = "body" /\ \/ \E n : EndWithJson(n)
                           \/ Deliver(<<>>) /\ reader' = "body"
    BY <1>10 DEF OnBodyChunk
  <2> QED BY <2>1, <1>9, <1>d
<1>11. CASE OnEof
  BY <1>11, <1>9, <1>e, Shown DEF OnEof, OnTruncated, Answers
<1> QED
  BY <1>1, <1>2, <1>3, <1>4, <1>5, <1>6, <1>7, <1>8, <1>10, <1>11
  DEF Next, ReadSteps, OnSseChunk

\* A query or mutation that completes has shown one answer, whatever the server
\* sends and wherever the connection ends, if the server replied at all.
THEOREM QueryHasOneAnswer == Spec => []OneAnswer
<1>1. AnswerInv => OneAnswer
  BY Shown DEF AnswerInv, OneAnswer
<1> QED
  BY <1>1, AlwaysIInv, InitAnswer, NextAnswer, PTL DEF Spec

-----------------------------------------------------------------------------
(* Why chunks do not matter: the text that waits in "payload" is what the       *)
(* parser left of all that was read, and it parses the next chunk behind it as  *)
(* it would parse the whole (PartsAreParsedAsTheWhole).                         *)

SoFar(body, n) == SubSeq(body, 1, IF n > Len(body) THEN Len(body) ELSE n)
Answer == Contents \cup {"failure", "answer"}

\* A reply that completes the observer is over.
BodyIsOver == ending = "completed" /\ reply.status = "success" => BodyEnded

StreamInv ==
  /\ seen \in Seq(Answer)
  /\ listening => ending = "none"
  /\ reader \in {"none", "header"} =>
       reply = NoReply /\ got = 0 /\ payload = <<>> /\ seen = <<>>
  /\ reader \in {"none", "header", "body"} => ending # "completed"
  /\ reader = "body" => reply.status = "success"
  /\ IsSse /\ reader = "body" => Parsed(Normalized(SoFar(reply.body, got)), payload)
  /\ ChunksDoNotMatter
  /\ BodyIsOver

LEMMA BodyType == ASSUME TypeOK PROVE reply.body \in Seq(Tokens)
<1> DEFINE Plain == [kind : {"event", "data", "return", "newline"},
                     is : STRING, spaced : BOOLEAN]
<1>1. \A r \in SseReplies \cup PlainReplies : r.body \in Seq(Plain)
  BY ReplyAssumption
<1>2. Plain \subseteq Tokens
  BY DEF Tokens
<1>3. NoReply.body = <<>> /\ <<>> \in Seq(Tokens)
  BY DEF NoReply
<1> HIDE DEF Plain, Tokens
<1>4. \A r \in SseReplies \cup PlainReplies : r.body \in Seq(Tokens)
  BY <1>1, <1>2, SeqMonotonic
<1> QED
  BY <1>3, <1>4 DEF TypeOK

LEMMA TextIs == Text(0, got) = SoFar(reply.body, got)
BY DEF Text, SoFar

LEMMA NewTextIs == Text(0, got)' = SoFar(reply'.body, got')
BY DEF Text, SoFar

LEMMA SoFarType ==
  ASSUME NEW body \in Seq(Tokens), NEW n \in Nat
  PROVE  SoFar(body, n) \in Seq(Tokens)
<1> HIDE DEF Tokens
<1> QED
  BY DEF SoFar

\* The text so far and a chunk are the text so far behind the chunk.
LEMMA SoFarGrows ==
  ASSUME NEW from \in Nat, NEW n \in Nat \ {0}, reply.body \in Seq(Tokens),
         from + n <= Len(reply.body) + 1
  PROVE  /\ Text(from, from + n) \in Seq(Tokens)
         /\ SoFar(reply.body, from + n) = SoFar(reply.body, from) \o Text(from, from + n)
<1> HIDE DEF Tokens
<1> DEFINE body == reply.body
           to == IF from + n > Len(body) THEN Len(body) ELSE from + n
<1>1. from \in 0..Len(body) /\ to \in from..Len(body) /\ 1 \in 1..(Len(body) + 1)
  OBVIOUS
<1>2. SoFar(body, from) = SubSeq(body, 1, from)
  BY <1>1 DEF SoFar
<1>3. SoFar(body, from + n) = SubSeq(body, 1, to)
  BY DEF SoFar
<1>4. Text(from, from + n) = SubSeq(body, from + 1, to)
  BY DEF Text
<1> HIDE DEF to
<1>5. SubSeq(body, 1, from) \o SubSeq(body, from + 1, to) = SubSeq(body, 1, to)
  BY <1>1
<1>6. SubSeq(body, from + 1, to) \in Seq(Tokens)
  BY <1>1
<1> QED
  BY <1>2, <1>3, <1>4, <1>5, <1>6

\* s is the beginning of t.
Begins(s, t) == Len(s) <= Len(t) /\ s = SubSeq(t, 1, Len(s))

LEMMA BeginsItself ==
  ASSUME NEW S, NEW s \in Seq(S)
  PROVE  Begins(s, s)
BY DEF Begins

LEMMA BeginsLonger ==
  ASSUME NEW S, NEW s \in Seq(S), NEW t \in Seq(S), NEW u \in Seq(S), Begins(s, t)
  PROVE  Begins(s, t \o u)
BY DEF Begins

LEMMA RequestKept == [Next]_vars => request' = request
BY DEF Next, Application, Subscribe, SubscribeBadUrl, Unsubscribe, SendSteps,
   OnConnected, OnSecured, OnWritten, OnSendFailed, OnDone, OnShutdown, ReadSteps,
   OnHeader, OnErrorStatus, OnNoReply, OnHeaderLost, OnSseChunk, OnBodyChunk, OnEof,
   OnReset, Network, PeerCloses, LinkBreaks, LinkEnds, readerVars, vars

\* What the properties say, in the terms of the lemmas.
LEMMA ChunksIs ==
  ChunksDoNotMatter <=>
    (IsSse /\ reply.status = "success" =>
       LET whole == ParseSseEvents(SoFar(reply.body, got)).results
       IN Begins(seen, whole) /\ (listening \/ ending = "completed" => seen = whole))
    /\ (IsSse /\ reply.status # "success" => Begins(seen, seen))
BY TextIs DEF ChunksDoNotMatter, Uncut, ReadSoFar, Begins

LEMMA EndIs ==
  BodyIsOver <=>
    (ending = "completed" /\ reply.status = "success" =>
       \/ IsDone(got)
       \/ ~reply.framed /\ link = "closed"
       \/ IsSse /\ ParseSseEvents(SoFar(reply.body, got)).completed)
BY TextIs DEF BodyIsOver, BodyEnded, ReadSoFar

LEMMA InitStream == Init => StreamInv
<1> SUFFICES ASSUME Init PROVE StreamInv
  OBVIOUS
<1>1. seen = <<>> /\ reply.status = "none"
  BY DEF Init, NoReply
<1>2. <<>> \in Seq(Answer) /\ Begins(<<>>, <<>>)
  BY DEF Begins
<1>3. ChunksDoNotMatter
  BY <1>1, <1>2, ChunksIs
<1>4. BodyIsOver
  BY <1>1, EndIs
<1> QED
  BY <1>1, <1>2, <1>3, <1>4 DEF Init, StreamInv

\* What leaves the reader, its text and the values alone.
LEMMA StreamStutter ==
  ASSUME StreamInv,
         UNCHANGED <<request, reader, reply, got, payload, seen>>,
         listening' => listening /\ ending' = ending,
         ending' = "completed" => ending = "completed",
         reader = "none" \/ (link = "closed" => link' = "closed")
  PROVE  StreamInv'
<1>1. ChunksDoNotMatter'
  BY DEF StreamInv, ChunksDoNotMatter, Uncut, ReadSoFar, Text, IsSse
<1>2. BodyIsOver'
  BY DEF StreamInv, BodyIsOver, BodyEnded, ReadSoFar, Text, IsSse, IsDone
<1> QED
  BY <1>1, <1>2 DEF StreamInv, IsSse

\* Values that reach the observer, and how the reader goes on.
LEMMA SeenType ==
  ASSUME StreamInv, NEW values \in Seq(Answer), OnNext(values)
  PROVE  seen' \in Seq(Answer) /\ seen' = IF listening THEN seen \o values ELSE seen
<1> HIDE DEF Answer
<1> QED
  BY DEF StreamInv, OnNext

LEMMA NoValues ==
  ASSUME StreamInv, OnNext(<<>>)
  PROVE  seen' = seen
<1> HIDE DEF Answer
<1> QED
  BY DEF StreamInv, OnNext

LEMMA Ends ==
  ASSUME StreamInv, reader \in {"header", "body"}, NEW values, NEW kind, EndWith(values, kind)
  PROVE  /\ reader' = "ended" /\ listening' = FALSE
         /\ ending' = "completed" => listening /\ kind = "completed"
BY DEF StreamInv, EndWith, ReaderTerminates, Terminate

LEMMA EndsInError ==
  ASSUME StreamInv, reader \in {"header", "body"}, EndWith(<<>>, "error")
  PROVE  reader' = "ended" /\ listening' = FALSE /\ ending' # "completed"
BY DEF StreamInv, EndWith, ReaderTerminates, Terminate

\* A reader that ends without another value.
LEMMA EndsQuietly ==
  ASSUME StreamInv, reader \in {"header", "body"}, NEW kind, EndWith(<<>>, kind),
         UNCHANGED <<request, reply, got>>, BodyIsOver'
  PROVE  StreamInv'
<1>1. seen' = seen
  BY NoValues DEF EndWith
<1>2. reader' = "ended" /\ listening' = FALSE /\ (ending' = "completed" => listening)
  BY Ends
<1>3. ChunksDoNotMatter'
  BY <1>1, <1>2 DEF StreamInv, ChunksDoNotMatter, Uncut, ReadSoFar, Text, IsSse
<1> QED
  BY <1>1, <1>2, <1>3 DEF StreamInv

LEMMA StreamHeader == ASSUME IInv, StreamInv, OnHeader PROVE StreamInv'
<1>0. /\ reader = "header" /\ reply = NoReply /\ got = 0 /\ payload = <<>> /\ seen = <<>>
      /\ request' = request /\ payload' = payload
  BY DEF OnHeader, StreamInv
<1>1. PICK r \in Replies :
        /\ r.status = "success" /\ reply' = r
        /\ IF r.framed /\ r.body = <<>>
           THEN got' = 1 /\ EndOfEmptyBody
           ELSE reader' = "body" /\ UNCHANGED got /\ Deliver(<<>>)
  BY DEF OnHeader
<1>2. OnNext(<<>>)
  BY <1>1 DEF EndOfEmptyBody, EndWith, Deliver
<1>3. seen' = <<>> /\ seen' \in Seq(Answer)
  BY <1>0, <1>2, NoValues
<1>4. ASSUME SoFar(reply'.body, got') = <<>>
      PROVE  ChunksDoNotMatter'
  <2>1. Text(0, got)' = <<>>
    BY <1>4 DEF Text, SoFar
  <2>2. ReadSoFar'.results = <<>>
    BY <2>1, ParseNothing DEF ReadSoFar
  <2> QED
    BY <1>1, <1>3, <2>2 DEF ChunksDoNotMatter, Uncut
<1>5. CASE r.framed /\ r.body = <<>>
  <2>1. got' = 1 /\ Len(reply'.body) = 0 /\ SoFar(reply'.body, got') = <<>>
    BY <1>1, <1>5 DEF SoFar
  <2>2. ChunksDoNotMatter'
    BY <1>4, <2>1
  <2>3. BodyIsOver'
    BY <2>1 DEF BodyIsOver, BodyEnded, IsDone
  <2>4. PICK kind : EndWith(<<>>, kind)
    BY <1>1, <1>5 DEF EndOfEmptyBody
  <2>5. reader' = "ended" /\ listening' = FALSE
    BY <1>0, <2>4, Ends
  <2> QED
    BY <1>3, <2>2, <2>3, <2>5 DEF StreamInv
<1>6. CASE ~ (r.framed /\ r.body = <<>>)
  <2>1. /\ reader' = "body" /\ got' = 0 /\ listening' = listening /\ ending' = ending
        /\ reply'.status = "success"
    BY <1>0, <1>1, <1>6 DEF Deliver
  <2>2. SoFar(reply'.body, got') = <<>>
    <3>1. reply' \in SseReplies \cup PlainReplies
      BY <1>1 DEF Replies
    <3>2. reply'.body \in Seq([kind : {"event", "data", "return", "newline"},
                               is : STRING, spaced : BOOLEAN])
      BY <3>1, ReplyAssumption
    <3>3. Len(reply'.body) \in Nat
      BY <3>2
    <3> QED
      BY <2>1, <3>3 DEF SoFar
  <2>3. ChunksDoNotMatter'
    BY <1>4, <2>2
  <2>4. ending' # "completed"
    BY <1>0, <2>1 DEF StreamInv
  <2>5. BodyIsOver'
    BY <2>4 DEF BodyIsOver, BodyEnded
  <2>6. Parsed(Normalized(SoFar(reply'.body, got')), payload')
    BY <1>0, <2>2, ParseNothing
  <2>7. listening' => ending' = "none"
    BY <2>1 DEF StreamInv
  <2> QED
    BY <1>3, <2>1, <2>3, <2>4, <2>5, <2>6, <2>7 DEF StreamInv
<1> QED
  BY <1>5, <1>6

LEMMA StreamErrorStatus == ASSUME IInv, StreamInv, OnErrorStatus PROVE StreamInv'
<1>0. reader = "header" /\ request' = request /\ reply'.status = "failure"
      /\ EndWith(<<"failure">>, "completed")
  BY DEF OnErrorStatus, EndOnErrorStatus
<1>1. seen' \in Seq(Answer)
  <2>1. <<"failure">> \in Seq(Answer) /\ OnNext(<<"failure">>)
    BY <1>0 DEF Answer, EndWith
  <2> QED BY <2>1, SeenType
<1>2. reader' = "ended" /\ listening' = FALSE
  BY <1>0, Ends
<1>3. ChunksDoNotMatter'
  <2>1. Begins(seen', seen')
    BY <1>1, BeginsItself
  <2> QED
    BY <1>0, <2>1 DEF ChunksDoNotMatter, Uncut, Begins
<1>4. BodyIsOver'
  BY <1>0 DEF BodyIsOver, BodyEnded
<1> QED
  BY <1>1, <1>2, <1>3, <1>4 DEF StreamInv

\* No reply, no header, or a broken connection.
LEMMA StreamLost ==
  ASSUME IInv, StreamInv, OnNoReply \/ OnHeaderLost \/ OnReset
  PROVE  StreamInv'
<1>1. /\ UNCHANGED <<request, reply, got>> /\ reader \in {"header", "body"}
      /\ OnReset \/ reply = NoReply
  BY DEF OnNoReply, OnHeaderLost, OnReset, StreamInv
<1>2. CASE OnReset
  <2>1. EndWith(<<>>, "error")
    BY <1>2 DEF OnReset
  <2>2. ending' # "completed"
    BY <1>1, <2>1, EndsInError
  <2>3. BodyIsOver'
    BY <2>2 DEF BodyIsOver, BodyEnded
  <2> QED
    BY <1>1, <2>1, <2>3, EndsQuietly
<1>3. CASE OnNoReply \/ OnHeaderLost
  <2>1. PICK kind : EndWith(<<>>, kind)
    BY <1>3 DEF OnNoReply, OnHeaderLost
  <2>2. reply'.status = "none"
    BY <1>1, <1>3 DEF OnNoReply, OnHeaderLost, StreamInv, NoReply
  <2>3. BodyIsOver'
    BY <2>2 DEF BodyIsOver, BodyEnded
  <2> QED
    BY <1>1, <2>1, <2>3, EndsQuietly
<1> QED
  BY <1>2, <1>3

LEMMA StreamJson ==
  ASSUME IInv, StreamInv, ~IsSse, reader = "body", NEW n, EndWithJson(n),
         UNCHANGED <<request, reply>>, BodyIsOver'
  PROVE  StreamInv'
<1>1. PICK kind : EndWith(JsonValue(n), kind)
  BY DEF EndWithJson
<1>2. JsonValue(n) \in Seq(Answer)
  <2>1. JsonValue(n) = <<>> \/ JsonValue(n) = <<"answer">>
    BY DEF JsonValue
  <2>2. <<"answer">> \in Seq(Answer) /\ <<>> \in Seq(Answer)
    BY DEF Answer
  <2> QED BY <2>1, <2>2
<1>3. seen' \in Seq(Answer)
  BY <1>1, <1>2, SeenType DEF EndWith
<1>4. reader' = "ended" /\ listening' = FALSE
  BY <1>1, Ends
<1>5. ~IsSse'
  BY DEF IsSse
<1> QED
  BY <1>3, <1>4, <1>5 DEF StreamInv, ChunksDoNotMatter

LEMMA StreamBodyChunk == ASSUME IInv, StreamInv, OnBodyChunk PROVE StreamInv'
<1>0. /\ reader = "body" /\ ~IsSse /\ UNCHANGED <<request, reply, link, payload>>
      /\ reply.status = "success" /\ ending # "completed"
  BY DEF OnBodyChunk, StreamInv
<1>1. PICK n \in 1..(Len(reply.body) + 1) :
        /\ got' = got + n
        /\ IF IsDone(got + n) THEN EndWithJson(got + n)
           ELSE Deliver(<<>>) /\ UNCHANGED reader
  BY DEF OnBodyChunk
<1>2. CASE IsDone(got + n)
  <2>1. BodyIsOver'
    BY <1>0, <1>1, <1>2 DEF BodyIsOver, BodyEnded, IsDone
  <2> QED
    BY <1>0, <1>1, <1>2, <2>1, StreamJson
<1>3. CASE ~ IsDone(got + n)
  <2>1. Deliver(<<>>) /\ reader' = reader
    BY <1>1, <1>3
  <2>2. seen' = seen /\ listening' = listening /\ ending' = ending
    BY <2>1, NoValues DEF Deliver
  <2>3. ~IsSse'
    BY <1>0 DEF IsSse
  <2> QED
    BY <1>0, <2>1, <2>2, <2>3 DEF StreamInv, ChunksDoNotMatter, BodyIsOver, BodyEnded
<1> QED
  BY <1>2, <1>3

LEMMA StreamEof == ASSUME IInv, StreamInv, OnEof PROVE StreamInv'
<1>0. /\ reader = "body" /\ link = "closed" /\ link' = link
      /\ UNCHANGED <<request, reply, got>>
      /\ IF reply.framed THEN OnTruncated
         ELSE IF IsSse THEN EndWith(<<>>, "completed")
         ELSE EndWithJson(got)
  BY DEF OnEof
<1>1. CASE reply.framed
  <2>1. EndWith(<<>>, "error")
    BY <1>0, <1>1 DEF OnTruncated
  <2>2. ending' # "completed"
    BY <1>0, <2>1, EndsInError
  <2>3. BodyIsOver'
    BY <2>2 DEF BodyIsOver, BodyEnded
  <2> QED
    BY <1>0, <2>1, <2>3, EndsQuietly
<1>2. CASE ~reply.framed
  <2>1. BodyIsOver'
    BY <1>0, <1>2 DEF BodyIsOver, BodyEnded
  <2>2. CASE IsSse
    BY <1>0, <1>2, <2>1, <2>2, EndsQuietly
  <2>3. CASE ~IsSse
    BY <1>0, <1>2, <2>1, <2>3, StreamJson
  <2> QED
    BY <2>2, <2>3
<1> QED
  BY <1>1, <1>2

LEMMA StreamSseChunk == ASSUME IInv, StreamInv, OnSseChunk PROVE StreamInv'
<1> DEFINE body == reply.body
           old == SoFar(body, got)
           before == ParseSseEvents(old)
<1>0. /\ reader = "body" /\ IsSse /\ UNCHANGED <<request, reply, link>>
      /\ reply.status = "success" /\ ending # "completed"
      /\ seen \in Seq(Answer) /\ (listening => ending = "none")
      /\ Parsed(Normalized(old), payload)
  BY DEF OnSseChunk, StreamInv
<1>1. PICK n \in 1..(Len(body) + 1) :
        /\ got + n <= BodyEnd /\ got' = got + n
        /\ LET text == payload \o Chunk(n)
               parsed == IF Chunk(n) = <<>>
                         THEN [results |-> <<>>, remaining |-> payload,
                               completed |-> FALSE, threw |-> FALSE]
                         ELSE ParseSseEvents(text)
           IN /\ payload' = parsed.remaining
              /\ IF parsed.threw THEN EndWith(<<>>, "error")
                 ELSE IF parsed.completed \/ IsDone(got + n)
                 THEN EndWith(parsed.results, "completed")
                 ELSE Deliver(parsed.results) /\ UNCHANGED reader
  BY DEF OnSseChunk
<1> DEFINE chunk == Chunk(n)
           new == SoFar(body, got + n)
           whole == ParseSseEvents(new)
           parsed == IF chunk = <<>>
                     THEN [results |-> <<>>, remaining |-> payload,
                           completed |-> FALSE, threw |-> FALSE]
                     ELSE ParseSseEvents(payload \o chunk)
<1>2. body \in Seq(Tokens) /\ got \in Nat
  BY BodyType DEF IInv, TypeOK
<1>3. n \in Nat \ {0} /\ got + n \in Nat /\ got + n <= Len(body) + 1
  <2> HIDE DEF Tokens
  <2> QED BY <1>1, <1>2 DEF BodyEnd
<1>4. chunk \in Seq(Tokens) /\ new = old \o chunk
  BY <1>2, <1>3, SoFarGrows DEF Chunk
<1>5. old \in Seq(Tokens) /\ new \in Seq(Tokens)
  BY <1>2, <1>3, SoFarType
<1>6. GoesOn(whole, before.results, parsed, Normalized(new))
  <2>1. CASE chunk = <<>>
    <3>1. new = old
      <4> HIDE DEF old, new, chunk, Tokens
      <4> QED BY <1>4, <1>5, <2>1
    <3>2. parsed.results = <<>> /\ parsed.remaining = payload /\ ~ parsed.completed
      BY <2>1
    <3>3. before.results \o <<>> = before.results
      <4> HIDE DEF old
      <4>1. before.results \in Seq(Contents)
        BY <1>5, ParseType
      <4> HIDE DEF before, Contents
      <4> QED BY <4>1
    <3>4. ~ before.completed
      <4> HIDE DEF old
      <4>1. <<>> \in Seq(Tokens)
        OBVIOUS
      <4> QED BY <1>0, <1>5, <4>1, PartsAreParsedAsTheWhole
    <3> HIDE DEF old, new, parsed
    <3> QED BY <1>0, <3>1, <3>2, <3>3, <3>4 DEF GoesOn
  <2>2. CASE chunk # <<>>
    <3>1. parsed = ParseSseEvents(payload \o chunk)
      BY <2>2
    <3> HIDE DEF parsed, old, new, chunk
    <3>2. GoesOn(ParseSseEvents(old \o chunk), ParseSseEvents(old).results,
                 ParseSseEvents(payload \o chunk), Normalized(old \o chunk))
      BY <1>0, <1>4, <1>5, PartsAreParsedAsTheWhole
    <3> QED BY <1>4, <3>1, <3>2
  <2> QED BY <2>1, <2>2
<1>7. /\ payload' = parsed.remaining
      /\ IF parsed.threw THEN EndWith(<<>>, "error")
         ELSE IF parsed.completed \/ IsDone(got + n)
         THEN EndWith(parsed.results, "completed")
         ELSE Deliver(parsed.results) /\ UNCHANGED reader
  BY <1>1
<1>8. before.results \in Seq(Answer) /\ parsed.results \in Seq(Answer)
  <2>1. before.results \in Seq(Contents)
    <3> HIDE DEF old
    <3> QED BY <1>5, ParseType
  <2>2. Contents \subseteq Answer
    BY DEF Answer
  <2>3. before.results \in Seq(Answer)
    <3> HIDE DEF before, Contents, Answer
    <3> QED BY <2>1, <2>2, SeqMonotonic
  <2>4. parsed.results \in Seq(Answer)
    <3>1. CASE chunk = <<>>
      BY <3>1
    <3>2. CASE chunk # <<>>
      <4>1. payload \in Seq(Tokens)
        <5>1. Normalized(old) \in Seq(Tokens)
          <6> HIDE DEF old
          <6> QED BY <1>5, NormalizedType
        <5> HIDE DEF old
        <5> QED BY <1>0, <5>1, ParsedType
      <4>2. payload \o chunk \in Seq(Tokens)
        <5> HIDE DEF chunk, Tokens
        <5> QED BY <1>4, <4>1
      <4>3. ParseSseEvents(payload \o chunk).results \in Seq(Contents)
        <5> HIDE DEF chunk
        <5> QED BY <4>2, ParseType
      <4>4. ParseSseEvents(payload \o chunk).results \in Seq(Answer)
        <5> HIDE DEF chunk, Contents, Answer
        <5> QED BY <2>2, <4>3, SeqMonotonic
      <4> QED BY <3>2, <4>4
    <3> QED BY <3>1, <3>2
  <2> QED BY <2>3, <2>4
<1>9. /\ Begins(seen, before.results)
      /\ listening => seen = before.results
  BY <1>0, ChunksIs DEF StreamInv
<1>10. /\ whole.results = before.results \o parsed.results
       /\ whole.completed <=> parsed.completed
       /\ ~ parsed.completed => Parsed(Normalized(new), parsed.remaining)
  <2> HIDE DEF whole, before, parsed, new
  <2> QED BY <1>6 DEF GoesOn
<1> HIDE DEF parsed, before, Answer
<1>11. /\ whole.results \in Seq(Answer)
       /\ Begins(seen, whole.results)
       /\ Begins(whole.results, whole.results)
  <2> HIDE DEF whole
  <2>1. whole.results \in Seq(Answer)
    <3> DEFINE a == before.results
               b == parsed.results
    <3>1. a \in Seq(Answer) /\ b \in Seq(Answer) /\ whole.results = a \o b
      BY <1>8, <1>10
    <3> HIDE DEF a, b
    <3>2. a \o b \in Seq(Answer)
      BY <3>1
    <3> QED BY <3>1, <3>2
  <2> QED BY <1>0, <1>8, <1>9, <1>10, <2>1, BeginsLonger, BeginsItself
<1>12. reply' = reply /\ got' = got + n /\ (IsSse' <=> IsSse)
  BY <1>0, <1>1 DEF IsSse
<1>13. ASSUME Begins(seen', whole.results),
              listening' \/ ending' = "completed" => seen' = whole.results
       PROVE  ChunksDoNotMatter'
  <2>1. SoFar(reply'.body, got') = new
    BY <1>12
  <2>2. Text(0, got)' = new
    BY <2>1, NewTextIs
  <2>3. Uncut' = whole.results
    BY <1>0, <1>12, <2>2 DEF Uncut, ReadSoFar
  <2> HIDE DEF whole
  <2> QED BY <1>13, <2>3 DEF ChunksDoNotMatter, Begins
<1>14. ASSUME ending' = "completed" => IsDone(got + n) \/ parsed.completed
       PROVE  BodyIsOver'
  <2>1. Text(0, got)' = new
    <3>1. SoFar(reply'.body, got') = new
      BY <1>12
    <3> QED BY <3>1, NewTextIs
  <2>2. ReadSoFar'.completed <=> parsed.completed
    BY <1>10, <2>1 DEF ReadSoFar
  <2>3. IsDone(got)' <=> IsDone(got + n)
    BY <1>12 DEF IsDone
  <2> QED
    BY <1>0, <1>12, <1>14, <2>2, <2>3 DEF BodyIsOver, BodyEnded
<1> HIDE DEF whole, new, old
<1>15. CASE parsed.threw
  <2>1. EndWith(<<>>, "error")
    BY <1>7, <1>15
  <2>2. seen' = seen
    BY <2>1, NoValues DEF EndWith
  <2>3. reader' = "ended" /\ listening' = FALSE /\ ending' # "completed"
    BY <1>0, <2>1, EndsInError
  <2>4. ChunksDoNotMatter' /\ BodyIsOver'
    BY <1>11, <1>13, <1>14, <2>2, <2>3
  <2> QED
    BY <1>0, <2>2, <2>3, <2>4 DEF StreamInv
<1>16. CASE ~ parsed.threw /\ (parsed.completed \/ IsDone(got + n))
  <2>1. EndWith(parsed.results, "completed")
    BY <1>7, <1>16
  <2>2. seen' \in Seq(Answer) /\ seen' = IF listening THEN seen \o parsed.results ELSE seen
    <3>1. OnNext(parsed.results)
      BY <2>1 DEF EndWith
    <3> QED BY <1>8, <3>1, SeenType
  <2>3. reader' = "ended" /\ listening' = FALSE /\ (ending' = "completed" => listening)
    BY <1>0, <2>1, Ends
  <2>4. listening => seen' = whole.results
    BY <1>9, <1>10, <2>2
  <2>5. Begins(seen', whole.results)
    BY <1>11, <2>2, <2>4
  <2>6. ChunksDoNotMatter' /\ BodyIsOver'
    BY <1>13, <1>14, <1>16, <2>3, <2>4, <2>5
  <2> QED
    BY <2>2, <2>3, <2>6 DEF StreamInv
<1>17. CASE ~ parsed.threw /\ ~ (parsed.completed \/ IsDone(got + n))
  <2>1. Deliver(parsed.results) /\ reader' = reader
    BY <1>7, <1>17
  <2>2. seen' \in Seq(Answer) /\ seen' = IF listening THEN seen \o parsed.results ELSE seen
    <3>1. OnNext(parsed.results)
      BY <2>1 DEF Deliver
    <3> QED BY <1>8, <3>1, SeenType
  <2>3. listening' = listening /\ ending' = ending
    BY <2>1 DEF Deliver
  <2>4. listening => seen' = whole.results
    BY <1>9, <1>10, <2>2
  <2>5. Begins(seen', whole.results)
    BY <1>11, <2>2, <2>4
  <2>6. ChunksDoNotMatter' /\ BodyIsOver'
    BY <1>0, <1>13, <1>14, <2>3, <2>4, <2>5
  <2>7. Parsed(Normalized(SoFar(reply'.body, got')), payload')
    BY <1>7, <1>10, <1>12, <1>17 DEF new
  <2> QED
    BY <1>0, <1>12, <2>1, <2>2, <2>3, <2>6, <2>7 DEF StreamInv
<1> QED
  BY <1>15, <1>16, <1>17

LEMMA NextStream == ASSUME IInv, StreamInv, [Next]_vars PROVE StreamInv'
<1>1. request' = request
  BY RequestKept
<1>2. CASE Application
  <2>1. UNCHANGED <<request, reader, reply, got, payload, seen, link>>
    BY <1>2 DEF Application, Subscribe, SubscribeBadUrl, Unsubscribe, readerVars,
       appVars, senderVars
  <2>2. /\ listening' => listening /\ ending' = ending
        /\ ending' = "completed" => ending = "completed"
    BY <1>2 DEF Application, Subscribe, SubscribeBadUrl, Unsubscribe, Terminate, appVars
  <2> QED BY <2>1, <2>2, StreamStutter
<1>3. CASE SendSteps
  <2>1. UNCHANGED <<request, reply, got, payload, seen>>
    BY <1>3 DEF SendSteps, OnConnected, OnSecured, OnWritten, OnSendFailed, OnDone,
       OnShutdown, readerVars, appVars
  <2>2. /\ listening' => listening /\ ending' = ending
        /\ ending' = "completed" => ending = "completed"
    BY <1>3 DEF SendSteps, OnConnected, OnSecured, OnWritten, OnSendFailed, FailSend,
       OnDone, OnShutdown, Terminate, appVars
  <2>3. CASE OnWritten
    <3>1. /\ reader = "none" /\ reader' = "header"
          /\ UNCHANGED <<request, reply, got, payload, seen, listening, ending>>
      BY <2>3 DEF OnWritten, IInv, Frame, FrameOutlivesReader, appVars
    <3>2. reply.status # "success"
      BY <3>1 DEF StreamInv, NoReply
    <3>3. BodyIsOver'
      BY <3>1, <3>2 DEF BodyIsOver, BodyEnded
    <3>4. ChunksDoNotMatter'
      BY <3>1 DEF StreamInv, ChunksDoNotMatter, Uncut, ReadSoFar, Text, IsSse
    <3> QED BY <3>1, <3>3, <3>4 DEF StreamInv, IsSse
  <2>4. CASE ~ OnWritten
    <3>1. reader' = reader /\ (reader = "none" \/ link' = link)
      BY <1>3, <2>4 DEF SendSteps, OnConnected, OnSecured, OnSendFailed, OnDone,
         OnShutdown, readerVars, IInv, Frame
    <3> QED BY <2>1, <2>2, <3>1, StreamStutter
  <2> QED BY <2>3, <2>4
<1>4. CASE Network
  <2>1. /\ UNCHANGED <<request, reader, reply, got, payload, seen, listening, ending>>
        /\ link # "closed"
    BY <1>4 DEF Network, PeerCloses, LinkBreaks, LinkEnds, readerVars, appVars
  <2> QED BY <2>1, StreamStutter
<1>5. CASE UNCHANGED vars
  <2>1. UNCHANGED <<request, reader, reply, got, payload, seen, listening, ending, link>>
    BY <1>5 DEF vars, readerVars, appVars
  <2> QED BY <2>1, StreamStutter
<1>6. CASE ReadSteps
  BY <1>6, StreamHeader, StreamErrorStatus, StreamLost, StreamSseChunk, StreamBodyChunk,
     StreamEof DEF ReadSteps
<1> QED
  BY <1>2, <1>3, <1>4, <1>5, <1>6 DEF Next

\* What a subscription shows does not depend on how its text is cut into chunks,
\* whatever the text is: it is what one call of ParseSseEvents makes of the whole.
THEOREM CutsDoNotMatter == Spec => []ChunksDoNotMatter
<1>1. StreamInv => ChunksDoNotMatter
  BY DEF StreamInv
<1> QED
  BY <1>1, AlwaysIInv, InitStream, NextStream, PTL DEF Spec

\* What an observer that was completed was shown.
ShownInv ==
  ending = "completed" =>
    \/ reply = NoReply /\ link = "closed" /\ seen = <<>>
    \/ reply.status = "failure" /\ seen = <<"failure">>
    \/ /\ reply.status = "success"
       /\ ~IsSse => seen = <<"answer">> /\ got >= Len(reply.body)

\* A reader that goes on completes nobody, and one that ends does so with its last
\* values.
LEMMA ReaderShows ==
  ASSUME StreamInv, reader \in {"header", "body"}
  PROVE  /\ ending # "completed"
         /\ \A values : Deliver(values) => ending' # "completed"
         /\ \A values : EndWith(values, "error") => ending' # "completed"
         /\ \A values : EndWith(values, "completed") /\ ending' = "completed" =>
              seen' = seen \o values
BY DEF StreamInv, Deliver, EndWith, ReaderTerminates, Terminate, OnNext

LEMMA NextShown ==
  ASSUME IInv, AnswerInv, StreamInv, ShownInv, [Next]_vars
  PROVE  ShownInv'
<1>0. IsSse' = IsSse
  BY RequestKept DEF IsSse
<1> USE DEF ShownInv
<1>1. CASE Application \/ SendSteps
  <2>1. ending' = "completed" => ending = "completed" /\ link' = link
    BY <1>1 DEF Application, Subscribe, SubscribeBadUrl, Unsubscribe, SendSteps,
       OnConnected, OnSecured, OnWritten, OnSendFailed, FailSend, OnDone, OnShutdown,
       Terminate, appVars, IInv, Frame, StreamInv
  <2>2. UNCHANGED <<reply, got, seen>>
    BY <1>1 DEF Application, Subscribe, SubscribeBadUrl, Unsubscribe, SendSteps,
       OnConnected, OnSecured, OnWritten, OnSendFailed, FailSend, OnDone, OnShutdown,
       Terminate, appVars, readerVars
  <2> QED BY <1>0, <2>1, <2>2
<1>2. CASE Network \/ UNCHANGED vars
  BY <1>0, <1>2 DEF Network, PeerCloses, LinkBreaks, LinkEnds, vars, readerVars, appVars
<1>3. CASE OnHeader
  <2>1. reader = "header" /\ reply'.status = "success"
    BY <1>3 DEF OnHeader
  <2>2. EndOfEmptyBody \/ Deliver(<<>>)
    BY <1>3 DEF OnHeader
  <2>3. ending' = "completed" => IsSse
    BY <2>1, <2>2, ReaderShows DEF EndOfEmptyBody
  <2> QED BY <1>0, <2>1, <2>3
<1>4. CASE OnErrorStatus
  <2>1. reader = "header" /\ reply'.status = "failure" /\ seen = <<>>
    BY <1>4 DEF OnErrorStatus, StreamInv
  <2>2. ending' = "completed" => seen' = <<"failure">>
    BY <1>4, <2>1, ReaderShows, Shown DEF OnErrorStatus, EndOnErrorStatus
  <2> QED BY <2>1, <2>2
<1>5. CASE OnNoReply
  <2>1. /\ reader = "header" /\ link' = "closed" /\ reply' = NoReply /\ seen = <<>>
    BY <1>5 DEF OnNoReply, StreamInv
  <2>2. ending' = "completed" => seen' = <<>>
    BY <1>5, <2>1, ReaderShows, Shown DEF OnNoReply
  <2> QED BY <2>1, <2>2
<1>6. CASE OnHeaderLost \/ OnReset
  BY <1>6, ReaderShows DEF OnHeaderLost, OnReset
<1>7. CASE OnSseChunk
  BY <1>0, <1>7 DEF OnSseChunk, StreamInv
<1>8. ASSUME reader = "body", ~IsSse, EndWithJson(got'), reply' = reply
      PROVE  ShownInv'
  <2>1. seen = <<>> /\ reply'.status = "success"
    BY <1>8 DEF AnswerInv, StreamInv
  <2>2. ending' = "completed" => JsonValue(got') # <<>>
    BY <1>8, ReaderShows DEF EndWithJson
  <2>3. JsonValue(got') # <<>> => JsonValue(got') = <<"answer">> /\ got' >= Len(reply.body)
    BY DEF JsonValue
  <2>4. ending' = "completed" => seen' = <<"answer">>
    BY <1>8, <2>1, <2>2, <2>3, ReaderShows, Shown DEF EndWithJson
  <2> QED BY <1>8, <2>1, <2>2, <2>3, <2>4
<1>9. CASE OnBodyChunk
  <2>1. /\ reader = "body" /\ ~IsSse /\ reply' = reply
        /\ EndWithJson(got') \/ Deliver(<<>>)
    BY <1>9 DEF OnBodyChunk
  <2> QED BY <1>8, <2>1, ReaderShows
<1>10. CASE OnEof
  <2>1. /\ reader = "body" /\ reply' = reply /\ got' = got /\ reply.status = "success"
    BY <1>10 DEF OnEof, StreamInv
  <2>2. CASE reply.framed
    BY <1>10, <2>1, <2>2, ReaderShows DEF OnEof, OnTruncated
  <2>3. CASE ~reply.framed /\ IsSse
    BY <1>0, <2>1, <2>3
  <2>4. CASE ~reply.framed /\ ~IsSse
    BY <1>8, <1>10, <2>1, <2>4 DEF OnEof
  <2> QED BY <2>2, <2>3, <2>4
<1> QED
  BY <1>1, <1>2, <1>3, <1>4, <1>5, <1>6, <1>7, <1>9, <1>10 DEF Next, ReadSteps

\* An observer that was completed was shown the whole of a reply that was over,
\* whatever the server sends, however it is cut and wherever the connection ends; or
\* there was no reply, and it was shown nothing.
THEOREM CompletionIsTheEnd == Spec => []EndIsGenuine
<1>1. ASSUME StreamInv, ShownInv PROVE EndIsGenuine
  <2> SUFFICES ASSUME ending = "completed" PROVE EndIsGenuine
    BY DEF EndIsGenuine
  <2>1. CASE reply.status = "success"
    <3>1. BodyEnded
      BY <1>1, <2>1 DEF StreamInv, BodyIsOver
    <3>2. IsSse => seen = ReadSoFar.results
      BY <1>1, <2>1 DEF StreamInv, ChunksDoNotMatter, Uncut
    <3>3. ~IsSse => seen = <<"answer">> /\ got >= Len(reply.body)
      BY <1>1, <2>1 DEF ShownInv, NoReply
    <3> QED BY <2>1, <3>1, <3>2, <3>3 DEF EndIsGenuine
  <2>2. CASE reply.status # "success"
    BY <1>1, <2>2 DEF ShownInv, EndIsGenuine
  <2> QED BY <2>1, <2>2
<1>2. Init => ShownInv
  BY DEF Init, ShownInv
<1> QED
  BY <1>1, <1>2, AlwaysIInv, InitAnswer, NextAnswer, InitStream, NextStream, NextShown, PTL
  DEF Spec
=============================================================================
