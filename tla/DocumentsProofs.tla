---------------------------- MODULE DocumentsProofs ----------------------------
(***************************************************************************)
(* What is proved of documents, whatever is done with them.                 *)
(***************************************************************************)
EXTENDS Documents, RunningFoldsProofs, SequenceTheorems

-----------------------------------------------------------------------------
(* Sequences *)

\* A sequence, and on along another.
On(p, q) == p \o q

LEMMA OnIs ==
  ASSUME NEW S, NEW p \in Seq(S), NEW q \in Seq(S)
  PROVE  /\ On(p, q) \in Seq(S) /\ Len(On(p, q)) = Len(p) + Len(q)
         /\ Len(p) \in Nat /\ Len(q) \in Nat
         /\ \A i \in 1..Len(p) : On(p, q)[i] = p[i]
         /\ \A i \in 1..Len(q) : On(p, q)[Len(p) + i] = q[i]
BY DEF On

LEMMA OnNothing == ASSUME NEW S, NEW p \in Seq(S) PROVE On(p, <<>>) = p /\ On(<<>>, p) = p
BY ConcatEmptySeq DEF On

\* What FlattenSeq has joined after each of its sequences.
IsFlattening(f, seqs, S) ==
  /\ f[1] = seqs[1] /\ FlattenSeq(seqs) = f[Len(seqs)]
  /\ \A i \in 1..Len(seqs) : f[i] \in Seq(S)
  /\ \A i \in 2..Len(seqs) : f[i] = On(f[i - 1], seqs[i])

LEMMA FlattenLoop ==
  ASSUME NEW S, NEW seqs \in Seq(Seq(S)), Len(seqs) # 0
  PROVE  \E f : IsFlattening(f, seqs, S)
<1> DEFINE n == Len(seqs)
           Is(f) == f = [i \in 1..n |-> IF i = 1 THEN seqs[i] ELSE On(f[i - 1], seqs[i])]
<1>0. n \in Nat /\ n # 0 /\ \A i \in 1..n : seqs[i] \in Seq(S)
  OBVIOUS
<1>1. FlattenSeq(seqs) = (CHOOSE f : Is(f))[n]
  BY <1>0 DEF FlattenSeq, On
<1>2. \E f : Is(f)
  <2> DEFINE next == [i \in 1..(n - 1) |-> [s \in Seq(S) |-> On(s, seqs[i + 1])]]
  <2>1. n - 1 \in Nat /\ seqs[1] \in Seq(S)
    BY <1>0
  <2>2. next \in [1..(n - 1) -> [Seq(S) -> Seq(S)]]
    <3> SUFFICES ASSUME NEW i \in 1..(n - 1), NEW s \in Seq(S) PROVE On(s, seqs[i + 1]) \in Seq(S)
      OBVIOUS
    <3>1. seqs[i + 1] \in Seq(S)
      BY <1>0
    <3> QED BY <3>1, OnIs
  <2>3. \A i \in 1..(n - 1) : \A s \in Seq(S) : next[i][s] = On(s, seqs[i + 1])
    OBVIOUS
  <2> HIDE DEF next, n
  <2>4. PICK g : IsLoop(g, n - 1, Seq(S), seqs[1], next)
    BY <2>1, <2>2, LoopExists
  <2> DEFINE f == [i \in 1..n |-> g[i - 1]]
  <2>5. ASSUME NEW i \in 1..n, i # 1 PROVE g[i - 1] = On(f[i - 1], seqs[i])
    <3>1. i - 1 \in 1..(n - 1) /\ i - 1 \in 1..n /\ (i - 1) - 1 \in 0..(n - 1) /\ (i - 1) + 1 = i
      BY <1>0, <2>5
    <3>2. g[i - 1] = next[i - 1][g[(i - 1) - 1]] /\ g[(i - 1) - 1] \in Seq(S)
      BY <3>1, <2>4 DEF IsLoop
    <3>3. next[i - 1][g[(i - 1) - 1]] = On(g[(i - 1) - 1], seqs[(i - 1) + 1])
      BY <3>1, <3>2, <2>3
    <3>4. f[i - 1] = g[(i - 1) - 1]
      BY <3>1
    <3> QED BY <3>1, <3>2, <3>3, <3>4
  <2>6. g[0] = seqs[1]
    BY <2>4 DEF IsLoop
  <2>7. ASSUME NEW i \in 1..n PROVE f[i] = IF i = 1 THEN seqs[i] ELSE On(f[i - 1], seqs[i])
    <3>1. CASE i = 1
      BY <2>6, <3>1
    <3>2. CASE i # 1
      <4>1. f[i] = g[i - 1]
        OBVIOUS
      <4>2. f[i] = On(f[i - 1], seqs[i])
        BY <2>5, <3>2, <4>1
      <4> QED BY <3>2, <4>2
    <3> QED BY <3>1, <3>2
  <2>8. f = [i \in 1..n |-> f[i]]
    OBVIOUS
  <2> HIDE DEF f
  <2>9. Is(f)
    BY <2>7, <2>8
  <2> HIDE DEF Is
  <2> QED BY <2>9
<1> DEFINE f == CHOOSE f : Is(f)
<1>3. Is(f)
  <2> HIDE DEF Is
  <2> QED BY <1>2
<1> HIDE DEF f
<1>4. \A i \in 1..n : f[i] = IF i = 1 THEN seqs[i] ELSE On(f[i - 1], seqs[i])
  <2> HIDE DEF n
  <2> QED BY <1>3
<1> DEFINE T == {i \in 0..(n - 1) : f[i + 1] \in Seq(S)}
<1>5. FlattenSeq(seqs) = f[n]
  BY <1>1 DEF f
<1> HIDE DEF Is
<1>6. 0 \in T
  BY <1>0, <1>4
<1>7. ASSUME NEW i \in 1..(n - 1), i - 1 \in T PROVE i \in T
  <2>1. i + 1 \in 1..n /\ i + 1 # 1 /\ (i + 1) - 1 = i /\ (i - 1) + 1 = i
    BY <1>0
  <2>2. f[i + 1] = On(f[i], seqs[i + 1]) /\ f[i] \in Seq(S) /\ seqs[i + 1] \in Seq(S)
    BY <2>1, <1>4, <1>7, <1>0
  <2>3. On(f[i], seqs[i + 1]) \in Seq(S)
    BY <2>2, OnIs
  <2>4. i \in 0..(n - 1)
    BY <1>0
  <2> QED BY <2>2, <2>3, <2>4
<1>8. 0..(n - 1) \subseteq T
  <2> HIDE DEF T
  <2>1. n - 1 \in Nat
    BY <1>0
  <2> QED BY <1>6, <1>7, <2>1, UpTo
<1>9. ASSUME NEW i \in 1..n PROVE f[i] \in Seq(S)
  <2>1. i - 1 \in 0..(n - 1) /\ (i - 1) + 1 = i
    BY <1>0
  <2>2. i - 1 \in T
    BY <2>1, <1>8
  <2> QED BY <2>1, <2>2
<1>10. IsFlattening(f, seqs, S)
  BY <1>0, <1>4, <1>5, <1>9 DEF IsFlattening
<1> QED BY <1>10

\* A sequence is built of its elements one by one.
LEMMA Beginning ==
  ASSUME NEW S, NEW s \in Seq(S)
  PROVE  /\ SubSeq(s, 1, 0) = <<>> /\ SubSeq(s, 1, Len(s)) = s
         /\ \A n \in 1..Len(s) : Append(SubSeq(s, 1, n - 1), s[n]) = SubSeq(s, 1, n)
<1>1. SubSeq(s, 1, 0) = <<>>
  BY SubSeqEmpty
<1>2. SubSeq(s, 1, Len(s)) = s
  BY SubSeqFull
<1>3. ASSUME NEW n \in 1..Len(s) PROVE Append(SubSeq(s, 1, n - 1), s[n]) = SubSeq(s, 1, n)
  <2>1. Len(s) \in Nat
    OBVIOUS
  <2> DEFINE p == SubSeq(s, 1, n - 1)
             q == SubSeq(s, 1, n)
  <2>2. \A i \in 1..n : s[i] \in S
    BY <2>1
  <2>3. /\ p \in Seq(S) /\ Len(p) = n - 1 /\ \A i \in 1..(n - 1) : p[i] = s[i]
    <3>1. n - 1 \in Int /\ 1 \in Int /\ (n - 1) - 1 + 1 = n - 1 /\ \A i \in 1..(n - 1) : s[i] \in S
      BY <2>1, <2>2
    <3>2. p \in Seq(S) /\ Len(p) = IF 1 <= n - 1 THEN (n - 1) - 1 + 1 ELSE 0
      BY <3>1, SubSeqProperties
    <3>3. \A i \in 1..((n - 1) - 1 + 1) : p[i] = s[1 + i - 1]
      BY <3>1, SubSeqProperties
    <3> HIDE DEF p
    <3> QED BY <3>2, <3>3, <2>1
  <2>4. q \in Seq(S) /\ Len(q) = n /\ \A i \in 1..n : q[i] = s[i]
    <3>1. n \in Int /\ 1 \in Int /\ \A i \in 1..n : s[i] \in S
      BY <2>1, <2>2
    <3>2. q \in Seq(S) /\ Len(q) = IF 1 <= n THEN n - 1 + 1 ELSE 0
      BY <3>1, SubSeqProperties
    <3>3. \A i \in 1..(n - 1 + 1) : q[i] = s[1 + i - 1]
      BY <3>1, SubSeqProperties
    <3> HIDE DEF q
    <3> QED BY <3>2, <3>3, <2>1
  <2> HIDE DEF p, q
  <2>5. /\ Append(p, s[n]) \in Seq(S) /\ Len(Append(p, s[n])) = n
        /\ \A i \in 1..n : Append(p, s[n])[i] = s[i]
    BY <2>1, <2>2, <2>3
  <2>6. Append(p, s[n]) = q
    BY <2>4, <2>5, SeqEqual
  <2> QED BY <2>6 DEF p, q
<1> QED BY <1>1, <1>2, <1>3

\* A function on places is a sequence.
LEMMA MappedSeq ==
  ASSUME NEW T, NEW s, NEW n \in Nat, DOMAIN s = 1..n, s = [i \in 1..n |-> s[i]],
         \A i \in 1..n : s[i] \in T
  PROVE  s \in Seq(T) /\ Len(s) = n
<1>1. s \in [1..n -> T]
  OBVIOUS
<1>2. s \in Seq(T)
  BY <1>1, SeqDef
<1> QED BY <1>2

\* A sequence that is another with one element more.
LEMMA AppendMakes ==
  ASSUME NEW S, NEW p \in Seq(S), NEW e \in S, NEW q \in Seq(S), Len(q) = Len(p) + 1,
         \A i \in 1..Len(p) : q[i] = p[i], q[Len(p) + 1] = e
  PROVE  Append(p, e) = q
<1> DEFINE r == Append(p, e)
<1>1. Len(p) \in Nat
  OBVIOUS
<1>2. r \in Seq(S)
  BY AppendProperties
<1>3. Len(r) = Len(p) + 1
  BY AppendProperties
<1>4. \A i \in 1..Len(p) : r[i] = p[i]
  BY AppendProperties
<1>5. r[Len(p) + 1] = e
  BY AppendProperties
<1> HIDE DEF r
<1>6. \A i \in 1..Len(r) : r[i] = q[i]
  <2> SUFFICES ASSUME NEW i \in 1..Len(r) PROVE r[i] = q[i]
    OBVIOUS
  <2>1. CASE i \in 1..Len(p)
    BY <2>1, <1>4
  <2>2. CASE i \notin 1..Len(p)
    <3>1. i = Len(p) + 1
      BY <2>2, <1>1, <1>3
    <3> QED BY <3>1, <1>5
  <2> QED BY <2>1, <2>2
<1>7. r = q
  BY <1>2, <1>3, <1>6, SeqEqual
<1> QED BY <1>7 DEF r

LEMMA AppendTwo ==
  ASSUME NEW a, NEW b
  PROVE  Append(<<a>>, b) = <<a, b>>
<1> DEFINE T == {a, b}
           p == <<a>>
           q == <<a, b>>
<1>1. p \in Seq(T) /\ Len(p) = 1 /\ b \in T
  OBVIOUS
<1>2. q \in Seq(T) /\ Len(q) = 2 /\ q[2] = b
  OBVIOUS
<1>3. p[1] = q[1]
  OBVIOUS
<1> HIDE DEF T, p, q
<1>4. \A i \in 1..Len(p) : q[i] = p[i]
  BY <1>1, <1>3
<1>5. Len(q) = Len(p) + 1 /\ q[Len(p) + 1] = b
  BY <1>1, <1>2
<1>6. Append(p, b) = q
  BY <1>1, <1>2, <1>4, <1>5, AppendMakes
<1> QED BY <1>6 DEF p, q

LEMMA AppendThree ==
  ASSUME NEW a, NEW b, NEW c
  PROVE  Append(<<a, b>>, c) = <<a, b, c>>
<1> DEFINE T == {a, b, c}
           p == <<a, b>>
           q == <<a, b, c>>
<1>1. p \in Seq(T) /\ Len(p) = 2 /\ c \in T
  OBVIOUS
<1>2. q \in Seq(T) /\ Len(q) = 3 /\ q[3] = c
  OBVIOUS
<1>3. p[1] = q[1] /\ p[2] = q[2]
  OBVIOUS
<1> HIDE DEF T, p, q
<1>4. \A i \in 1..Len(p) : q[i] = p[i]
  BY <1>1, <1>3
<1>5. Len(q) = Len(p) + 1 /\ q[Len(p) + 1] = c
  BY <1>1, <1>2
<1>6. Append(p, c) = q
  BY <1>1, <1>2, <1>4, <1>5, AppendMakes
<1> QED BY <1>6 DEF p, q

LEMMA AppendFour ==
  ASSUME NEW a, NEW b, NEW c, NEW d
  PROVE  Append(<<a, b, c>>, d) = <<a, b, c, d>>
<1> DEFINE T == {a, b, c, d}
           p == <<a, b, c>>
           q == <<a, b, c, d>>
<1>1. p \in Seq(T) /\ Len(p) = 3 /\ d \in T
  OBVIOUS
<1>2. q \in Seq(T) /\ Len(q) = 4 /\ q[4] = d
  OBVIOUS
<1>3. p[1] = q[1] /\ p[2] = q[2] /\ p[3] = q[3]
  OBVIOUS
<1> HIDE DEF T, p, q
<1>4. \A i \in 1..Len(p) : q[i] = p[i]
  BY <1>1, <1>3
<1>5. Len(q) = Len(p) + 1 /\ q[Len(p) + 1] = d
  BY <1>1, <1>2
<1>6. Append(p, d) = q
  BY <1>1, <1>2, <1>4, <1>5, AppendMakes
<1> QED BY <1>6 DEF p, q

-----------------------------------------------------------------------------
(* Selections *)

LEMMA FieldIs ==
  ASSUME NEW inner, NEW sel \in FieldsOver(inner)
  PROVE  /\ IsField(sel) /\ ~IsSpread(sel) /\ sel.set \in inner
         /\ sel = Field(sel.alias, sel.name, sel.args, sel.directives, sel.set)
         /\ sel.alias \in Names /\ sel.name \in Names
         /\ sel.args \in Seq(Arguments) /\ sel.directives \in Seq(Directives)
         /\ IsTypename(sel) => /\ sel.args = <<>> /\ sel.set = <<>>
                               /\ sel.directives = <<>> \/ ConditionalTypename
BY DEF FieldsOver, IsField, IsSpread, Field

LEMMA SpreadIs ==
  ASSUME NEW sel \in Spreads
  PROVE  /\ ~IsField(sel) /\ IsSpread(sel)
         /\ sel = Spread(sel.spread, sel.directives)
         /\ sel.spread \in Names \ {"on"} /\ sel.directives \in Seq(Directives)
BY DEF Spreads, IsField, IsSpread, Spread

LEMMA InlineIs ==
  ASSUME NEW inner, NEW sel \in InlinesOver(inner)
  PROVE  /\ ~IsField(sel) /\ ~IsSpread(sel) /\ sel.set \in inner /\ sel.set # <<>>
         /\ sel = Inline(sel.on, sel.directives, sel.set)
         /\ sel.on \in Names /\ sel.directives \in Seq(Directives)
BY DEF InlinesOver, IsField, IsSpread, Inline

\* What a selection with another selection set is.
Replaced(sel, new, set) ==
  /\ ~IsSpread(new) /\ new.set = set
  /\ IsField(new) <=> IsField(sel)
  /\ IsTypename(new) <=> IsTypename(sel)
  /\ new.directives = sel.directives
  /\ ~IsField(sel) => new.on = sel.on
  /\ \A other : WithSet(new, other) = WithSet(sel, other)
  /\ new = [sel EXCEPT !.set = new.set]

LEMMA WithSetIs ==
  ASSUME NEW inner, NEW sel \in SelectionsOver(inner), ~IsSpread(sel),
         NEW other, NEW set \in other, IsTypename(sel) => set = <<>>,
         ~IsField(sel) => set # <<>>
  PROVE  WithSet(sel, set) \in SelectionsOver(other) /\ Replaced(sel, WithSet(sel, set), set)
<1>1. CASE sel \in FieldsOver(inner)
  <2> DEFINE new == WithSet(sel, set)
  <2>1. new = Field(sel.alias, sel.name, sel.args, sel.directives, set)
    BY <1>1, FieldIs DEF WithSet, Field
  <2>2. new \in FieldsOver(other)
    BY <2>1, <1>1, FieldIs DEF FieldsOver, Field, IsTypename, IsField
  <2>3. IsField(new) /\ ~IsSpread(new) /\ IsField(sel)
    BY <1>1, <2>2, FieldIs
  <2>4. /\ new.set = set /\ new.alias = sel.alias /\ new.name = sel.name
        /\ new.directives = sel.directives
    BY <2>1 DEF Field
  <2>5. ASSUME NEW s PROVE WithSet(new, s) = WithSet(sel, s)
    BY <2>1, <1>1, FieldIs DEF WithSet, Field
  <2>6. new = [sel EXCEPT !.set = new.set]
    BY <2>4 DEF WithSet
  <2>7. IsTypename(new) <=> IsTypename(sel)
    BY <2>3, <2>4 DEF IsTypename
  <2> HIDE DEF new
  <2>8. Replaced(sel, new, set)
    BY <2>3, <2>4, <2>5, <2>6, <2>7 DEF Replaced
  <2> QED
    BY <2>2, <2>8 DEF new, SelectionsOver
<1>2. CASE sel \in InlinesOver(inner)
  <2> DEFINE new == WithSet(sel, set)
  <2>1. new = Inline(sel.on, sel.directives, set)
    BY <1>2, InlineIs DEF WithSet, Inline
  <2>2. new \in InlinesOver(other)
    BY <2>1, <1>2, InlineIs DEF InlinesOver, Inline
  <2>3. ~IsField(new) /\ ~IsSpread(new) /\ ~IsField(sel)
    BY <1>2, <2>2, InlineIs
  <2>4. new.set = set /\ new.on = sel.on /\ new.directives = sel.directives
    BY <2>1 DEF Inline
  <2>5. ASSUME NEW s PROVE WithSet(new, s) = WithSet(sel, s)
    BY <2>1, <1>2, InlineIs DEF WithSet, Inline
  <2>6. new = [sel EXCEPT !.set = new.set]
    BY <2>4 DEF WithSet
  <2>7. IsTypename(new) <=> IsTypename(sel)
    BY <2>3 DEF IsTypename
  <2> HIDE DEF new
  <2>8. Replaced(sel, new, set)
    BY <2>3, <2>4, <2>5, <2>6, <2>7 DEF Replaced
  <2> QED
    BY <2>2, <2>8 DEF new, SelectionsOver
<1> QED
  BY <1>1, <1>2, SpreadIs DEF SelectionsOver

LEMMA SelectionIs ==
  ASSUME NEW inner, NEW sel \in SelectionsOver(inner)
  PROVE  /\ ~IsSpread(sel) => sel.set \in inner
         /\ IsTypename(sel) => sel.set = <<>>
         /\ ~IsField(sel) /\ ~IsSpread(sel) => sel.set # <<>>
         /\ IsSpread(sel) => ~IsField(sel) /\ ~IsTypename(sel) /\ sel \in Spreads
BY FieldIs, SpreadIs, InlineIs DEF SelectionsOver, IsTypename

LEMMA TypeNameIs ==
  ASSUME NEW inner, <<>> \in inner
  PROVE  /\ TypeName \in SelectionsOver(inner)
         /\ IsField(TypeName) /\ ~IsSpread(TypeName) /\ IsTypename(TypeName)
         /\ TypeName.set = <<>> /\ TypeName.directives = <<>>
         /\ WithSet(TypeName, <<>>) = TypeName
<1>1. TypeName \in FieldsOver(inner)
  <2>1. TypeName \in [alias : Names, name : Names, args : Seq(Arguments),
                      directives : Seq(Directives), set : inner]
    <3>1. <<>> \in Seq(Arguments) /\ <<>> \in Seq(Directives)
      OBVIOUS
    <3> QED BY <3>1, NamesAssumption DEF TypeName, Field
  <2>2. TypeName.args = <<>> /\ TypeName.set = <<>> /\ TypeName.directives = <<>>
    BY DEF TypeName, Field
  <2> QED BY <2>1, <2>2 DEF FieldsOver
<1>2. IsField(TypeName) /\ ~IsSpread(TypeName) /\ IsTypename(TypeName)
  BY <1>1, FieldIs DEF TypeName, Field, IsTypename
<1>3. TypeName.set = <<>> /\ TypeName.directives = <<>>
  BY DEF TypeName, Field
<1>4. WithSet(TypeName, <<>>) = TypeName
  <2>1. TypeName = Field(TypeName.alias, TypeName.name, TypeName.args, TypeName.directives, <<>>)
    BY <1>1, <1>3, FieldIs
  <2> QED
    BY <2>1 DEF WithSet, Field
<1> QED
  BY <1>1, <1>2, <1>3, <1>4 DEF SelectionsOver

-----------------------------------------------------------------------------
(* Selection sets by their depth *)

LEMMA SetsLoop ==
  /\ SetsUpTo[0] = {<<>>}
  /\ \A depth \in 1..MaxDepth : SetsUpTo[depth] = Seq(SelectionsOver(SetsUpTo[depth - 1]))
<1> DEFINE Over(inner) == Seq(SelectionsOver(inner))
           Is(f, n) == f = [d \in 0..n |-> IF d = 0 THEN {<<>>} ELSE Over(f[d - 1])]
           S == {n \in 0..MaxDepth : \E f : Is(f, n)}
<1>0. MaxDepth \in Nat
  BY DepthAssumption
<1>1. 0 \in S
  <2>1. Is([d \in 0..0 |-> {<<>>}], 0)
    <3> HIDE DEF Over
    <3> QED OBVIOUS
  <2> HIDE DEF Is
  <2> QED BY <2>1, <1>0
<1>2. ASSUME NEW n \in 1..MaxDepth, n - 1 \in S PROVE n \in S
  <2> HIDE DEF Over
  <2>1. PICK f : Is(f, n - 1)
    BY <1>2
  <2> DEFINE g == [d \in 0..n |-> IF d = n THEN Over(f[n - 1]) ELSE f[d]]
  <2>2. ASSUME NEW d \in 0..n PROVE g[d] = IF d = 0 THEN {<<>>} ELSE Over(g[d - 1])
    <3>1. CASE d = n
      BY <3>1, <1>0
    <3>2. CASE d # n
      <4>1. d \in 0..(n - 1) /\ g[d] = f[d] /\ (d # 0 => g[d - 1] = f[d - 1])
        BY <3>2, <1>0
      <4>2. f[d] = IF d = 0 THEN {<<>>} ELSE Over(f[d - 1])
        BY <4>1, <2>1
      <4> QED BY <4>1, <4>2
    <3> QED BY <3>1, <3>2
  <2>3. Is(g, n)
    <3>1. g = [d \in 0..n |-> g[d]]
      OBVIOUS
    <3> HIDE DEF g
    <3> QED BY <2>2, <3>1
  <2> HIDE DEF Is, g
  <2> QED BY <2>3
<1>3. MaxDepth \in S
  <2>1. MaxDepth \in 0..MaxDepth
    BY <1>0
  <2> HIDE DEF S
  <2> QED BY <2>1, <1>0, <1>1, <1>2, UpTo
<1>4. SetsUpTo = CHOOSE f : Is(f, MaxDepth)
  BY DEF SetsUpTo
<1>5. Is(SetsUpTo, MaxDepth)
  <2> HIDE DEF Is
  <2> QED BY <1>3, <1>4
<1> HIDE DEF Over
<1>6. SetsUpTo[0] = {<<>>}
  BY <1>0, <1>5
<1>7. ASSUME NEW depth \in 1..MaxDepth PROVE SetsUpTo[depth] = Over(SetsUpTo[depth - 1])
  <2>1. depth \in 0..MaxDepth /\ depth # 0
    BY <1>0
  <2> QED BY <2>1, <1>5
<1> QED
  BY <1>6, <1>7 DEF Over

LEMMA EmptySet == ASSUME NEW depth \in 0..MaxDepth PROVE <<>> \in SetsUpTo[depth]
<1>1. CASE depth = 0
  BY <1>1, SetsLoop
<1>2. CASE depth # 0
  <2>1. depth \in 1..MaxDepth
    BY <1>2, DepthAssumption
  <2> DEFINE selections == SelectionsOver(SetsUpTo[depth - 1])
  <2> HIDE DEF selections
  <2>2. <<>> \in Seq(selections)
    OBVIOUS
  <2> QED BY <2>1, <2>2, SetsLoop DEF selections
<1> QED BY <1>1, <1>2

LEMMA SelectionsGrow ==
  ASSUME NEW inner, NEW other, inner \subseteq other
  PROVE  SelectionsOver(inner) \subseteq SelectionsOver(other)
BY DEF SelectionsOver, FieldsOver, InlinesOver

\* A set that is nested less deep is a set that may be nested deeper.
LEMMA SetsGrow ==
  ASSUME NEW depth \in 1..MaxDepth
  PROVE  SetsUpTo[depth - 1] \subseteq SetsUpTo[depth]
<1> DEFINE S == {d \in 0..MaxDepth : d = 0 \/ SetsUpTo[d - 1] \subseteq SetsUpTo[d]}
<1>0. MaxDepth \in Nat
  BY DepthAssumption
<1>1. 0 \in S
  BY <1>0
<1>2. ASSUME NEW d \in 1..MaxDepth, d - 1 \in S PROVE d \in S
  <2>1. CASE d = 1
    <3>1. SetsUpTo[d - 1] = {<<>>} /\ <<>> \in SetsUpTo[d]
      BY <2>1, SetsLoop, EmptySet
    <3> QED BY <3>1
  <2>2. CASE d # 1
    <3> DEFINE lower == SelectionsOver(SetsUpTo[(d - 1) - 1])
               upper == SelectionsOver(SetsUpTo[d - 1])
    <3>1. SetsUpTo[(d - 1) - 1] \subseteq SetsUpTo[d - 1]
      BY <1>2, <2>2, <1>0
    <3>2. lower \subseteq upper
      BY <3>1, SelectionsGrow
    <3>3. SetsUpTo[d - 1] = Seq(lower)
      <4>1. d - 1 \in 1..MaxDepth
        BY <2>2, <1>0
      <4> QED BY <4>1, SetsLoop
    <3>4. SetsUpTo[d] = Seq(upper)
      BY SetsLoop
    <3> HIDE DEF lower, upper
    <3>5. Seq(lower) \subseteq Seq(upper)
      BY <3>2, SeqMonotonic
    <3> QED BY <3>3, <3>4, <3>5
  <2> QED BY <2>1, <2>2
<1>3. 0..MaxDepth \subseteq S
  <2> HIDE DEF S
  <2> QED BY <1>0, <1>1, <1>2, UpTo
<1>4. depth \in S
  BY <1>0, <1>3
<1> QED
  BY <1>4

\* Whatever depth a set has, it is a selection set of a document.
LEMMA AllGrow == ASSUME NEW depth \in 0..MaxDepth PROVE SetsUpTo[depth] \subseteq SelectionSets
<1> DEFINE S == {d \in 0..MaxDepth : SetsUpTo[MaxDepth - d] \subseteq SelectionSets}
<1>0. MaxDepth \in Nat
  BY DepthAssumption
<1>1. 0 \in S
  BY <1>0 DEF SelectionSets
<1>2. ASSUME NEW d \in 1..MaxDepth, d - 1 \in S PROVE d \in S
  <2>1. MaxDepth - (d - 1) \in 1..MaxDepth /\ (MaxDepth - (d - 1)) - 1 = MaxDepth - d
    BY <1>0
  <2>2. SetsUpTo[(MaxDepth - (d - 1)) - 1] \subseteq SetsUpTo[MaxDepth - (d - 1)]
    BY <2>1, SetsGrow
  <2>3. SetsUpTo[MaxDepth - d] \subseteq SelectionSets
    BY <2>1, <2>2, <1>2
  <2> QED BY <2>3, <1>0
<1>3. 0..MaxDepth \subseteq S
  <2> HIDE DEF S
  <2> QED BY <1>0, <1>1, <1>2, UpTo
<1>4. MaxDepth - depth \in S /\ MaxDepth - (MaxDepth - depth) = depth
  BY <1>0, <1>3
<1> QED
  BY <1>4

\* A set is a sequence of selections of which the inner sets are selection sets.
LEMMA SetIs == ASSUME NEW set \in SelectionSets PROVE set \in Seq(SelectionsOver(SelectionSets))
<1> USE DepthAssumption
<1> DEFINE selections == SelectionsOver(SelectionSets)
<1>1. CASE MaxDepth = 0
  <2>1. set = <<>>
    BY <1>1, SetsLoop DEF SelectionSets
  <2> HIDE DEF selections
  <2> QED BY <2>1
<1>2. CASE MaxDepth # 0
  <2> DEFINE inner == SelectionsOver(SetsUpTo[MaxDepth - 1])
  <2>1. MaxDepth \in 1..MaxDepth /\ MaxDepth - 1 \in 0..MaxDepth
    BY <1>2
  <2>2. set \in Seq(inner)
    BY <2>1, SetsLoop DEF SelectionSets
  <2>3. inner \subseteq selections
    BY <2>1, AllGrow, SelectionsGrow
  <2> HIDE DEF inner, selections
  <2>4. Seq(inner) \subseteq Seq(selections)
    BY <2>3, SeqMonotonic
  <2> QED BY <2>2, <2>4 DEF selections
<1> QED BY <1>1, <1>2
=============================================================================
