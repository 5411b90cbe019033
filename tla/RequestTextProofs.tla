--------------------------- MODULE RequestTextProofs ---------------------------
(***************************************************************************)
(* What is proved of AddTypename and of Print, for every document.          *)
(***************************************************************************)
EXTENDS RequestReading, DocumentsProofs, FiniteSetTheorems

-----------------------------------------------------------------------------
(* AddTypename on a selection set *)

\* What transforms the sets of a depth.
Transforms(depth) ==
  {f \in [SetsUpTo[depth] -> SetsUpTo[depth]] :
     \A set \in SetsUpTo[depth] : f[set] = <<>> <=> set = <<>>}

LEMMA TransformSelectionIs ==
  ASSUME NEW depth \in 1..MaxDepth, NEW inside \in Transforms(depth - 1),
         NEW sel \in SelectionsOver(SetsUpTo[depth - 1])
  PROVE  /\ TransformSelection(sel, inside) \in SelectionsOver(SetsUpTo[depth - 1])
         /\ IsSpread(sel) => TransformSelection(sel, inside) = sel
         /\ ~IsSpread(sel) => /\ TransformSelection(sel, inside) = WithSet(sel, inside[sel.set])
                              /\ sel.set \in SetsUpTo[depth - 1]
                              /\ Replaced(sel, TransformSelection(sel, inside), inside[sel.set])
         /\ IsField(TransformSelection(sel, inside)) <=> IsField(sel)
         /\ IsTypename(TransformSelection(sel, inside)) <=> IsTypename(sel)
<1> DEFINE sets == SetsUpTo[depth - 1]
<1>1. CASE IsSpread(sel)
  BY <1>1 DEF TransformSelection
<1>2. CASE ~IsSpread(sel)
  <2>1. sel.set \in sets /\ (IsTypename(sel) => sel.set = <<>>) /\ (~IsField(sel) => sel.set # <<>>)
    BY <1>2, SelectionIs
  <2>2. inside \in [sets -> sets] /\ \A set \in sets : inside[set] = <<>> <=> set = <<>>
    BY DEF Transforms
  <2> HIDE DEF sets
  <2>3. /\ inside[sel.set] \in sets /\ (IsTypename(sel) => inside[sel.set] = <<>>)
        /\ ~IsField(sel) => inside[sel.set] # <<>>
    BY <2>1, <2>2
  <2>4. TransformSelection(sel, inside) = WithSet(sel, inside[sel.set])
    BY <1>2 DEF TransformSelection
  <2>5. /\ WithSet(sel, inside[sel.set]) \in SelectionsOver(sets)
        /\ Replaced(sel, WithSet(sel, inside[sel.set]), inside[sel.set])
    BY <2>3, <1>2, WithSetIs DEF sets
  <2> QED
    BY <2>1, <2>4, <2>5, <1>2 DEF Replaced, sets
<1> QED
  BY <1>1, <1>2

\* What a set becomes, place by place.
LEMMA TransformIs ==
  ASSUME NEW depth \in 1..MaxDepth, NEW inside \in Transforms(depth - 1),
         NEW set \in SetsUpTo[depth]
  PROVE  /\ Transform(set, inside) \in SetsUpTo[depth]
         /\ Len(Transform(set, inside)) = Len(set) + IF Lacks(set) THEN 1 ELSE 0
         /\ \A i \in 1..Len(set) :
              /\ set[i] \in SelectionsOver(SetsUpTo[depth - 1])
              /\ Transform(set, inside)[i] = TransformSelection(set[i], inside)
         /\ Lacks(set) => Transform(set, inside)[Len(set) + 1] = TypeName
<1> DEFINE selections == SelectionsOver(SetsUpTo[depth - 1])
           front == [i \in DOMAIN set |-> TransformSelection(set[i], inside)]
           back == IF Lacks(set) THEN <<TypeName>> ELSE <<>>
<1>1. set \in Seq(selections)
  BY SetsLoop
<1>2. \A sel \in selections : TransformSelection(sel, inside) \in selections
  BY TransformSelectionIs
<1>3. TypeName \in selections
  <2>1. depth - 1 \in 0..MaxDepth
    BY DepthAssumption
  <2> QED BY <2>1, EmptySet, TypeNameIs
<1>4. Transform(set, inside) = front \o back
  BY DEF Transform
<1>5. SetsUpTo[depth] = Seq(selections)
  BY SetsLoop
<1> HIDE DEF selections
<1>6. DOMAIN set = 1..Len(set) /\ Len(set) \in Nat /\ \A i \in 1..Len(set) : set[i] \in selections
  BY <1>1
<1>7. front \in Seq(selections) /\ Len(front) = Len(set)
  BY <1>2, <1>6
<1>8. /\ back \in Seq(selections) /\ Len(back) = IF Lacks(set) THEN 1 ELSE 0
      /\ Lacks(set) => back[1] = TypeName
  BY <1>3
<1>9. \A i \in 1..Len(set) : front[i] = TransformSelection(set[i], inside)
  BY <1>6
<1> HIDE DEF front, back
<1>10. front \o back \in Seq(selections) /\ Len(front \o back) = Len(set) + Len(back)
  <2>1. front \o back \in Seq(selections) /\ Len(front \o back) = Len(front) + Len(back)
    BY <1>7, <1>8, ConcatProperties
  <2> QED BY <2>1, <1>7
<1>11. \A i \in 1..Len(set) : (front \o back)[i] = front[i]
  BY <1>6, <1>7, <1>8
<1>12. Lacks(set) => (front \o back)[Len(set) + 1] = TypeName
  BY <1>6, <1>7, <1>8
<1> QED
  BY <1>4, <1>5, <1>6, <1>8, <1>9, <1>10, <1>11, <1>12 DEF selections

LEMMA TransformLoop ==
  /\ \A depth \in 0..MaxDepth : TransformUpTo[depth] \in Transforms(depth)
  /\ \A depth \in 1..MaxDepth : \A set \in SetsUpTo[depth] :
       TransformUpTo[depth][set] = Transform(set, TransformUpTo[depth - 1])
<1> DEFINE Level(depth, inside) ==
             [set \in SetsUpTo[depth] |-> IF depth = 0 THEN <<>> ELSE Transform(set, inside)]
           Is(f) == f = [depth \in 0..MaxDepth |-> Level(depth, f[depth - 1])]
           A == [depth \in 0..MaxDepth |-> Transforms(depth)]
           base == [set \in SetsUpTo[0] |-> <<>>]
           next == [depth \in 1..MaxDepth |->
                      [inside \in A[depth - 1] |-> Level(depth, inside)]]
<1>0. MaxDepth \in Nat
  BY DepthAssumption
<1>1. base \in A[0]
  BY <1>0, SetsLoop DEF Transforms
<1>2. ASSUME NEW depth \in 1..MaxDepth, NEW inside \in Transforms(depth - 1)
      PROVE  Level(depth, inside) \in Transforms(depth)
  <2>1. Transform(<<>>, inside) = <<>>
    <3>1. <<>> \in SetsUpTo[depth] /\ ~Lacks(<<>>)
      BY <1>0, EmptySet DEF Lacks, HasAnyField
    <3>2. Len(Transform(<<>>, inside)) = 0 /\ Transform(<<>>, inside) \in SetsUpTo[depth]
      BY <3>1, TransformIs
    <3> DEFINE selections == SelectionsOver(SetsUpTo[depth - 1])
               t == Transform(<<>>, inside)
    <3>3. t \in Seq(selections) /\ Len(t) = 0
      BY <3>2, SetsLoop
    <3> HIDE DEF selections, t
    <3>4. t = <<>>
      BY <3>3
    <3> QED BY <3>4 DEF t
  <2>2. \A set \in SetsUpTo[depth] : Transform(set, inside) \in SetsUpTo[depth]
    BY TransformIs
  <2>3. ASSUME NEW set \in SetsUpTo[depth], Transform(set, inside) = <<>> PROVE set = <<>>
    <3> DEFINE selections == SelectionsOver(SetsUpTo[depth - 1])
    <3>1. set \in Seq(selections)
      BY SetsLoop
    <3> HIDE DEF selections
    <3>2. Len(set) \in Nat /\ Len(Transform(set, inside)) = 0
      BY <2>3, <3>1
    <3>3. Len(set) = 0
      BY <3>2, TransformIs
    <3> QED BY <3>1, <3>3
  <2> QED
    BY <2>1, <2>2, <2>3 DEF Transforms
<1>3. \A depth \in 1..MaxDepth : next[depth] \in [A[depth - 1] -> A[depth]]
  <2> HIDE DEF Level
  <2> SUFFICES ASSUME NEW depth \in 1..MaxDepth PROVE next[depth] \in [A[depth - 1] -> A[depth]]
    OBVIOUS
  <2>1. A[depth - 1] = Transforms(depth - 1) /\ A[depth] = Transforms(depth)
    BY <1>0
  <2>2. next[depth] = [inside \in A[depth - 1] |-> Level(depth, inside)]
    OBVIOUS
  <2> HIDE DEF A, next
  <2> QED BY <2>1, <2>2, <1>2
<1>4. ASSUME NEW f, f = [depth \in 0..MaxDepth |-> f[depth]],
             f[0] = base,
             \A depth \in 1..MaxDepth : f[depth] = Level(depth, f[depth - 1])
      PROVE  Is(f)
  <2>1. ASSUME NEW depth \in 0..MaxDepth PROVE f[depth] = Level(depth, f[depth - 1])
    <3>1. CASE depth = 0
      BY <3>1, <1>4
    <3>2. CASE depth # 0
      <4>1. depth \in 1..MaxDepth
        BY <3>2, <1>0
      <4> HIDE DEF Level
      <4> QED BY <4>1, <1>4
    <3> QED BY <3>1, <3>2
  <2> HIDE DEF Level
  <2> QED BY <2>1, <1>4
<1>5. PICK f : IsRounds(f, MaxDepth, A, base, next)
  <2> HIDE DEF A, base, next
  <2> QED BY <1>0, <1>1, <1>3, RoundsExist
<1>6. Is(f)
  <2> HIDE DEF Level, base, Is
  <2>1. f = [depth \in 0..MaxDepth |-> f[depth]] /\ f[0] = base
    BY <1>5 DEF IsRounds
  <2>2. ASSUME NEW depth \in 1..MaxDepth PROVE f[depth] = Level(depth, f[depth - 1])
    <3>1. depth - 1 \in 0..MaxDepth
      BY <1>0
    <3>2. f[depth] = next[depth][f[depth - 1]] /\ f[depth - 1] \in A[depth - 1]
      <4> HIDE DEF A, next
      <4> QED BY <3>1, <1>5 DEF IsRounds
    <3> QED BY <3>2
  <2> QED BY <2>1, <2>2, <1>4
<1>7. TransformUpTo = CHOOSE g : Is(g)
  BY DEF TransformUpTo
<1>8. Is(TransformUpTo)
  <2> HIDE DEF Is
  <2> QED BY <1>6, <1>7
<1>9. \A depth \in 0..MaxDepth : TransformUpTo[depth] = Level(depth, TransformUpTo[depth - 1])
  <2> HIDE DEF Level
  <2> QED BY <1>8
<1>10. IsRounds(TransformUpTo, MaxDepth, A, base, next)
  <2> DEFINE g == TransformUpTo
  <2>1. g = [depth \in 0..MaxDepth |-> g[depth]]
    <3> HIDE DEF Level
    <3> QED BY <1>8
  <2>2. g[0] = base
    BY <1>0, <1>9
  <2>3. ASSUME NEW depth \in 1..MaxDepth, g[depth - 1] \in A[depth - 1]
        PROVE  g[depth] = next[depth][g[depth - 1]]
    <3>1. g[depth] = Level(depth, g[depth - 1])
      BY <1>0, <1>9
    <3> HIDE DEF g, Level, A
    <3> QED BY <3>1, <2>3
  <2> HIDE DEF g, A, base, next
  <2>4. IsRounds(g, MaxDepth, A, base, next)
    BY <1>0, <1>1, <1>3, <2>1, <2>2, <2>3, RoundsType
  <2> QED BY <2>4 DEF g
<1>11. \A depth \in 0..MaxDepth : TransformUpTo[depth] \in Transforms(depth)
  <2>1. \A depth \in 0..MaxDepth : TransformUpTo[depth] \in A[depth]
    <3> HIDE DEF A, base, next
    <3> QED BY <1>10 DEF IsRounds
  <2> QED BY <2>1
<1>12. ASSUME NEW depth \in 1..MaxDepth, NEW set \in SetsUpTo[depth]
       PROVE  TransformUpTo[depth][set] = Transform(set, TransformUpTo[depth - 1])
  <2>1. depth \in 0..MaxDepth /\ depth # 0
    BY <1>0
  <2>2. TransformUpTo[depth] = Level(depth, TransformUpTo[depth - 1])
    BY <2>1, <1>9
  <2> QED BY <2>1, <2>2
<1> QED
  BY <1>11, <1>12

\* A set that was transformed lacks nothing.
LEMMA TransformedIs ==
  ASSUME NEW depth \in 1..MaxDepth, NEW inside \in Transforms(depth - 1),
         NEW set \in SetsUpTo[depth]
  PROVE  /\ ~Lacks(Transform(set, inside))
         /\ HasAnyField(Transform(set, inside)) => HasTypename(Transform(set, inside))
<1> DEFINE new == Transform(set, inside)
           selections == SelectionsOver(SetsUpTo[depth - 1])
<1>1. DOMAIN set = 1..Len(set) /\ Len(set) \in Nat
  <2>1. set \in Seq(selections)
    BY SetsLoop
  <2> HIDE DEF selections
  <2> QED BY <2>1
<1>2. DOMAIN new = 1..Len(new) /\ Len(new) \in Nat
  <2>1. new \in Seq(selections)
    BY SetsLoop, TransformIs
  <2> HIDE DEF selections, new
  <2> QED BY <2>1
<1>3. /\ Len(new) = Len(set) + IF Lacks(set) THEN 1 ELSE 0
      /\ \A i \in 1..Len(set) : /\ set[i] \in SelectionsOver(SetsUpTo[depth - 1])
                                /\ new[i] = TransformSelection(set[i], inside)
      /\ Lacks(set) => new[Len(set) + 1] = TypeName
  BY TransformIs
<1>4. ASSUME NEW i \in 1..Len(set)
      PROVE  /\ IsField(new[i]) <=> IsField(set[i])
             /\ IsTypename(new[i]) <=> IsTypename(set[i])
  <2> DEFINE sel == set[i]
  <2>1. sel \in SelectionsOver(SetsUpTo[depth - 1]) /\ new[i] = TransformSelection(sel, inside)
    BY <1>3
  <2> HIDE DEF sel, new
  <2>2. /\ IsField(TransformSelection(sel, inside)) <=> IsField(sel)
        /\ IsTypename(TransformSelection(sel, inside)) <=> IsTypename(sel)
    BY <2>1, TransformSelectionIs
  <2> QED BY <2>1, <2>2 DEF sel
<1>5. CASE Lacks(set)
  <2>1. Len(set) + 1 \in DOMAIN new /\ new[Len(set) + 1] = TypeName
    BY <1>1, <1>2, <1>3, <1>5
  <2>2. IsTypename(TypeName)
    <3>1. <<>> \in SetsUpTo[depth]
      BY DepthAssumption, EmptySet
    <3> QED BY <3>1, TypeNameIs
  <2>3. HasTypename(new)
    BY <2>1, <2>2 DEF HasTypename
  <2> QED BY <2>3 DEF Lacks
<1>6. CASE ~Lacks(set)
  <2>1. DOMAIN new = DOMAIN set
    BY <1>1, <1>2, <1>3, <1>6
  <2>2. /\ HasAnyField(new) <=> HasAnyField(set)
        /\ HasTypename(new) <=> HasTypename(set)
    <3> HIDE DEF new
    <3>1. \A i \in DOMAIN set : IsField(new[i]) <=> IsField(set[i])
      BY <1>1, <1>4
    <3>2. \A i \in DOMAIN set : IsTypename(new[i]) <=> IsTypename(set[i])
      BY <1>1, <1>4
    <3>3. HasAnyField(new) <=> HasAnyField(set)
      BY <2>1, <3>1 DEF HasAnyField
    <3>4. HasTypename(new) <=> HasTypename(set)
      BY <2>1, <3>2 DEF HasTypename
    <3> QED BY <3>3, <3>4
  <2> QED BY <2>2, <1>6 DEF Lacks
<1> QED
  BY <1>5, <1>6

\* Two sets are equal if they are so place by place.
LEMMA SameSets ==
  ASSUME NEW depth \in 1..MaxDepth, NEW one \in SetsUpTo[depth], NEW other \in SetsUpTo[depth],
         Len(one) = Len(other), \A i \in 1..Len(one) : one[i] = other[i]
  PROVE  one = other
<1> DEFINE selections == SelectionsOver(SetsUpTo[depth - 1])
<1>1. one \in Seq(selections) /\ other \in Seq(selections)
  BY SetsLoop
<1> HIDE DEF selections
<1> QED
  BY <1>1, SeqEqual

LEMMA LenIs ==
  ASSUME NEW depth \in 0..MaxDepth, NEW set \in SetsUpTo[depth]
  PROVE  Len(set) \in Nat /\ DOMAIN set = 1..Len(set)
<1>1. CASE depth = 0
  BY <1>1, SetsLoop
<1>2. CASE depth # 0
  <2> DEFINE selections == SelectionsOver(SetsUpTo[depth - 1])
  <2>1. set \in Seq(selections)
    <3>1. depth \in 1..MaxDepth
      BY <1>2, DepthAssumption
    <3> QED BY <3>1, SetsLoop
  <2> HIDE DEF selections
  <2> QED BY <2>1
<1> QED BY <1>1, <1>2

\* One level: the second pass finds nothing to do if it finds nothing inside.
LEMMA TransformTwiceInside ==
  ASSUME NEW depth \in 1..MaxDepth, NEW inside \in Transforms(depth - 1),
         \A s \in SetsUpTo[depth - 1] : inside[inside[s]] = inside[s],
         NEW set \in SetsUpTo[depth]
  PROVE  Transform(Transform(set, inside), inside) = Transform(set, inside)
<1> DEFINE new == Transform(set, inside)
           again == Transform(new, inside)
<1>1. new \in SetsUpTo[depth] /\ again \in SetsUpTo[depth]
  BY TransformIs
<1>2. ~Lacks(new)
  BY TransformedIs
<1>3. Len(set) \in Nat /\ Len(new) \in Nat
  <2>1. depth \in 0..MaxDepth
    BY DepthAssumption
  <2> QED BY <1>1, <2>1, LenIs
<1>4. Len(again) = Len(new)
  <2>1. Len(again) = Len(new) + IF Lacks(new) THEN 1 ELSE 0
    BY <1>1, TransformIs
  <2> QED BY <2>1, <1>2, <1>3
<1>5. \A i \in 1..Len(new) : again[i] = TransformSelection(new[i], inside)
  BY <1>1, TransformIs
<1>6. ASSUME NEW i \in 1..Len(set) PROVE TransformSelection(new[i], inside) = new[i]
  <2> DEFINE sel == set[i]
  <2>1. new[i] = TransformSelection(sel, inside) /\ sel \in SelectionsOver(SetsUpTo[depth - 1])
    BY TransformIs
  <2> HIDE DEF sel, new
  <2>2. CASE IsSpread(sel)
    BY <2>1, <2>2 DEF TransformSelection
  <2>3. CASE ~IsSpread(sel)
    <3>1. /\ new[i] = WithSet(sel, inside[sel.set]) /\ sel.set \in SetsUpTo[depth - 1]
          /\ Replaced(sel, new[i], inside[sel.set])
      BY <2>1, <2>3, TransformSelectionIs
    <3>2. TransformSelection(new[i], inside) = WithSet(new[i], inside[inside[sel.set]])
      BY <3>1 DEF Replaced, TransformSelection
    <3>3. inside[inside[sel.set]] = inside[sel.set]
      BY <3>1
    <3>4. WithSet(new[i], inside[sel.set]) = WithSet(sel, inside[sel.set])
      BY <3>1 DEF Replaced
    <3> QED BY <3>1, <3>2, <3>3, <3>4
  <2> QED BY <2>2, <2>3
<1>7. ASSUME Lacks(set) PROVE TransformSelection(new[Len(set) + 1], inside) = new[Len(set) + 1]
  <2>1. new[Len(set) + 1] = TypeName
    BY <1>7, TransformIs
  <2>2. /\ ~IsSpread(TypeName) /\ TypeName.set = <<>> /\ WithSet(TypeName, <<>>) = TypeName
    <3>1. <<>> \in SetsUpTo[depth]
      BY DepthAssumption, EmptySet
    <3> QED BY <3>1, TypeNameIs
  <2>3. inside[<<>>] = <<>>
    <3>1. depth - 1 \in 0..MaxDepth
      BY DepthAssumption
    <3>2. <<>> \in SetsUpTo[depth - 1]
      BY <3>1, EmptySet
    <3> QED BY <3>2 DEF Transforms
  <2> QED BY <2>1, <2>2, <2>3 DEF TransformSelection
<1>8. Len(new) = Len(set) + IF Lacks(set) THEN 1 ELSE 0
  BY TransformIs
<1>9. \A i \in 1..Len(new) : again[i] = new[i]
  <2> SUFFICES ASSUME NEW i \in 1..Len(new) PROVE TransformSelection(new[i], inside) = new[i]
    BY <1>5
  <2>1. CASE i \in 1..Len(set)
    BY <2>1, <1>6
  <2>2. CASE i \notin 1..Len(set)
    <3>1. Lacks(set) /\ i = Len(set) + 1
      BY <2>2, <1>3, <1>8
    <3> QED BY <3>1, <1>7
  <2> QED BY <2>1, <2>2
<1> HIDE DEF new, again
<1>10. again = new
  BY <1>1, <1>3, <1>4, <1>9, SameSets
<1> QED
  BY <1>10 DEF again, new

LEMMA TransformTwice ==
  ASSUME NEW depth \in 0..MaxDepth, NEW set \in SetsUpTo[depth]
  PROVE  TransformUpTo[depth][TransformUpTo[depth][set]] = TransformUpTo[depth][set]
<1> DEFINE Twice(d) == \A s \in SetsUpTo[d] :
                         TransformUpTo[d][TransformUpTo[d][s]] = TransformUpTo[d][s]
           S == {d \in 0..MaxDepth : Twice(d)}
<1>0. MaxDepth \in Nat
  BY DepthAssumption
<1>1. 0 \in S
  <2>1. SetsUpTo[0] = {<<>>} /\ TransformUpTo[0] \in Transforms(0)
    BY <1>0, SetsLoop, TransformLoop
  <2>2. TransformUpTo[0][<<>>] = <<>>
    BY <2>1 DEF Transforms
  <2> QED BY <2>1, <2>2, <1>0
<1>2. ASSUME NEW d \in 1..MaxDepth, d - 1 \in S PROVE d \in S
  <2> DEFINE inside == TransformUpTo[d - 1]
  <2>1. d - 1 \in 0..MaxDepth /\ d \in 0..MaxDepth
    BY <1>0
  <2>2. inside \in Transforms(d - 1)
    BY <2>1, TransformLoop
  <2>3. \A s \in SetsUpTo[d - 1] : inside[inside[s]] = inside[s]
    BY <1>2
  <2>4. \A s \in SetsUpTo[d] : TransformUpTo[d][s] = Transform(s, inside)
    BY TransformLoop
  <2> HIDE DEF inside
  <2>5. \A s \in SetsUpTo[d] : Transform(s, inside) \in SetsUpTo[d]
    BY <2>2, TransformIs
  <2>6. \A s \in SetsUpTo[d] : Transform(Transform(s, inside), inside) = Transform(s, inside)
    BY <2>2, <2>3, TransformTwiceInside
  <2>7. Twice(d)
    BY <2>4, <2>5, <2>6
  <2> HIDE DEF Twice
  <2> QED BY <2>1, <2>7
<1>3. 0..MaxDepth \subseteq S
  <2> HIDE DEF S
  <2> QED BY <1>0, <1>1, <1>2, UpTo
<1>4. Twice(depth)
  BY <1>3
<1> QED
  BY <1>4

-----------------------------------------------------------------------------
(* AddTypename on a document *)

Operations == [type : OperationTypes, name : Names, variables : Seq(Variables), set : SelectionSets]
Fragments == [on : Names, set : SelectionSets]

\* What a part of a document with another selection set is.
NewSet(part, new, set) ==
  /\ ~IsSpread(part) /\ ~IsSpread(new) /\ new.set = set
  /\ new = [part EXCEPT !.set = new.set]
  /\ \A other : WithSet(new, other) = WithSet(part, other)

LEMMA OperationIs ==
  ASSUME NEW op \in Operations, NEW set \in SelectionSets
  PROVE  /\ WithSet(op, set) \in Operations /\ NewSet(op, WithSet(op, set), set)
         /\ WithSet(op, set).name = op.name
<1> DEFINE new == WithSet(op, set)
<1>1. new = [type |-> op.type, name |-> op.name, variables |-> op.variables, set |-> set]
  BY DEF WithSet, Operations
<1>2. new \in Operations /\ new.set = set /\ new.name = op.name
  BY <1>1 DEF Operations
<1>3. ~IsSpread(op) /\ ~IsSpread(new)
  BY <1>2 DEF IsSpread, Operations
<1>4. ASSUME NEW other PROVE WithSet(new, other) = WithSet(op, other)
  BY <1>1 DEF WithSet, Operations
<1>5. new = [op EXCEPT !.set = new.set]
  BY <1>2 DEF WithSet
<1> QED
  BY <1>2, <1>3, <1>4, <1>5 DEF NewSet

LEMMA FragmentIs ==
  ASSUME NEW fragment \in Fragments, NEW set \in SelectionSets
  PROVE  /\ WithSet(fragment, set) \in Fragments
         /\ NewSet(fragment, WithSet(fragment, set), set)
         /\ WithSet(fragment, set).on = fragment.on
<1> DEFINE new == WithSet(fragment, set)
<1>1. new = [on |-> fragment.on, set |-> set]
  BY DEF WithSet, Fragments
<1>2. new \in Fragments /\ new.set = set /\ new.on = fragment.on
  BY <1>1 DEF Fragments
<1>3. ~IsSpread(fragment) /\ ~IsSpread(new)
  BY <1>2 DEF IsSpread, Fragments
<1>4. ASSUME NEW other PROVE WithSet(new, other) = WithSet(fragment, other)
  BY <1>1 DEF WithSet, Fragments
<1>5. new = [fragment EXCEPT !.set = new.set]
  BY <1>2 DEF WithSet
<1> QED
  BY <1>2, <1>3, <1>4, <1>5 DEF NewSet

LEMMA TransformSetIs ==
  ASSUME NEW set \in SelectionSets
  PROVE  /\ TransformSelectionSet(set) \in SelectionSets
         /\ TransformSelectionSet(TransformSelectionSet(set)) = TransformSelectionSet(set)
<1>1. MaxDepth \in 0..MaxDepth
  BY DepthAssumption
<1>2. TransformUpTo[MaxDepth] \in [SelectionSets -> SelectionSets]
  BY <1>1, TransformLoop DEF Transforms, SelectionSets
<1> QED
  BY <1>1, <1>2, TransformTwice DEF TransformSelectionSet, SelectionSets

\* A document, part by part.
LEMMA DocumentIs ==
  ASSUME NEW doc, IsDocument(doc)
  PROVE  /\ doc.operations \in Seq(Operations)
         /\ doc.operations = [i \in DOMAIN doc.operations |-> doc.operations[i]]
         /\ \A i \in DOMAIN doc.operations : doc.operations[i] \in Operations
         /\ doc.fragments = [name \in DOMAIN doc.fragments |-> doc.fragments[name]]
         /\ \A name \in DOMAIN doc.fragments : doc.fragments[name] \in Fragments
<1>1. doc.operations \in Seq(Operations)
  BY DEF IsDocument, Operations
<1>2. /\ doc.operations = [i \in DOMAIN doc.operations |-> doc.operations[i]]
      /\ \A i \in DOMAIN doc.operations : doc.operations[i] \in Operations
  <2> HIDE DEF Operations
  <2> QED BY <1>1
<1> QED
  BY <1>1, <1>2 DEF IsDocument, Fragments

\* What AddTypename makes of a document, part by part.
LEMMA AddTypenameIs ==
  ASSUME NEW doc, IsDocument(doc)
  PROVE  /\ IsDocument(AddTypename(doc))
         /\ DOMAIN AddTypename(doc).operations = DOMAIN doc.operations
         /\ DOMAIN AddTypename(doc).fragments = DOMAIN doc.fragments
         /\ \A i \in DOMAIN doc.operations :
              AddTypename(doc).operations[i] =
                WithSet(doc.operations[i], TransformSelectionSet(doc.operations[i].set))
         /\ \A name \in DOMAIN doc.fragments :
              AddTypename(doc).fragments[name] =
                WithSet(doc.fragments[name], TransformSelectionSet(doc.fragments[name].set))
<1> DEFINE new == AddTypename(doc)
           ops == doc.operations
           frags == doc.fragments
<1>1. /\ new.operations = [i \in DOMAIN ops |-> WithSet(ops[i], TransformSelectionSet(ops[i].set))]
      /\ new.fragments = [name \in DOMAIN frags |->
                            WithSet(frags[name], TransformSelectionSet(frags[name].set))]
      /\ new = Document(new.operations, new.fragments)
  BY DEF AddTypename, Document
<1>2. \A i \in DOMAIN ops : /\ ops[i] \in Operations /\ ops[i].set \in SelectionSets
                            /\ TransformSelectionSet(ops[i].set) \in SelectionSets
  BY DocumentIs, TransformSetIs DEF Operations
<1>3. \A name \in DOMAIN frags : /\ frags[name] \in Fragments /\ frags[name].set \in SelectionSets
                                 /\ TransformSelectionSet(frags[name].set) \in SelectionSets
  BY DocumentIs, TransformSetIs DEF Fragments
<1>4. \A i \in DOMAIN ops : /\ new.operations[i] \in Operations
                            /\ new.operations[i].name = ops[i].name
  BY <1>1, <1>2, OperationIs
<1>5. \A name \in DOMAIN frags : new.fragments[name] \in Fragments
  BY <1>1, <1>3, FragmentIs
<1>6. ops \in Seq(Operations)
  BY DocumentIs
<1>7. DOMAIN new.operations = DOMAIN ops /\ DOMAIN new.fragments = DOMAIN frags
  BY <1>1
<1>8. new.operations \in Seq(Operations)
  <2>1. DOMAIN ops = 1..Len(ops) /\ Len(ops) \in Nat
    <3> HIDE DEF Operations
    <3> QED BY <1>6
  <2>2. new.operations = [i \in 1..Len(ops) |-> new.operations[i]]
    BY <1>1, <2>1
  <2>3. \A i \in 1..Len(ops) : new.operations[i] \in Operations
    BY <1>4, <2>1
  <2> HIDE DEF Operations, new, ops
  <2> QED BY <2>1, <2>2, <2>3
<1>9. \A i, j \in DOMAIN ops : new.operations[i].name = new.operations[j].name => i = j
  BY <1>4 DEF IsDocument
<1>10. /\ new.fragments = [name \in DOMAIN frags |-> new.fragments[name]]
       /\ IsFiniteSet(DOMAIN frags) /\ DOMAIN frags \subseteq Names
  BY <1>1 DEF IsDocument
<1>11. IsDocument(new)
  BY <1>1, <1>5, <1>7, <1>8, <1>9, <1>10 DEF IsDocument, Operations, Fragments
<1> QED
  BY <1>1, <1>7, <1>11

LEMMA AddTypenameTwice ==
  ASSUME NEW doc, IsDocument(doc)
  PROVE  AddTypename(AddTypename(doc)) = AddTypename(doc)
<1> DEFINE new == AddTypename(doc)
           again == AddTypename(new)
<1>1. IsDocument(new)
  BY AddTypenameIs
<1> HIDE DEF new
<1>2. IsDocument(again)
  BY <1>1, AddTypenameIs
<1>3. ASSUME NEW i \in DOMAIN new.operations PROVE again.operations[i] = new.operations[i]
  <2> DEFINE op == doc.operations[i]
  <2>1. i \in DOMAIN doc.operations /\ new.operations[i] = WithSet(op, TransformSelectionSet(op.set))
    BY AddTypenameIs DEF new
  <2>2. again.operations[i] =
          WithSet(new.operations[i], TransformSelectionSet(new.operations[i].set))
    BY <1>1, AddTypenameIs
  <2>3. op \in Operations /\ op.set \in SelectionSets
    BY <2>1, DocumentIs DEF Operations
  <2> HIDE DEF op, again
  <2>4. NewSet(op, new.operations[i], TransformSelectionSet(op.set))
    BY <2>1, <2>3, OperationIs, TransformSetIs
  <2>5. TransformSelectionSet(new.operations[i].set) = TransformSelectionSet(op.set)
    BY <2>3, <2>4, TransformSetIs DEF NewSet
  <2> QED BY <2>1, <2>2, <2>4, <2>5 DEF NewSet
<1>4. ASSUME NEW name \in DOMAIN new.fragments PROVE again.fragments[name] = new.fragments[name]
  <2> DEFINE fragment == doc.fragments[name]
  <2>1. /\ name \in DOMAIN doc.fragments
        /\ new.fragments[name] = WithSet(fragment, TransformSelectionSet(fragment.set))
    BY AddTypenameIs DEF new
  <2>2. again.fragments[name] =
          WithSet(new.fragments[name], TransformSelectionSet(new.fragments[name].set))
    BY <1>1, AddTypenameIs
  <2>3. fragment \in Fragments /\ fragment.set \in SelectionSets
    BY <2>1, DocumentIs DEF Fragments
  <2> HIDE DEF fragment, again
  <2>4. NewSet(fragment, new.fragments[name], TransformSelectionSet(fragment.set))
    BY <2>1, <2>3, FragmentIs, TransformSetIs
  <2>5. TransformSelectionSet(new.fragments[name].set) = TransformSelectionSet(fragment.set)
    BY <2>3, <2>4, TransformSetIs DEF NewSet
  <2> QED BY <2>1, <2>2, <2>4, <2>5 DEF NewSet
<1>5. DOMAIN again.operations = DOMAIN new.operations /\ DOMAIN again.fragments = DOMAIN new.fragments
  BY <1>1, AddTypenameIs
<1>6. again.operations = new.operations /\ again.fragments = new.fragments
  <2>1. /\ again.operations = [i \in DOMAIN again.operations |-> again.operations[i]]
        /\ again.fragments = [name \in DOMAIN again.fragments |-> again.fragments[name]]
    BY <1>2, DocumentIs
  <2>2. /\ new.operations = [i \in DOMAIN new.operations |-> new.operations[i]]
        /\ new.fragments = [name \in DOMAIN new.fragments |-> new.fragments[name]]
    BY <1>1, DocumentIs
  <2> HIDE DEF again
  <2> QED BY <1>3, <1>4, <1>5, <2>1, <2>2
<1>7. again = Document(again.operations, again.fragments) /\ new = Document(new.operations, new.fragments)
  BY <1>1, <1>2 DEF IsDocument
<1> QED
  BY <1>6, <1>7 DEF new

-----------------------------------------------------------------------------
(* What is sent asks for the same *)

AsksLevel(depth, inside) ==
  [set \in SetsUpTo[depth] |-> [sent \in SetsUpTo[depth] |->
     /\ Len(set) <= Len(sent)
     /\ \A i \in 1..Len(set) : SameSelection(set[i], sent[i], inside)
     /\ \A i \in (Len(set) + 1)..Len(sent) : sent[i] = TypeName]]

LEMMA AsksLowest == ASSUME NEW one, NEW other PROVE AsksLevel(0, one) = AsksLevel(0, other)
<1>1. SetsUpTo[0] = {<<>>}
  BY SetsLoop
<1>2. ASSUME NEW inside PROVE AsksLevel(0, inside) = [set \in SetsUpTo[0] |-> [sent \in SetsUpTo[0] |-> TRUE]]
  BY <1>1 DEF AsksLevel
<1> QED
  BY <1>2

LEMMA AsksLoop ==
  ASSUME NEW depth \in 0..MaxDepth
  PROVE  AsksUpTo[depth] = AsksLevel(depth, AsksUpTo[depth - 1])
<1> DEFINE Is(f, n) == f = [d \in 0..n |-> AsksLevel(d, f[d - 1])]
           S == {n \in 0..MaxDepth : \E f : Is(f, n)}
<1>0. MaxDepth \in Nat
  BY DepthAssumption
<1>1. 0 \in S
  <2> DEFINE f == [d \in 0..0 |-> AsksLevel(d, <<>>)]
  <2>1. ASSUME NEW d \in 0..0 PROVE f[d] = AsksLevel(d, f[d - 1])
    <3>1. d = 0 /\ f[d] = AsksLevel(0, <<>>)
      OBVIOUS
    <3> HIDE DEF f
    <3> QED BY <3>1, AsksLowest
  <2>2. f = [d \in 0..0 |-> f[d]]
    OBVIOUS
  <2> HIDE DEF f
  <2>3. Is(f, 0)
    BY <2>1, <2>2
  <2> HIDE DEF Is
  <2> QED BY <2>3, <1>0
<1>2. ASSUME NEW n \in 1..MaxDepth, n - 1 \in S PROVE n \in S
  <2>1. PICK f : Is(f, n - 1)
    BY <1>2
  <2> DEFINE g == [d \in 0..n |-> IF d = n THEN AsksLevel(n, f[n - 1]) ELSE f[d]]
  <2>2. ASSUME NEW d \in 0..n PROVE g[d] = AsksLevel(d, g[d - 1])
    <3>1. CASE d = n
      <4>1. g[d] = AsksLevel(n, f[n - 1]) /\ g[d - 1] = f[n - 1]
        BY <3>1, <1>0
      <4> QED BY <3>1, <4>1
    <3>2. CASE d # n
      <4>1. d \in 0..(n - 1) /\ g[d] = f[d] /\ (d # 0 => g[d - 1] = f[d - 1])
        BY <3>2, <1>0
      <4>2. f[d] = AsksLevel(d, f[d - 1])
        BY <4>1, <2>1
      <4>3. d = 0 => AsksLevel(d, f[d - 1]) = AsksLevel(d, g[d - 1])
        BY AsksLowest
      <4> HIDE DEF g
      <4> QED BY <4>1, <4>2, <4>3
    <3> QED BY <3>1, <3>2
  <2>3. g = [d \in 0..n |-> g[d]]
    OBVIOUS
  <2> HIDE DEF g
  <2>4. Is(g, n)
    BY <2>2, <2>3
  <2> HIDE DEF Is
  <2> QED BY <2>4
<1>3. MaxDepth \in S
  <2>1. MaxDepth \in 0..MaxDepth
    BY <1>0
  <2> HIDE DEF S
  <2> QED BY <2>1, <1>0, <1>1, <1>2, UpTo
<1>4. AsksUpTo = CHOOSE f : Is(f, MaxDepth)
  BY DEF AsksUpTo, AsksLevel
<1>5. Is(AsksUpTo, MaxDepth)
  <2> HIDE DEF Is
  <2> QED BY <1>3, <1>4
<1> QED
  BY <1>5

\* One level: what Transform leaves of a selection, and what it adds.
LEMMA TransformAsks ==
  ASSUME NEW depth \in 1..MaxDepth, NEW inside \in Transforms(depth - 1),
         NEW asks, \A s \in SetsUpTo[depth - 1] : asks[s][inside[s]],
         NEW set \in SetsUpTo[depth]
  PROVE  AsksLevel(depth, asks)[set][Transform(set, inside)]
<1> DEFINE new == Transform(set, inside)
<1>1. new \in SetsUpTo[depth] /\ Len(new) = Len(set) + IF Lacks(set) THEN 1 ELSE 0
  BY TransformIs
<1>2. Len(set) \in Nat
  <2>1. depth \in 0..MaxDepth
    BY DepthAssumption
  <2> QED BY <2>1, LenIs
<1>3. ASSUME NEW i \in 1..Len(set) PROVE SameSelection(set[i], new[i], asks)
  <2> DEFINE sel == set[i]
  <2> SUFFICES SameSelection(sel, new[i], asks)
    OBVIOUS
  <2>1. new[i] = TransformSelection(sel, inside) /\ sel \in SelectionsOver(SetsUpTo[depth - 1])
    BY TransformIs
  <2> HIDE DEF sel, new
  <2>2. CASE IsSpread(sel)
    BY <2>1, <2>2 DEF TransformSelection, SameSelection
  <2>3. CASE ~IsSpread(sel)
    <3>1. sel.set \in SetsUpTo[depth - 1] /\ Replaced(sel, new[i], inside[sel.set])
      BY <2>1, <2>3, TransformSelectionIs
    <3>2. /\ ~IsSpread(new[i]) /\ new[i].set = inside[sel.set]
          /\ new[i] = [sel EXCEPT !.set = new[i].set]
      BY <3>1 DEF Replaced
    <3>3. asks[sel.set][new[i].set]
      BY <3>1, <3>2
    <3> QED BY <2>3, <3>2, <3>3 DEF SameSelection
  <2> QED BY <2>2, <2>3
<1>4. ASSUME NEW i \in (Len(set) + 1)..Len(new) PROVE new[i] = TypeName
  <2>1. Lacks(set) /\ i = Len(set) + 1
    BY <1>1, <1>2
  <2> QED BY <2>1, TransformIs
<1>5. Len(set) <= Len(new)
  BY <1>1, <1>2
<1> HIDE DEF new
<1>6. AsksLevel(depth, asks)[set][new]
  BY <1>1, <1>3, <1>4, <1>5 DEF AsksLevel
<1> QED
  BY <1>6 DEF new

LEMMA TransformedAsksTheSame ==
  ASSUME NEW set \in SelectionSets
  PROVE  AsksUpTo[MaxDepth][set][TransformSelectionSet(set)]
<1> DEFINE Same(d) == \A s \in SetsUpTo[d] : AsksUpTo[d][s][TransformUpTo[d][s]]
           S == {d \in 0..MaxDepth : Same(d)}
<1>0. MaxDepth \in Nat
  BY DepthAssumption
<1>1. 0 \in S
  <2>1. SetsUpTo[0] = {<<>>} /\ TransformUpTo[0] \in Transforms(0)
    BY <1>0, SetsLoop, TransformLoop
  <2>2. TransformUpTo[0][<<>>] = <<>>
    BY <2>1 DEF Transforms
  <2>3. AsksUpTo[0] = AsksLevel(0, AsksUpTo[0 - 1])
    BY <1>0, AsksLoop
  <2>4. \A inside : AsksLevel(0, inside)[<<>>][<<>>]
    BY <2>1 DEF AsksLevel
  <2> QED BY <2>1, <2>2, <2>3, <2>4, <1>0
<1>2. ASSUME NEW d \in 1..MaxDepth, d - 1 \in S PROVE d \in S
  <2> DEFINE inside == TransformUpTo[d - 1]
             asks == AsksUpTo[d - 1]
  <2>1. d - 1 \in 0..MaxDepth /\ d \in 0..MaxDepth
    BY <1>0
  <2>2. inside \in Transforms(d - 1)
    BY <2>1, TransformLoop
  <2>3. \A s \in SetsUpTo[d - 1] : asks[s][inside[s]]
    BY <1>2
  <2>4. \A s \in SetsUpTo[d] : TransformUpTo[d][s] = Transform(s, inside)
    BY TransformLoop
  <2>5. AsksUpTo[d] = AsksLevel(d, asks)
    BY <2>1, AsksLoop
  <2> HIDE DEF inside, asks
  <2>6. \A s \in SetsUpTo[d] : AsksLevel(d, asks)[s][Transform(s, inside)]
    BY <2>2, <2>3, TransformAsks
  <2>7. Same(d)
    BY <2>4, <2>5, <2>6
  <2> HIDE DEF Same
  <2> QED BY <2>1, <2>7
<1>3. 0..MaxDepth \subseteq S
  <2> HIDE DEF S
  <2> QED BY <1>0, <1>1, <1>2, UpTo
<1>4. Same(MaxDepth)
  <2>1. MaxDepth \in 0..MaxDepth
    BY <1>0
  <2> QED BY <2>1, <1>3
<1> QED
  BY <1>4 DEF SelectionSets, TransformSelectionSet

\* A part of a document and what AddTypename makes of it.
LEMMA PartAsksTheSame ==
  ASSUME NEW part, NEW new, part.set \in SelectionSets,
         NewSet(part, new, TransformSelectionSet(part.set))
  PROVE  SameSelection(part, new, AsksUpTo[MaxDepth])
<1>1. AsksUpTo[MaxDepth][part.set][new.set]
  BY TransformedAsksTheSame DEF NewSet
<1> QED
  BY <1>1 DEF NewSet, SameSelection

LEMMA DocumentAsksTheSame ==
  ASSUME NEW doc, IsDocument(doc)
  PROVE  /\ \A i \in DOMAIN doc.operations :
              SameSelection(doc.operations[i], AddTypename(doc).operations[i], AsksUpTo[MaxDepth])
         /\ \A name \in DOMAIN doc.fragments :
              SameSelection(doc.fragments[name], AddTypename(doc).fragments[name],
                            AsksUpTo[MaxDepth])
<1>1. ASSUME NEW i \in DOMAIN doc.operations
      PROVE  SameSelection(doc.operations[i], AddTypename(doc).operations[i], AsksUpTo[MaxDepth])
  <2> DEFINE op == doc.operations[i]
             new == AddTypename(doc).operations[i]
  <2>1. new = WithSet(op, TransformSelectionSet(op.set)) /\ op \in Operations
    BY AddTypenameIs, DocumentIs
  <2> HIDE DEF op, new
  <2>2. op.set \in SelectionSets
    BY <2>1 DEF Operations
  <2>3. NewSet(op, new, TransformSelectionSet(op.set))
    BY <2>1, <2>2, OperationIs, TransformSetIs
  <2>4. SameSelection(op, new, AsksUpTo[MaxDepth])
    BY <2>2, <2>3, PartAsksTheSame
  <2> QED BY <2>4 DEF op, new
<1>2. ASSUME NEW name \in DOMAIN doc.fragments
      PROVE  SameSelection(doc.fragments[name], AddTypename(doc).fragments[name],
                           AsksUpTo[MaxDepth])
  <2> DEFINE fragment == doc.fragments[name]
             new == AddTypename(doc).fragments[name]
  <2>1. new = WithSet(fragment, TransformSelectionSet(fragment.set)) /\ fragment \in Fragments
    BY AddTypenameIs, DocumentIs
  <2> HIDE DEF fragment, new
  <2>2. fragment.set \in SelectionSets
    BY <2>1 DEF Fragments
  <2>3. NewSet(fragment, new, TransformSelectionSet(fragment.set))
    BY <2>1, <2>2, FragmentIs, TransformSetIs
  <2>4. SameSelection(fragment, new, AsksUpTo[MaxDepth])
    BY <2>2, <2>3, PartAsksTheSame
  <2> QED BY <2>4 DEF fragment, new
<1> QED
  BY <1>1, <1>2

-----------------------------------------------------------------------------
(* Every object of an answer says its type *)

\* The selection sets of a depth, and of any, that AddTypename leaves as they are.
Settled(depth) == {set \in SetsUpTo[depth] : TransformUpTo[depth][set] = set}
Calm == UNION {Settled(depth) : depth \in 0..MaxDepth}

LEMMA SettledIs ==
  ASSUME NEW depth \in 1..MaxDepth, NEW set \in Settled(depth)
  PROVE  /\ ~Lacks(set)
         /\ \A i \in DOMAIN set :
              /\ set[i] \in SelectionsOver(SetsUpTo[depth - 1])
              /\ ~IsSpread(set[i]) => set[i].set \in Settled(depth - 1)
<1> DEFINE inside == TransformUpTo[depth - 1]
<1>1. depth \in 0..MaxDepth /\ depth - 1 \in 0..MaxDepth
  BY DepthAssumption
<1>2. inside \in Transforms(depth - 1) /\ set \in SetsUpTo[depth]
  BY <1>1, TransformLoop DEF Settled
<1>3. Transform(set, inside) = set
  BY <1>2, TransformLoop DEF Settled
<1>4. Len(set) \in Nat /\ DOMAIN set = 1..Len(set)
  BY <1>1, <1>2, LenIs
<1> HIDE DEF inside
<1>5. ASSUME Lacks(set) PROVE FALSE
  <2>1. Len(Transform(set, inside)) = Len(set) + IF Lacks(set) THEN 1 ELSE 0
    BY <1>2, TransformIs
  <2>2. Len(set) = Len(set) + 1
    BY <2>1, <1>3, <1>5
  <2> QED BY <2>2, <1>4
<1>6. ASSUME NEW i \in DOMAIN set
      PROVE  /\ set[i] \in SelectionsOver(SetsUpTo[depth - 1])
             /\ ~IsSpread(set[i]) => set[i].set \in Settled(depth - 1)
  <2> DEFINE sel == set[i]
  <2>1. sel \in SelectionsOver(SetsUpTo[depth - 1])
    BY <1>2, <1>4, TransformIs
  <2>2. TransformSelection(sel, inside) = sel
    BY <1>2, <1>3, <1>4, TransformIs
  <2>3. ASSUME ~IsSpread(sel) PROVE sel.set \in Settled(depth - 1)
    <3> HIDE DEF sel
    <3>1. sel.set \in SetsUpTo[depth - 1] /\ Replaced(sel, sel, inside[sel.set])
      BY <2>1, <2>2, <2>3, <1>2, TransformSelectionIs
    <3>2. inside[sel.set] = sel.set
      BY <3>1 DEF Replaced
    <3> QED BY <3>1, <3>2 DEF Settled, inside
  <2> QED BY <2>1, <2>3
<1> QED
  BY <1>5, <1>6

LEMMA LowestIsSettled == Settled(0) = {<<>>}
<1>1. 0 \in 0..MaxDepth /\ SetsUpTo[0] = {<<>>}
  BY DepthAssumption, SetsLoop
<1>2. TransformUpTo[0][<<>>] = <<>>
  BY <1>1, TransformLoop DEF Transforms
<1> QED
  BY <1>1, <1>2 DEF Settled

\* In the sets that AddTypename leaves, fields come with an unconditional __typename.
LEMMA CalmIs ==
  ASSUME ~ConditionalTypename, NEW set \in Calm
  PROVE  /\ set \in SelectionSets
         /\ HasAnyField(set) => \E i \in DOMAIN set : set[i] = TypeName
         /\ \A i \in DOMAIN set : ~IsSpread(set[i]) => set[i].set \in Calm
<1>1. PICK depth \in 0..MaxDepth : set \in Settled(depth)
  BY DEF Calm
<1>2. set \in SelectionSets
  BY <1>1, AllGrow DEF Settled
<1>3. CASE depth = 0
  <2>1. set = <<>>
    BY <1>1, <1>3, LowestIsSettled
  <2>2. DOMAIN set = {}
    BY <2>1
  <2> QED BY <1>2, <2>2 DEF HasAnyField
<1>4. CASE depth # 0
  <2>1. depth \in 1..MaxDepth /\ depth - 1 \in 0..MaxDepth
    BY <1>4, DepthAssumption
  <2>2. \A i \in DOMAIN set : /\ set[i] \in SelectionsOver(SetsUpTo[depth - 1])
                              /\ ~IsSpread(set[i]) => set[i].set \in Calm
    BY <1>1, <2>1, SettledIs DEF Calm
  <2>3. ~Lacks(set)
    BY <1>1, <2>1, SettledIs
  <2>4. ASSUME HasAnyField(set) PROVE \E i \in DOMAIN set : set[i] = TypeName
    <3>1. PICK i \in DOMAIN set : IsTypename(set[i])
      BY <2>3, <2>4 DEF Lacks, HasTypename
    <3> DEFINE sel == set[i]
               sets == SetsUpTo[depth - 1]
    <3>2. sel \in FieldsOver(sets)
      <4>1. sel \in SelectionsOver(sets) /\ IsField(sel)
        BY <2>2, <3>1 DEF IsTypename
      <4> HIDE DEF sel, sets
      <4>2. sel \notin Spreads /\ sel \notin InlinesOver(sets)
        BY <4>1, SpreadIs, InlineIs
      <4> QED BY <4>1, <4>2 DEF SelectionsOver
    <3> HIDE DEF sel, sets
    <3>3. /\ sel = Field(sel.alias, sel.name, sel.args, sel.directives, sel.set)
          /\ IsTypename(sel) => /\ sel.args = <<>> /\ sel.set = <<>>
                                /\ sel.directives = <<>> \/ ConditionalTypename
      BY <3>2, FieldIs
    <3>4. IsTypename(sel)
      BY <3>1 DEF sel
    <3>5. sel = TypeName
      BY <3>3, <3>4 DEF IsTypename, TypeName
    <3> QED BY <3>5 DEF sel
  <2> QED BY <1>2, <2>2, <2>4
<1> QED
  BY <1>3, <1>4

\* What a server collects, by fuel.
CollectedLevel(type, fragments, holds, fuel, inside) ==
  [set \in SelectionSets |->
     IF fuel = 0 THEN {}
     ELSE UNION {FieldsFrom(set[i], type, fragments, inside) :
                   i \in {j \in DOMAIN set : Included(set[j], holds)}}]

LEMMA CollectedLoop ==
  ASSUME NEW type, NEW fragments, NEW holds, NEW fuel \in 0..Descents
  PROVE  CollectedWithin(type, fragments, holds)[fuel] =
           CollectedLevel(type, fragments, holds, fuel,
                          CollectedWithin(type, fragments, holds)[fuel - 1])
<1> DEFINE Level(d, inside) == CollectedLevel(type, fragments, holds, d, inside)
           Is(f, n) == f = [d \in 0..n |-> Level(d, f[d - 1])]
           S == {n \in 0..Descents : \E f : Is(f, n)}
           within == CollectedWithin(type, fragments, holds)
<1>0. Descents \in Nat
  BY DepthAssumption DEF Descents
<1>1. \A one, other : Level(0, one) = Level(0, other)
  BY DEF CollectedLevel
<1>2. within = CHOOSE f : Is(f, Descents)
  BY DEF CollectedWithin, CollectedLevel
<1> HIDE DEF Level, within
<1>3. 0 \in S
  <2> DEFINE f == [d \in 0..0 |-> Level(d, <<>>)]
  <2>1. ASSUME NEW d \in 0..0 PROVE f[d] = Level(d, f[d - 1])
    <3>1. d = 0 /\ f[d] = Level(0, <<>>)
      OBVIOUS
    <3> HIDE DEF f
    <3> QED BY <3>1, <1>1
  <2>2. f = [d \in 0..0 |-> f[d]]
    OBVIOUS
  <2> HIDE DEF f
  <2>3. Is(f, 0)
    BY <2>1, <2>2
  <2> HIDE DEF Is
  <2> QED BY <2>3, <1>0
<1>4. ASSUME NEW n \in 1..Descents, n - 1 \in S PROVE n \in S
  <2>1. PICK f : Is(f, n - 1)
    BY <1>4
  <2> DEFINE g == [d \in 0..n |-> IF d = n THEN Level(n, f[n - 1]) ELSE f[d]]
  <2>2. ASSUME NEW d \in 0..n PROVE g[d] = Level(d, g[d - 1])
    <3>1. CASE d = n
      <4>1. g[d] = Level(n, f[n - 1]) /\ g[d - 1] = f[n - 1]
        BY <3>1, <1>0
      <4> QED BY <3>1, <4>1
    <3>2. CASE d # n
      <4>1. d \in 0..(n - 1) /\ g[d] = f[d] /\ (d # 0 => g[d - 1] = f[d - 1])
        BY <3>2, <1>0
      <4>2. f[d] = Level(d, f[d - 1])
        BY <4>1, <2>1
      <4>3. d = 0 => Level(d, f[d - 1]) = Level(d, g[d - 1])
        BY <1>1
      <4> HIDE DEF g
      <4> QED BY <4>1, <4>2, <4>3
    <3> QED BY <3>1, <3>2
  <2>3. g = [d \in 0..n |-> g[d]]
    OBVIOUS
  <2> HIDE DEF g
  <2>4. Is(g, n)
    BY <2>2, <2>3
  <2> HIDE DEF Is
  <2> QED BY <2>4
<1>5. Descents \in S
  <2>1. Descents \in 0..Descents
    BY <1>0
  <2> HIDE DEF S
  <2> QED BY <2>1, <1>0, <1>3, <1>4, UpTo
<1>6. Is(within, Descents)
  <2> HIDE DEF Is
  <2> QED BY <1>2, <1>5
<1>7. within[fuel] = Level(fuel, within[fuel - 1])
  BY <1>6
<1> QED
  BY <1>7 DEF Level, within

\* One level: a field is either in the set itself, beside __typename, or it comes out of
\* a fragment, and so does __typename.
LEMMA LevelSaysItsType ==
  ASSUME ~ConditionalTypename, NEW type, NEW fragments, NEW holds,
         \A name \in DOMAIN fragments : fragments[name].set \in Calm,
         NEW fuel, fuel # 0,
         NEW inside, \A set \in Calm : inside[set] # {} => TypeName \in inside[set],
         NEW set \in Calm,
         CollectedLevel(type, fragments, holds, fuel, inside)[set] # {}
  PROVE  TypeName \in CollectedLevel(type, fragments, holds, fuel, inside)[set]
<1> DEFINE included == {j \in DOMAIN set : Included(set[j], holds)}
           fields == CollectedLevel(type, fragments, holds, fuel, inside)[set]
<1> SUFFICES TypeName \in fields
  OBVIOUS
<1>1. fields = UNION {FieldsFrom(set[i], type, fragments, inside) : i \in included}
  BY CalmIs DEF CollectedLevel
<1>2. PICK i \in included : FieldsFrom(set[i], type, fragments, inside) # {}
  <2> HIDE DEF included
  <2> QED BY <1>1
<1> HIDE DEF fields
<1> DEFINE sel == set[i]
<1>3. ASSUME NEW j \in included, TypeName \in FieldsFrom(set[j], type, fragments, inside)
      PROVE  TypeName \in fields
  <2> HIDE DEF included
  <2> QED BY <1>1, <1>3
<1>4. CASE IsField(sel)
  <2>1. HasAnyField(set)
    BY <1>4 DEF HasAnyField
  <2>2. PICK j \in DOMAIN set : set[j] = TypeName
    BY <2>1, CalmIs
  <2>3. IsField(TypeName) /\ TypeName.directives = <<>>
    <3>1. <<>> \in SetsUpTo[0]
      BY SetsLoop
    <3> QED BY <3>1, TypeNameIs
  <2>4. j \in included /\ TypeName \in FieldsFrom(set[j], type, fragments, inside)
    BY <2>2, <2>3 DEF Included, FieldsFrom
  <2> QED BY <2>4, <1>3
<1>5. CASE ~IsField(sel) /\ IsSpread(sel)
  <2> DEFINE inner == fragments[sel.spread].set
  <2>1. /\ sel.spread \in DOMAIN fragments
        /\ FieldsFrom(sel, type, fragments, inside) = inside[inner]
    BY <1>2, <1>5 DEF FieldsFrom
  <2>2. inner \in Calm
    BY <2>1
  <2>3. TypeName \in FieldsFrom(sel, type, fragments, inside)
    BY <1>2, <2>1, <2>2
  <2> QED BY <2>3, <1>3
<1>6. CASE ~IsField(sel) /\ ~IsSpread(sel)
  <2>1. FieldsFrom(sel, type, fragments, inside) = inside[sel.set]
    BY <1>2, <1>6 DEF FieldsFrom
  <2>2. sel.set \in Calm
    BY <1>6, CalmIs
  <2>3. TypeName \in FieldsFrom(sel, type, fragments, inside)
    BY <1>2, <2>1, <2>2
  <2> QED BY <2>3, <1>3
<1> QED
  BY <1>4, <1>5, <1>6

LEMMA CalmSaysItsType ==
  ASSUME ~ConditionalTypename, NEW type, NEW fragments, NEW holds,
         \A name \in DOMAIN fragments : fragments[name].set \in Calm,
         NEW set \in Calm, Collected(set, type, fragments, holds) # {}
  PROVE  TypeName \in Collected(set, type, fragments, holds)
<1> DEFINE within == CollectedWithin(type, fragments, holds)
           Level(d, inside) == CollectedLevel(type, fragments, holds, d, inside)
           Says(d) == \A s \in Calm : within[d][s] # {} => TypeName \in within[d][s]
           S == {d \in 0..Descents : Says(d)}
<1>0. Descents \in Nat
  BY DepthAssumption DEF Descents
<1>1. \A d \in 0..Descents : within[d] = Level(d, within[d - 1])
  BY CollectedLoop
<1>2. \A s \in Calm : \A inside : Level(0, inside)[s] = {}
  BY CalmIs DEF CollectedLevel
<1>3. ASSUME NEW d, d # 0, NEW inside, \A s \in Calm : inside[s] # {} => TypeName \in inside[s]
      PROVE  \A s \in Calm : Level(d, inside)[s] # {} => TypeName \in Level(d, inside)[s]
  BY <1>3, LevelSaysItsType
<1> HIDE DEF within, Level
<1>4. 0 \in S
  BY <1>0, <1>1, <1>2
<1>5. ASSUME NEW d \in 1..Descents, d - 1 \in S PROVE d \in S
  <2>1. d \in 0..Descents /\ d # 0 /\ Says(d - 1)
    BY <1>0, <1>5
  <2>2. within[d] = Level(d, within[d - 1])
    BY <2>1, <1>1
  <2>3. Says(d)
    BY <2>1, <2>2, <1>3
  <2> QED BY <2>1, <2>3
<1>6. 0..Descents \subseteq S
  <2> HIDE DEF S
  <2> QED BY <1>0, <1>4, <1>5, UpTo
<1>7. Says(Descents)
  <2>1. Descents \in 0..Descents
    BY <1>0
  <2> QED BY <2>1, <1>6
<1>8. Collected(set, type, fragments, holds) = within[Descents][set]
  BY DEF Collected, within
<1> QED
  BY <1>7, <1>8

\* The selection sets of the objects in a set, by its depth.
ObjectsLevel(depth, inside) ==
  [set \in SetsUpTo[depth] |->
     UNION {IF IsSpread(set[i]) THEN {}
            ELSE inside[set[i].set]
                   \cup (IF IsField(set[i]) /\ set[i].set # <<>> THEN {set[i].set} ELSE {}) :
              i \in DOMAIN set}]

LEMMA ObjectsLowest ==
  ASSUME NEW inside
  PROVE  ObjectsLevel(0, inside) = [set \in SetsUpTo[0] |-> {}]
<1>1. \A set \in SetsUpTo[0] : DOMAIN set = {}
  BY SetsLoop
<1> QED
  BY <1>1 DEF ObjectsLevel

LEMMA ObjectsLoop ==
  ASSUME NEW depth \in 0..MaxDepth
  PROVE  ObjectSetsUpTo[depth] = ObjectsLevel(depth, ObjectSetsUpTo[depth - 1])
<1> DEFINE Is(f, n) == f = [d \in 0..n |-> ObjectsLevel(d, f[d - 1])]
           S == {n \in 0..MaxDepth : \E f : Is(f, n)}
<1>0. MaxDepth \in Nat
  BY DepthAssumption
<1>1. \A one, other : ObjectsLevel(0, one) = ObjectsLevel(0, other)
  BY ObjectsLowest
<1>2. ObjectSetsUpTo = CHOOSE f : Is(f, MaxDepth)
  BY DEF ObjectSetsUpTo, ObjectsLevel
<1>3. 0 \in S
  <2> DEFINE f == [d \in 0..0 |-> ObjectsLevel(d, <<>>)]
  <2>1. ASSUME NEW d \in 0..0 PROVE f[d] = ObjectsLevel(d, f[d - 1])
    <3>1. d = 0 /\ f[d] = ObjectsLevel(0, <<>>)
      OBVIOUS
    <3> HIDE DEF f
    <3> QED BY <3>1, <1>1
  <2>2. f = [d \in 0..0 |-> f[d]]
    OBVIOUS
  <2> HIDE DEF f
  <2>3. Is(f, 0)
    BY <2>1, <2>2
  <2> HIDE DEF Is
  <2> QED BY <2>3, <1>0
<1>4. ASSUME NEW n \in 1..MaxDepth, n - 1 \in S PROVE n \in S
  <2>1. PICK f : Is(f, n - 1)
    BY <1>4
  <2> DEFINE g == [d \in 0..n |-> IF d = n THEN ObjectsLevel(n, f[n - 1]) ELSE f[d]]
  <2>2. ASSUME NEW d \in 0..n PROVE g[d] = ObjectsLevel(d, g[d - 1])
    <3>1. CASE d = n
      <4>1. g[d] = ObjectsLevel(n, f[n - 1]) /\ g[d - 1] = f[n - 1]
        BY <3>1, <1>0
      <4> QED BY <3>1, <4>1
    <3>2. CASE d # n
      <4>1. d \in 0..(n - 1) /\ g[d] = f[d] /\ (d # 0 => g[d - 1] = f[d - 1])
        BY <3>2, <1>0
      <4>2. f[d] = ObjectsLevel(d, f[d - 1])
        BY <4>1, <2>1
      <4>3. d = 0 => ObjectsLevel(d, f[d - 1]) = ObjectsLevel(d, g[d - 1])
        BY <1>1
      <4> HIDE DEF g
      <4> QED BY <4>1, <4>2, <4>3
    <3> QED BY <3>1, <3>2
  <2>3. g = [d \in 0..n |-> g[d]]
    OBVIOUS
  <2> HIDE DEF g
  <2>4. Is(g, n)
    BY <2>2, <2>3
  <2> HIDE DEF Is
  <2> QED BY <2>4
<1>5. MaxDepth \in S
  <2>1. MaxDepth \in 0..MaxDepth
    BY <1>0
  <2> HIDE DEF S
  <2> QED BY <2>1, <1>0, <1>3, <1>4, UpTo
<1>6. Is(ObjectSetsUpTo, MaxDepth)
  <2> HIDE DEF Is
  <2> QED BY <1>2, <1>5
<1> QED
  BY <1>6

LEMMA ObjectsAreCalm ==
  ASSUME NEW depth \in 0..MaxDepth, NEW set \in Settled(depth)
  PROVE  ObjectSetsUpTo[depth][set] \subseteq Calm
<1> DEFINE Are(d) == \A s \in Settled(d) : ObjectSetsUpTo[d][s] \subseteq Calm
           S == {d \in 0..MaxDepth : Are(d)}
<1>0. MaxDepth \in Nat
  BY DepthAssumption
<1>1. 0 \in S
  <2>1. ObjectSetsUpTo[0] = ObjectsLevel(0, ObjectSetsUpTo[0 - 1])
    BY <1>0, ObjectsLoop
  <2>2. ObjectSetsUpTo[0] = [s \in SetsUpTo[0] |-> {}]
    BY <2>1, ObjectsLowest
  <2> QED BY <2>2, <1>0 DEF Settled
<1>2. ASSUME NEW d \in 1..MaxDepth, d - 1 \in S PROVE d \in S
  <2>1. d \in 0..MaxDepth /\ d - 1 \in 0..MaxDepth
    BY <1>0
  <2>2. ASSUME NEW s \in Settled(d), NEW object \in ObjectSetsUpTo[d][s] PROVE object \in Calm
    <3> DEFINE inside == ObjectSetsUpTo[d - 1]
    <3>1. object \in ObjectsLevel(d, inside)[s] /\ s \in SetsUpTo[d]
      BY <2>1, <2>2, ObjectsLoop DEF Settled
    <3>2. \A inner \in Settled(d - 1) : inside[inner] \subseteq Calm /\ inner \in Calm
      BY <2>1, <1>2 DEF Calm
    <3> HIDE DEF inside
    <3>3. PICK i \in DOMAIN s :
            object \in IF IsSpread(s[i]) THEN {}
                       ELSE inside[s[i].set]
                              \cup (IF IsField(s[i]) /\ s[i].set # <<>> THEN {s[i].set} ELSE {})
      BY <3>1 DEF ObjectsLevel
    <3>4. ~IsSpread(s[i]) /\ (object \in inside[s[i].set] \/ object = s[i].set)
      BY <3>3
    <3>5. s[i].set \in Settled(d - 1)
      BY <3>4, SettledIs
    <3> QED BY <3>2, <3>4, <3>5
  <2>3. Are(d)
    BY <2>2
  <2> HIDE DEF Are
  <2> QED BY <2>1, <2>3
<1>3. 0..MaxDepth \subseteq S
  <2> HIDE DEF S
  <2> QED BY <1>0, <1>1, <1>2, UpTo
<1>4. Are(depth)
  BY <1>3
<1> QED
  BY <1>4

LEMMA SentIsSettled ==
  ASSUME NEW set \in SelectionSets
  PROVE  TransformSelectionSet(set) \in Settled(MaxDepth)
BY TransformSetIs DEF Settled, SelectionSets, TransformSelectionSet

LEMMA DocumentIsSettled ==
  ASSUME NEW doc, IsDocument(doc)
  PROVE  /\ \A i \in DOMAIN AddTypename(doc).operations :
              AddTypename(doc).operations[i].set \in Settled(MaxDepth)
         /\ \A name \in DOMAIN AddTypename(doc).fragments :
              AddTypename(doc).fragments[name].set \in Settled(MaxDepth)
<1>1. ASSUME NEW i \in DOMAIN AddTypename(doc).operations
      PROVE  AddTypename(doc).operations[i].set \in Settled(MaxDepth)
  <2> DEFINE op == doc.operations[i]
             new == AddTypename(doc).operations[i]
  <2>0. i \in DOMAIN doc.operations
    BY AddTypenameIs
  <2>1. new = WithSet(op, TransformSelectionSet(op.set)) /\ op \in Operations
    BY <2>0, AddTypenameIs, DocumentIs
  <2> HIDE DEF op, new
  <2>2. op.set \in SelectionSets
    BY <2>1 DEF Operations
  <2>3. new.set = TransformSelectionSet(op.set)
    BY <2>1, <2>2, OperationIs, TransformSetIs DEF NewSet
  <2>4. new.set \in Settled(MaxDepth)
    BY <2>2, <2>3, SentIsSettled
  <2> QED BY <2>4 DEF new
<1>2. ASSUME NEW name \in DOMAIN AddTypename(doc).fragments
      PROVE  AddTypename(doc).fragments[name].set \in Settled(MaxDepth)
  <2> DEFINE fragment == doc.fragments[name]
             new == AddTypename(doc).fragments[name]
  <2>0. name \in DOMAIN doc.fragments
    BY AddTypenameIs
  <2>1. new = WithSet(fragment, TransformSelectionSet(fragment.set)) /\ fragment \in Fragments
    BY <2>0, AddTypenameIs, DocumentIs
  <2> HIDE DEF fragment, new
  <2>2. fragment.set \in SelectionSets
    BY <2>1 DEF Fragments
  <2>3. new.set = TransformSelectionSet(fragment.set)
    BY <2>1, <2>2, FragmentIs, TransformSetIs DEF NewSet
  <2>4. new.set \in Settled(MaxDepth)
    BY <2>2, <2>3, SentIsSettled
  <2> QED BY <2>4 DEF new
<1> QED
  BY <1>1, <1>2

LEMMA SentSaysItsTypes ==
  ASSUME ~ConditionalTypename, IsDocument(document)
  PROVE  ObjectsIdentifiable
<1>1. MaxDepth \in 0..MaxDepth
  BY DepthAssumption
<1>2. /\ \A i \in DOMAIN Sent.operations : Sent.operations[i].set \in Settled(MaxDepth)
      /\ \A name \in DOMAIN Sent.fragments : Sent.fragments[name].set \in Settled(MaxDepth)
  BY DocumentIsSettled DEF Sent
<1>3. Settled(MaxDepth) \subseteq Calm
  BY <1>1 DEF Calm
<1>4. ObjectsOf(Sent) \subseteq Calm
  <2>1. \A set \in SetsOf(Sent) : set \in Settled(MaxDepth)
    BY <1>2 DEF SetsOf
  <2>2. \A set \in SetsOf(Sent) : ObjectSetsUpTo[MaxDepth][set] \subseteq Calm
    BY <2>1, <1>1, ObjectsAreCalm
  <2> QED BY <2>2, <1>2, <1>3 DEF ObjectsOf
<1>5. \A name \in DOMAIN Sent.fragments : Sent.fragments[name].set \in Calm
  BY <1>2, <1>3
<1> SUFFICES ASSUME NEW set \in ObjectsOf(Sent), NEW type \in Types, NEW holds \in BOOLEAN,
                    Collected(set, type, Sent.fragments, holds) # {}
             PROVE  TypeName \in Collected(set, type, Sent.fragments, holds)
  BY DEF ObjectsIdentifiable
<1> QED
  BY <1>4, <1>5, CalmSaysItsType

-----------------------------------------------------------------------------
(* The text, token by token *)

\* The reader on a text.
IsReading(f, r, text) ==
  /\ f = [n \in 0..Len(text) |-> f[n]] /\ f[0] = r
  /\ \A n \in 1..Len(text) : f[n] = Take(f[n - 1], text[n])

\* A reading goes from reader to reader, token by token.
LEMMA ReadLoop ==
  ASSUME NEW r, NEW text, Len(text) \in Nat
  PROVE  \E f : IsReading(f, r, text) /\ Read(r, text) = f[Len(text)]
<1> DEFINE m == Len(text)
           Step(s, n) == Take(s, text[n])
           Is(f, k) == f = [n \in 0..k |-> IF n = 0 THEN r ELSE Step(f[n - 1], n)]
           S == {k \in 0..m : \E f : Is(f, k)}
<1> HIDE DEF Step, m
<1>0. m \in Nat
  BY DEF m
<1>1. 0 \in S
  <2>1. Is([n \in 0..0 |-> r], 0)
    OBVIOUS
  <2> HIDE DEF Is
  <2> QED BY <2>1, <1>0
<1>2. ASSUME NEW k \in 1..m, k - 1 \in S PROVE k \in S
  <2>1. PICK f : Is(f, k - 1)
    BY <1>2
  <2> DEFINE g == [n \in 0..k |-> IF n = k THEN Step(f[k - 1], k) ELSE f[n]]
  <2>2. ASSUME NEW n \in 0..k PROVE g[n] = IF n = 0 THEN r ELSE Step(g[n - 1], n)
    <3>1. CASE n = k
      BY <3>1, <1>0
    <3>2. CASE n # k
      <4>1. n \in 0..(k - 1) /\ g[n] = f[n] /\ (n # 0 => g[n - 1] = f[n - 1])
        BY <3>2, <1>0
      <4>2. f[n] = IF n = 0 THEN r ELSE Step(f[n - 1], n)
        BY <4>1, <2>1
      <4> QED BY <4>1, <4>2
    <3> QED BY <3>1, <3>2
  <2>3. Is(g, k)
    <3>1. g = [n \in 0..k |-> g[n]]
      OBVIOUS
    <3> HIDE DEF g
    <3> QED BY <2>2, <3>1
  <2> HIDE DEF Is, g
  <2> QED BY <2>3
<1>3. m \in S
  <2>1. m \in 0..m
    BY <1>0
  <2> HIDE DEF S
  <2> QED BY <2>1, <1>0, <1>1, <1>2, UpTo
<1> DEFINE f == Running(Take, r, text)
<1>4. f = CHOOSE g : Is(g, m)
  BY DEF Running, Step, m
<1>5. Is(f, m)
  <2> HIDE DEF Is, f
  <2> QED BY <1>3, <1>4
<1> HIDE DEF f
<1>6. /\ f = [n \in 0..m |-> f[n]] /\ f[0] = r
      /\ \A n \in 1..m : f[n] = Step(f[n - 1], n)
  BY <1>5, <1>0
<1>7. Read(r, text) = f[m]
  BY DEF Read, f, m
<1>8. IsReading(f, r, text)
  BY <1>6 DEF IsReading, Step, m
<1> QED BY <1>7, <1>8 DEF m

\* There is one way to read a text.
LEMMA ReadIs ==
  ASSUME NEW r, NEW text, Len(text) \in Nat, NEW f, f[0] = r,
         \A n \in 1..Len(text) : f[n] = Take(f[n - 1], text[n])
  PROVE  Read(r, text) = f[Len(text)]
<1>1. PICK g : IsReading(g, r, text) /\ Read(r, text) = g[Len(text)]
  BY ReadLoop
<1> DEFINE S == {n \in 0..Len(text) : f[n] = g[n]}
<1>2. 0 \in S
  BY <1>1 DEF IsReading
<1>3. ASSUME NEW n \in 1..Len(text), n - 1 \in S PROVE n \in S
  <2>1. f[n] = Take(f[n - 1], text[n]) /\ g[n] = Take(g[n - 1], text[n])
    BY <1>1 DEF IsReading
  <2> QED BY <2>1, <1>3
<1>4. 0..Len(text) \subseteq S
  <2> HIDE DEF S
  <2> QED BY <1>2, <1>3, UpTo
<1>5. Len(text) \in S
  BY <1>4
<1> QED BY <1>1, <1>5

-----------------------------------------------------------------------------
(* Reading a text piece by piece *)

Tokens == Names \cup Punctuators \cup OperationTypes \cup {"fragment", "on"}

\* From the state r a text takes the reader to the state s.
Reads(text, r, s) == text \in Seq(Tokens) /\ Read(r, text) = s

\* Nothing, one token, one text behind another.
LEMMA ReadsNothing == ASSUME NEW r PROVE Reads(<<>>, r, r)
<1>1. Read(r, <<>>) = [n \in {0} |-> r][0]
  <2> DEFINE f == [n \in {0} |-> r]
  <2>1. f[0] = r /\ Len(<<>>) = 0
    OBVIOUS
  <2> HIDE DEF f
  <2>2. Read(r, <<>>) = f[Len(<<>>)]
    BY <2>1, ReadIs
  <2> QED BY <2>1, <2>2 DEF f
<1> QED BY <1>1 DEF Reads

LEMMA ReadsToken ==
  ASSUME NEW token \in Tokens, NEW r
  PROVE  Reads(<<token>>, r, Take(r, token))
<1> DEFINE text == <<token>>
           f == [n \in 0..1 |-> IF n = 0 THEN r ELSE Take(r, token)]
<1>1. Len(text) = 1 /\ text[1] = token /\ text \in Seq(Tokens)
  OBVIOUS
<1>2. f[0] = r /\ f[1] = Take(r, token)
  OBVIOUS
<1> HIDE DEF f, text
<1>3. \A n \in 1..Len(text) : f[n] = Take(f[n - 1], text[n])
  BY <1>1, <1>2
<1>4. Len(text) \in Nat
  BY <1>1
<1>5. Read(r, text) = f[Len(text)]
  BY <1>2, <1>3, <1>4, ReadIs
<1> QED BY <1>1, <1>2, <1>5 DEF Reads, text

LEMMA ReadsOn ==
  ASSUME NEW p, NEW q, NEW r, NEW s, NEW t, Reads(p, r, s), Reads(q, s, t)
  PROVE  Reads(On(p, q), r, t)
<1> DEFINE text == On(p, q)
           k == Len(p)
<1>0. p \in Seq(Tokens) /\ q \in Seq(Tokens)
  BY DEF Reads
<1>1. /\ text \in Seq(Tokens) /\ Len(text) = k + Len(q) /\ k \in Nat /\ Len(q) \in Nat
      /\ \A i \in 1..k : text[i] = p[i]
      /\ \A i \in 1..Len(q) : text[k + i] = q[i]
  <2>1. text \in Seq(Tokens) /\ Len(text) = k + Len(q) /\ k \in Nat /\ Len(q) \in Nat
    BY <1>0, OnIs
  <2>2. \A i \in 1..k : text[i] = p[i]
    BY <1>0, OnIs
  <2>3. \A i \in 1..Len(q) : text[k + i] = q[i]
    BY <1>0, OnIs
  <2> QED BY <2>1, <2>2, <2>3
<1> HIDE DEF text, k
<1>2. PICK f : IsReading(f, r, p) /\ s = f[k]
  BY <1>1, ReadLoop DEF Reads, k
<1>3. PICK g : IsReading(g, s, q) /\ t = g[Len(q)]
  BY <1>1, ReadLoop DEF Reads
<1> DEFINE h == [n \in 0..Len(text) |-> IF n <= k THEN f[n] ELSE g[n - k]]
<1>4. h[0] = r
  BY <1>1, <1>2 DEF IsReading
<1>5. ASSUME NEW n \in 1..Len(text) PROVE h[n] = Take(h[n - 1], text[n])
  <2>1. CASE n <= k
    <3>1. h[n] = f[n] /\ h[n - 1] = f[n - 1] /\ n \in 1..k
      BY <2>1, <1>1
    <3>2. f[n] = Take(f[n - 1], p[n])
      BY <3>1, <1>2 DEF IsReading, k
    <3> QED BY <3>1, <3>2, <1>1
  <2>2. CASE n > k
    <3>1. h[n] = g[n - k] /\ n - k \in 1..Len(q) /\ k + (n - k) = n
      BY <2>2, <1>1
    <3>2. h[n - 1] = g[(n - k) - 1]
      <4>1. CASE n - 1 = k
        <5>1. h[n - 1] = s /\ (n - k) - 1 = 0
          BY <4>1, <1>1, <1>2
        <5>2. g[0] = s
          BY <1>3 DEF IsReading
        <5> QED BY <5>1, <5>2
      <4>2. CASE n - 1 # k
        BY <4>2, <2>2, <1>1
      <4> QED BY <4>1, <4>2
    <3>3. g[n - k] = Take(g[(n - k) - 1], q[n - k])
      BY <3>1, <1>3 DEF IsReading
    <3>4. text[n] = q[n - k]
      BY <3>1, <1>1
    <3> QED BY <3>1, <3>2, <3>3, <3>4
  <2> QED BY <2>1, <2>2, <1>1
<1>6. h[Len(text)] = t
  <2>1. CASE Len(q) = 0
    <3>1. h[Len(text)] = s
      BY <2>1, <1>1, <1>2
    <3>2. g[0] = s
      BY <1>3 DEF IsReading
    <3> QED BY <2>1, <3>1, <3>2, <1>3
  <2>2. CASE Len(q) # 0
    BY <2>2, <1>1, <1>3
  <2> QED BY <2>1, <2>2
<1> HIDE DEF h
<1>7. Len(text) \in Nat
  BY <1>1
<1>8. Read(r, text) = h[Len(text)]
  BY <1>4, <1>5, <1>7, ReadIs
<1> QED BY <1>1, <1>6, <1>8 DEF Reads, text

\* One after the other, when the reader goes from state to state.
LEMMA ReadsAll ==
  ASSUME NEW pieces \in Seq(Seq(Tokens)), NEW states,
         \A i \in 1..Len(pieces) : Reads(pieces[i], states[i - 1], states[i])
  PROVE  Reads(FlattenSeq(pieces), states[0], states[Len(pieces)])
<1> DEFINE n == Len(pieces)
<1>0. n \in Nat
  OBVIOUS
<1>1. CASE n = 0
  <2>1. FlattenSeq(pieces) = <<>>
    BY <1>1 DEF FlattenSeq
  <2>2. Reads(<<>>, states[0], states[0])
    BY ReadsNothing
  <2> QED BY <2>1, <2>2, <1>1
<1>2. CASE n # 0
  <2>1. PICK f : IsFlattening(f, pieces, Tokens)
    BY <1>2, FlattenLoop
  <2> DEFINE S == {i \in 0..n : i = 0 \/ Reads(f[i], states[0], states[i])}
  <2>2. 0 \in S
    BY <1>0
  <2>3. ASSUME NEW i \in 1..n, i - 1 \in S PROVE i \in S
    <3>1. Reads(pieces[i], states[i - 1], states[i])
      OBVIOUS
    <3>2. CASE i = 1
      <4>1. f[i] = pieces[i] /\ i - 1 = 0
        BY <3>2, <2>1 DEF IsFlattening
      <4> QED BY <3>1, <4>1
    <3>3. CASE i # 1
      <4>1. i \in 2..n /\ i - 1 # 0
        BY <3>3, <1>0
      <4>2. f[i] = On(f[i - 1], pieces[i])
        BY <4>1, <2>1 DEF IsFlattening
      <4>3. Reads(f[i - 1], states[0], states[i - 1])
        BY <2>3, <4>1
      <4>4. Reads(f[i], states[0], states[i])
        BY <3>1, <4>2, <4>3, ReadsOn
      <4> QED BY <4>4
    <3> QED BY <3>2, <3>3
  <2>4. 0..n \subseteq S
    <3> HIDE DEF S, n
    <3> QED BY <1>0, <2>2, <2>3, UpTo
  <2>5. n \in S
    BY <2>4, <1>0
  <2>6. FlattenSeq(pieces) = f[n]
    BY <2>1 DEF IsFlattening
  <2> QED BY <2>5, <2>6, <1>2
<1> QED BY <1>1, <1>2

-----------------------------------------------------------------------------
(* Lists in brackets *)

\* What there is in a part of a list.
Words == Names \cup {":", "="}

\* No name and no keyword is a punctuator.
LEMMA NotPunctuation ==
  ASSUME NEW token \in Names \cup OperationTypes \cup {"fragment", "on"}
  PROVE  /\ token # "{" /\ token # "}" /\ token # "(" /\ token # ")" /\ token # ":"
         /\ token # "," /\ token # "=" /\ token # "@" /\ token # "..."
<1>1. CASE token \in Names
  BY <1>1, NamesAssumption DEF Punctuators
<1>2. CASE token \notin Names
  BY <1>2 DEF OperationTypes
<1> QED BY <1>1, <1>2

\* A reader between lists.
IsReader(c) == c = Reader(c.doc, c.words, c.variables, c.at, NoList, c.mode)

ListModes == {"variables", "arguments"}

\* (The provers do not take these strings in terms.)
Comma == ","
Absent == ""

\* In a list: a word goes on the part, a comma begins another, a bracket ends the list.
LEMMA ListTakes ==
  ASSUME NEW c, c.mode \in ListModes, NEW parts, NEW part
  PROVE  /\ \A token \in Words :
              Take(Listing(c, parts, part), token) = Listing(c, parts, Append(part, token))
         /\ Take(Listing(c, parts, part), Comma) = Listing(c, Append(parts, part), <<>>)
         /\ Take(Listing(c, parts, part), ")")
              = EndList(Listing(c, parts, part), Append(parts, part))
<1> DEFINE r == Listing(c, parts, part)
<1>1. \A token : Take(r, token) = InList(r, token)
  BY DEF Take, Listing, Reader, ListModes
<1>2. ASSUME NEW token \in Words PROVE InList(r, token) = Listing(c, parts, Append(part, token))
  <2>1. token # "," /\ token # ")"
    BY NotPunctuation DEF Words
  <2> QED BY <2>1 DEF InList, Listing, Reader, List
<1>3. InList(r, ",") = Listing(c, Append(parts, part), <<>>)
  BY DEF InList, Listing, Reader, List
<1>4. InList(r, ")") = EndList(r, Append(parts, part))
  BY DEF InList, Listing, Reader, List
<1> HIDE DEF r
<1> QED BY <1>1, <1>2, <1>3, <1>4 DEF r, Comma

\* What is made of a list does not depend on what the reader keeps of it.
LEMMA EndListIs ==
  ASSUME NEW c, NEW parts, NEW part, NEW list
  PROVE  /\ c.mode = "variables" =>
              EndList(Listing(c, parts, part), list)
                = Reader(c.doc, c.words, [i \in DOMAIN list |-> ReadVariable(list[i])], c.at,
                         NoList, "definition")
         /\ c.mode = "arguments" =>
              EndList(Listing(c, parts, part), list)
                = Reader(c.doc, c.words, c.variables,
                         Frame(c.at.set,
                               WithArguments(c.at.sel,
                                             [i \in DOMAIN list |->
                                                Argument(list[i][1], list[i][3])]),
                               c.at.around),
                         NoList, "selection")
BY DEF EndList, Listing, Reader, Selecting, Continue, NoList

\* A part of a list is read as it is.
LEMMA PartRead ==
  ASSUME NEW c, c.mode \in ListModes, NEW parts, NEW part \in Seq(Words)
  PROVE  Reads(part, Listing(c, parts, <<>>), Listing(c, parts, part))
<1> DEFINE state(n) == Listing(c, parts, SubSeq(part, 1, n))
           f == [n \in 0..Len(part) |-> state(n)]
<1>1. Len(part) \in Nat /\ \A n \in 1..Len(part) : part[n] \in Words
  OBVIOUS
<1>2. /\ SubSeq(part, 1, 0) = <<>> /\ SubSeq(part, 1, Len(part)) = part
      /\ \A n \in 1..Len(part) : Append(SubSeq(part, 1, n - 1), part[n]) = SubSeq(part, 1, n)
  BY Beginning
<1>3. f[0] = Listing(c, parts, <<>>) /\ f[Len(part)] = Listing(c, parts, part)
  <2>1. state(0) = Listing(c, parts, <<>>) /\ state(Len(part)) = Listing(c, parts, part)
    BY <1>2
  <2> HIDE DEF state
  <2> QED BY <1>1, <2>1
<1>4. ASSUME NEW n \in 1..Len(part) PROVE f[n] = Take(f[n - 1], part[n])
  <2>1. f[n] = state(n) /\ f[n - 1] = state(n - 1)
    <3> HIDE DEF state
    <3> QED BY <1>1
  <2> DEFINE seen == SubSeq(part, 1, n - 1)
  <2>2. state(n) = Listing(c, parts, Append(seen, part[n])) /\ state(n - 1) = Listing(c, parts, seen)
    BY <1>2
  <2> HIDE DEF seen, state, f
  <2>3. Take(Listing(c, parts, seen), part[n]) = Listing(c, parts, Append(seen, part[n]))
    BY <1>1, ListTakes
  <2> QED BY <2>1, <2>2, <2>3
<1> HIDE DEF f
<1>5. Read(Listing(c, parts, <<>>), part) = f[Len(part)]
  BY <1>1, <1>3, <1>4, ReadIs
<1>6. part \in Seq(Tokens)
  <2>1. Words \subseteq Tokens
    BY DEF Words, Tokens, Punctuators
  <2> QED BY <2>1, SeqMonotonic
<1> QED BY <1>3, <1>5, <1>6 DEF Reads

\* A list in brackets ends with the parts that were printed.
LEMMA BracketsRead ==
  ASSUME NEW c, IsReader(c), c.mode \in ListModes,
         NEW parts \in Seq(Seq(Words)), parts # <<>>,
         NEW r, Take(r, "(") = c
  PROVE  \E ps, p : Reads(InBrackets(parts), r, EndList(Listing(c, ps, p), parts))
<1> DEFINE n == Len(parts)
           piece(i) == IF i = 1 THEN parts[i] ELSE On(<<Comma>>, parts[i])
           pieces == [i \in DOMAIN parts |-> piece(i)]
           state(i) == IF i = 0 THEN c ELSE Listing(c, SubSeq(parts, 1, i - 1), parts[i])
           states == [i \in 0..n |-> state(i)]
<1>1. n \in Nat /\ n # 0 /\ DOMAIN parts = 1..n /\ \A i \in 1..n : parts[i] \in Seq(Words)
  OBVIOUS
<1>2. {Comma, "(", ")"} \cup Words \subseteq Tokens
  BY DEF Words, Tokens, Punctuators, Comma
<1>3. \A i \in 1..n : parts[i] \in Seq(Tokens)
  <2> SUFFICES ASSUME NEW i \in 1..n PROVE parts[i] \in Seq(Tokens)
    OBVIOUS
  <2>1. parts[i] \in Seq(Words) /\ Words \subseteq Tokens
    BY <1>1, <1>2
  <2> QED BY <2>1, SeqMonotonic
<1>4. \A i \in 1..n : piece(i) \in Seq(Tokens)
  <2> SUFFICES ASSUME NEW i \in 1..n PROVE piece(i) \in Seq(Tokens)
    OBVIOUS
  <2>1. <<Comma>> \in Seq(Tokens) /\ parts[i] \in Seq(Tokens)
    <3>1. Comma \in Tokens
      BY <1>2
    <3>2. <<Comma>> \in Seq(Tokens)
      BY <3>1
    <3> QED BY <3>2, <1>3
  <2>2. On(<<Comma>>, parts[i]) \in Seq(Tokens)
    BY <2>1, OnIs
  <2> QED BY <2>1, <2>2
<1>5. /\ SubSeq(parts, 1, 0) = <<>> /\ SubSeq(parts, 1, n) = parts
      /\ \A i \in 1..n : Append(SubSeq(parts, 1, i - 1), parts[i]) = SubSeq(parts, 1, i)
  BY Beginning
<1>6. c = Listing(c, <<>>, <<>>)
  BY DEF IsReader, Listing, NoList
<1>7. ASSUME NEW i \in 1..n PROVE Reads(piece(i), state(i - 1), state(i))
  <2> DEFINE before == SubSeq(parts, 1, i - 1)
             part == parts[i]
  <2>1. part \in Seq(Words)
    BY <1>1
  <2>2. i # 0 /\ state(i) = Listing(c, before, part)
    OBVIOUS
  <2>3. Reads(part, Listing(c, before, <<>>), Listing(c, before, part))
    <3> HIDE DEF before, part
    <3> QED BY <2>1, PartRead
  <2>4. CASE i = 1
    <3>1. before = <<>> /\ piece(i) = part /\ state(i - 1) = c
      BY <2>4, <1>5
    <3> HIDE DEF before, part, piece, state
    <3> QED BY <3>1, <2>2, <2>3, <1>6
  <2>5. CASE i # 1
    <3> DEFINE earlier == SubSeq(parts, 1, (i - 1) - 1)
    <3>1. i - 1 \in 1..n /\ i - 1 # 0
      BY <2>5, <1>1
    <3>2. state(i - 1) = Listing(c, earlier, parts[i - 1])
      BY <3>1
    <3>3. Append(earlier, parts[i - 1]) = before
      BY <3>1, <1>5
    <3>4. piece(i) = On(<<Comma>>, part)
      BY <2>5
    <3> DEFINE x == parts[i - 1]
    <3> HIDE DEF earlier, before, part, piece, state, x
    <3>5. Take(state(i - 1), Comma) = Listing(c, before, <<>>)
      <4>1. Take(Listing(c, earlier, x), Comma) = Listing(c, Append(earlier, x), <<>>)
        BY ListTakes
      <4> QED BY <4>1, <3>2, <3>3 DEF x
    <3>6. Reads(<<Comma>>, state(i - 1), Listing(c, before, <<>>))
      <4>1. Comma \in Tokens
        BY <1>2
      <4> QED BY <4>1, <3>5, ReadsToken
    <3> QED BY <3>4, <3>6, <2>2, <2>3, ReadsOn
  <2> QED BY <2>4, <2>5
<1> DEFINE ps == SubSeq(parts, 1, n - 1)
           p == parts[n]
<1>8. Take(state(n), ")") = EndList(Listing(c, ps, p), parts)
  <2>1. state(n) = Listing(c, ps, p)
    BY <1>1
  <2>2. Append(ps, p) = parts
    BY <1>1, <1>5
  <2> HIDE DEF ps, p, state
  <2>3. Take(Listing(c, ps, p), ")") = EndList(Listing(c, ps, p), Append(ps, p))
    BY ListTakes
  <2> QED BY <2>1, <2>2, <2>3
<1>9. InBrackets(parts) = On(On(<<"(">>, FlattenSeq(pieces)), <<")">>)
  BY DEF InBrackets, Joined, On, Comma
<1>10. pieces \in Seq(Seq(Tokens)) /\ Len(pieces) = n
  <2> HIDE DEF piece
  <2>1. DOMAIN pieces = 1..n /\ pieces = [i \in 1..n |-> pieces[i]]
    BY <1>1
  <2>2. \A i \in 1..n : pieces[i] \in Seq(Tokens)
    BY <1>1, <1>4
  <2> HIDE DEF pieces, n
  <2> QED BY <2>1, <2>2, <1>1, MappedSeq
<1>11. Reads(FlattenSeq(pieces), c, state(n))
  <2>1. states[0] = c /\ states[n] = state(n)
    <3>1. state(0) = c
      OBVIOUS
    <3> HIDE DEF state
    <3> QED BY <3>1, <1>1
  <2>2. \A i \in 1..Len(pieces) : Reads(pieces[i], states[i - 1], states[i])
    <3> SUFFICES ASSUME NEW i \in 1..n PROVE Reads(pieces[i], states[i - 1], states[i])
      BY <1>10
    <3>1. pieces[i] = piece(i) /\ states[i - 1] = state(i - 1) /\ states[i] = state(i)
      <4> HIDE DEF piece, state
      <4> QED BY <1>1
    <3> HIDE DEF piece, state, pieces, states
    <3> QED BY <3>1, <1>7
  <2> HIDE DEF pieces, states, state
  <2>3. Reads(FlattenSeq(pieces), states[0], states[Len(pieces)])
    BY <1>10, <2>2, ReadsAll
  <2> QED BY <2>1, <2>3, <1>10
<1>12. Reads(<<"(">>, r, c)
  <2>1. "(" \in Tokens
    BY <1>2
  <2> QED BY <2>1, ReadsToken
<1> DEFINE last == EndList(Listing(c, ps, p), parts)
           inner == FlattenSeq(pieces)
<1>13. Reads(<<")">>, state(n), last)
  <2>1. ")" \in Tokens
    BY <1>2
  <2> HIDE DEF state, last
  <2> QED BY <2>1, <1>8, ReadsToken DEF last
<1>14. Reads(InBrackets(parts), r, last)
  <2> HIDE DEF state, last, inner
  <2>1. Reads(On(<<"(">>, inner), r, state(n))
    BY <1>11, <1>12, ReadsOn DEF inner
  <2>2. Reads(On(On(<<"(">>, inner), <<")">>), r, last)
    BY <2>1, <1>13, ReadsOn
  <2> QED BY <2>2, <1>9 DEF inner
<1> HIDE DEF ps, p
<1> QED BY <1>14

-----------------------------------------------------------------------------
(* Arguments and directives *)

\* A reader at a selection: c is the reader outside of the selection's set.
At(c, set, sel, mode) ==
  Reader(c.doc, c.words, c.variables, Frame(set, sel, c.at), NoList, mode)

\* Readers with another selection, frame or mode.
LEMMA AtIs ==
  ASSUME NEW c, NEW set, NEW sel, NEW mode
  PROVE  /\ IsReader(At(c, set, sel, mode))
         /\ At(c, set, sel, mode).at = Frame(set, sel, c.at)
         /\ At(c, set, sel, mode).mode = mode
         /\ At(c, set, sel, mode).doc = c.doc
         /\ At(c, set, sel, mode).words = c.words
         /\ At(c, set, sel, mode).variables = c.variables
BY DEF IsReader, At, Reader

LEMMA FrameIs ==
  ASSUME NEW set, NEW sel, NEW around
  PROVE  /\ Frame(set, sel, around).set = set /\ Frame(set, sel, around).sel = sel
         /\ Frame(set, sel, around).around = around
         /\ Frame(set, sel, around) # NoFrame
<1>1. "set" \in DOMAIN Frame(set, sel, around)
  BY DEF Frame
<1>2. DOMAIN NoFrame = {}
  BY DEF NoFrame
<1>3. Frame(set, sel, around) # NoFrame
  BY <1>1, <1>2
<1> QED BY <1>3 DEF Frame

LEMMA ContinueIs ==
  ASSUME NEW c, NEW set, NEW sel, NEW mode
  PROVE  /\ \A next : Continue(At(c, set, sel, mode), At(c, set, sel, mode).at, next)
                        = At(c, set, sel, next)
         /\ \A new, next : Selecting(At(c, set, sel, mode), new, next) = At(c, set, new, next)
BY DEF Continue, Selecting, At, Reader, Frame

\* Arguments come to the selection, or to its last directive.
LEMMA ArgumentsRead ==
  ASSUME NEW c, NEW set, NEW sel, NEW args \in Seq(Arguments)
  PROVE  Reads(PrintArguments(args), At(c, set, sel, "selection"),
               At(c, set, IF args = <<>> THEN sel ELSE WithArguments(sel, args), "selection"))
<1> DEFINE n == Len(args)
           part(i) == <<args[i].name, ":", args[i].value>>
           parts == [i \in DOMAIN args |-> part(i)]
           r == At(c, set, sel, "selection")
<1>1. n \in Nat /\ DOMAIN args = 1..n /\ \A i \in 1..n : args[i] \in Arguments
  OBVIOUS
<1>2. PrintArguments(args) = InBrackets(parts)
  BY DEF PrintArguments
<1>3. CASE args = <<>>
  <2>1. parts = <<>>
    BY <1>3
  <2>2. PrintArguments(args) = <<>>
    BY <2>1, <1>2 DEF InBrackets
  <2> QED BY <2>2, <1>3, ReadsNothing
<1>4. CASE args # <<>>
  <2> DEFINE d == At(c, set, sel, "arguments")
  <2>1. parts \in Seq(Seq(Words)) /\ Len(parts) = n /\ parts # <<>>
    <3>1. \A i \in 1..n : part(i) \in Seq(Words)
      <4> SUFFICES ASSUME NEW i \in 1..n PROVE part(i) \in Seq(Words)
        OBVIOUS
      <4>1. args[i].name \in Words /\ args[i].value \in Words /\ ":" \in Words
        BY <1>1 DEF Arguments, Words
      <4> QED BY <4>1
    <3>2. DOMAIN parts = 1..n /\ parts = [i \in 1..n |-> parts[i]] /\ n # 0
      BY <1>1, <1>4
    <3>3. \A i \in 1..n : parts[i] \in Seq(Words)
      <4> HIDE DEF part
      <4> QED BY <3>1, <1>1
    <3> HIDE DEF parts, n
    <3>4. parts \in Seq(Seq(Words)) /\ Len(parts) = n
      BY <1>1, <3>2, <3>3, MappedSeq
    <3>5. Len(<<>>) = 0
      OBVIOUS
    <3> QED BY <3>4, <3>2, <3>5
  <2>2. Take(r, "(") = d
    <3>1. Take(r, "(") = Continue(r, r.at, "arguments")
      BY DEF Take, InSet, At, Reader
    <3> QED BY <3>1, ContinueIs
  <2>3. IsReader(d) /\ d.mode = "arguments" /\ d.mode \in ListModes
    BY AtIs DEF ListModes
  <2> DEFINE list == [i \in DOMAIN parts |-> Argument(parts[i][1], parts[i][3])]
  <2>4. list = args
    <3>1. list = [i \in 1..n |-> Argument(args[i].name, args[i].value)]
      BY <1>1
    <3>2. \A i \in 1..n : args[i] = Argument(args[i].name, args[i].value)
      BY <1>1 DEF Arguments, Argument
    <3>3. args = [i \in 1..n |-> args[i]]
      BY <1>1
    <3> QED BY <3>1, <3>2, <3>3
  <2> HIDE DEF r, d, parts
  <2>5. PICK ps, p : Reads(InBrackets(parts), r, EndList(Listing(d, ps, p), parts))
    BY <2>1, <2>2, <2>3, BracketsRead
  <2>6. EndList(Listing(d, ps, p), parts)
          = Reader(d.doc, d.words, d.variables,
                   Frame(d.at.set, WithArguments(d.at.sel, list), d.at.around), NoList, "selection")
    BY <2>3, EndListIs
  <2>7. EndList(Listing(d, ps, p), parts) = At(c, set, WithArguments(sel, args), "selection")
    <3> HIDE DEF list
    <3>1. /\ d.doc = c.doc /\ d.words = c.words /\ d.variables = c.variables
          /\ d.at = Frame(set, sel, c.at)
      BY AtIs DEF d
    <3>2. d.at.set = set /\ d.at.sel = sel /\ d.at.around = c.at
      BY <3>1, FrameIs
    <3> QED BY <2>4, <2>6, <3>1, <3>2 DEF At
  <2> QED BY <2>5, <2>7, <1>2, <1>4 DEF r
<1> QED BY <1>3, <1>4

\* Of a selection the directives may be replaced.
IsSelection(sel) ==
  \/ sel = Field(sel.alias, sel.name, sel.args, sel.directives, sel.set)
  \/ sel = Spread(sel.spread, sel.directives)
  \/ sel = Inline(sel.on, sel.directives, sel.set)
WithDirectives(sel, directives) == [sel EXCEPT !.directives = directives]

LEMMA WithDirectivesIs ==
  ASSUME NEW sel, IsSelection(sel), NEW directives
  PROVE  /\ WithDirectives(sel, directives).directives = directives
         /\ \A other : WithDirectives(WithDirectives(sel, directives), other)
                         = WithDirectives(sel, other)
         /\ WithDirectives(sel, sel.directives) = sel
<1>1. CASE sel = Field(sel.alias, sel.name, sel.args, sel.directives, sel.set)
  BY <1>1 DEF Field, WithDirectives
<1>2. CASE sel = Spread(sel.spread, sel.directives)
  BY <1>2 DEF Spread, WithDirectives
<1>3. CASE sel = Inline(sel.on, sel.directives, sel.set)
  BY <1>3 DEF Inline, WithDirectives
<1> QED BY <1>1, <1>2, <1>3 DEF IsSelection

\* A directive's sign and its name add a directive.
LEMMA DirectiveTaken ==
  ASSUME NEW S, NEW ds \in Seq(S), NEW name, Directive(name, <<>>) \in S, NEW args,
         NEW sel, IsSelection(sel), Directive(name, args) \in S
  PROVE  LET more == WithDirectives(sel, Append(ds, Directive(name, <<>>)))
         IN (IF args = <<>> THEN more ELSE WithArguments(more, args))
              = WithDirectives(sel, Append(ds, Directive(name, args)))
<1> DEFINE before == Append(ds, Directive(name, <<>>))
           after == Append(ds, Directive(name, args))
           more == WithDirectives(sel, before)
<1>1. CASE args = <<>>
  BY <1>1
<1>2. CASE args # <<>>
  <2>1. /\ Len(before) = Len(ds) + 1 /\ before # <<>> /\ before \in Seq(S)
        /\ before[Len(before)] = Directive(name, <<>>)
        /\ \A i \in 1..Len(ds) : before[i] = ds[i]
    OBVIOUS
  <2>2. /\ Len(after) = Len(ds) + 1 /\ after \in Seq(S)
        /\ after[Len(ds) + 1] = Directive(name, args)
        /\ \A i \in 1..Len(ds) : after[i] = ds[i]
    OBVIOUS
  <2>3. Len(ds) \in Nat
    OBVIOUS
  <2> HIDE DEF before, after
  <2> DEFINE changed == [before EXCEPT ![Len(before)] = Directive(before[Len(before)].name, args)]
  <2>4. changed = after
    <3>1. before[Len(before)].name = name
      BY <2>1 DEF Directive
    <3>2. changed \in Seq(S) /\ Len(changed) = Len(before)
      BY <2>1, <2>3, <3>1, ExceptSeq
    <3>3. \A i \in 1..Len(before) : changed[i] = after[i]
      <4> SUFFICES ASSUME NEW i \in 1..Len(before) PROVE changed[i] = after[i]
        OBVIOUS
      <4>1. CASE i = Len(before)
        BY <4>1, <3>1, <2>1, <2>2, <2>3
      <4>2. CASE i # Len(before)
        BY <4>2, <2>1, <2>2, <2>3
      <4> QED BY <4>1, <4>2
    <3> HIDE DEF changed
    <3> QED BY <2>1, <2>2, <3>2, <3>3, SeqEqual
  <2>5. more.directives = before
    BY WithDirectivesIs
  <2>6. WithArguments(more, args) = [more EXCEPT !.directives = changed]
    <3> HIDE DEF more
    <3> QED BY <2>5, <2>1 DEF WithArguments
  <2>7. WithArguments(more, args) = WithDirectives(sel, changed)
    <3> HIDE DEF changed
    <3>1. WithDirectives(more, changed) = WithDirectives(sel, changed)
      BY WithDirectivesIs
    <3> QED BY <3>1, <2>6 DEF WithDirectives
  <2> QED BY <1>2, <2>4, <2>7 DEF before, after
<1> QED BY <1>1, <1>2

LEMMA ReadsTwo ==
  ASSUME NEW a \in Tokens, NEW b \in Tokens, NEW r
  PROVE  Reads(<<a, b>>, r, Take(Take(r, a), b))
<1>1. On(<<a>>, <<b>>) = <<a, b>>
  <2> DEFINE p == <<a>>
             q == <<b>>
             both == <<a, b>>
  <2>1. p \in Seq(Tokens) /\ q \in Seq(Tokens) /\ Len(p) = 1 /\ Len(q) = 1 /\ p[1] = a /\ q[1] = b
    OBVIOUS
  <2>2. both \in Seq(Tokens) /\ Len(both) = 2 /\ both[1] = a /\ both[2] = b
    OBVIOUS
  <2> HIDE DEF p, q, both
  <2>3. /\ On(p, q) \in Seq(Tokens) /\ Len(On(p, q)) = 2
        /\ On(p, q)[1] = a /\ On(p, q)[2] = b
    <3>1. /\ On(p, q) \in Seq(Tokens) /\ Len(On(p, q)) = Len(p) + Len(q)
          /\ \A i \in 1..Len(p) : On(p, q)[i] = p[i]
          /\ \A i \in 1..Len(q) : On(p, q)[Len(p) + i] = q[i]
      <4>1. On(p, q) \in Seq(Tokens) /\ Len(On(p, q)) = Len(p) + Len(q)
        BY <2>1, OnIs
      <4>2. \A i \in 1..Len(p) : On(p, q)[i] = p[i]
        BY <2>1, OnIs
      <4>3. \A i \in 1..Len(q) : On(p, q)[Len(p) + i] = q[i]
        <5>1. p \in Seq(Tokens) /\ q \in Seq(Tokens)
          BY <2>1
        <5> QED BY <5>1 DEF On
      <4> QED BY <4>1, <4>2, <4>3
    <3>2. 1 \in 1..Len(p) /\ 1 \in 1..Len(q) /\ Len(p) + 1 = 2 /\ Len(p) + Len(q) = 2
      BY <2>1
    <3> QED BY <3>1, <3>2, <2>1
  <2>4. On(p, q) = both
    BY <2>2, <2>3, SeqEqual
  <2> QED BY <2>4 DEF p, q, both
<1> DEFINE s == Take(r, a)
           t == Take(s, b)
<1>2. Reads(<<a>>, r, s) /\ Reads(<<b>>, s, t)
  BY ReadsToken
<1> HIDE DEF s, t
<1>3. Reads(On(<<a>>, <<b>>), r, t)
  BY <1>2, ReadsOn
<1> QED BY <1>1, <1>3 DEF s, t

\* Directives are read one after the other, each with its arguments.
LEMMA DirectivesRead ==
  ASSUME NEW c, NEW set, NEW sel, IsSelection(sel), sel.directives = <<>>,
         NEW ds \in Seq(Directives), NEW m \in {"spread", "selection"}
  PROVE  Reads(PrintDirectives(ds), At(c, set, sel, m),
               At(c, set, WithDirectives(sel, ds), IF ds = <<>> THEN m ELSE "selection"))
<1> DEFINE n == Len(ds)
           piece(i) == On(<<"@", ds[i].name>>, PrintArguments(ds[i].args))
           pieces == [i \in DOMAIN ds |-> piece(i)]
           mode(i) == IF i = 0 THEN m ELSE "selection"
           state(i) == At(c, set, WithDirectives(sel, SubSeq(ds, 1, i)), mode(i))
           states == [i \in 0..n |-> state(i)]
<1>1. n \in Nat /\ DOMAIN ds = 1..n /\ \A i \in 1..n : ds[i] \in Directives
  OBVIOUS
<1>2. /\ SubSeq(ds, 1, 0) = <<>> /\ SubSeq(ds, 1, n) = ds
      /\ \A i \in 1..n : Append(SubSeq(ds, 1, i - 1), ds[i]) = SubSeq(ds, 1, i)
  BY Beginning
<1>3. ASSUME NEW i \in 1..n PROVE Reads(piece(i), state(i - 1), state(i))
  <2> DEFINE name == ds[i].name
             args == ds[i].args
             before == SubSeq(ds, 1, i - 1)
             was == WithDirectives(sel, before)
             more == WithDirectives(sel, Append(before, Directive(name, <<>>)))
             r == state(i - 1)
  <2>1. /\ name \in Names /\ args \in Seq(Arguments) /\ ds[i] = Directive(name, args)
        /\ Directive(name, <<>>) \in Directives /\ Directive(name, args) \in Directives
    <3>1. ds[i] \in Directives
      BY <1>1
    <3>2. <<>> \in Seq(Arguments)
      OBVIOUS
    <3> QED BY <3>1, <3>2 DEF Directives, Directive
  <2>2. before \in Seq(Directives)
    <3>1. \A j \in 1..(i - 1) : ds[j] \in Directives
      BY <1>1
    <3> QED BY <3>1, <1>1, SubSeqProperties
  <2>3. Take(r, "@") = At(c, set, was, "directive")
    <3>1. mode(i - 1) \in {"spread", "selection"}
      OBVIOUS
    <3> DEFINE k == mode(i - 1)
    <3>2. r = At(c, set, was, k)
      OBVIOUS
    <3> HIDE DEF r, was, k
    <3>3. Take(At(c, set, was, k), "@") = InSet(At(c, set, was, k), "@")
      BY <3>1 DEF Take, InSpread, At, Reader, k
    <3>4. InSet(At(c, set, was, k), "@")
            = Continue(At(c, set, was, k), At(c, set, was, k).at, "directive")
      BY DEF InSet
    <3> QED BY <3>2, <3>3, <3>4, ContinueIs
  <2>4. Take(At(c, set, was, "directive"), name) = At(c, set, more, "selection")
    <3> DEFINE d == At(c, set, was, "directive")
    <3>1. d.at.sel = was /\ d.mode = "directive"
      BY AtIs, FrameIs
    <3>2. Take(d, name) = Selecting(d, [was EXCEPT !.directives = Append(@, Directive(name, <<>>))],
                                    "selection")
      <4> HIDE DEF d, was
      <4> QED BY <3>1 DEF Take, InDirective
    <3>3. was.directives = before
      BY WithDirectivesIs
    <3> DEFINE longer == Append(before, Directive(name, <<>>))
    <3>4. [was EXCEPT !.directives = Append(@, Directive(name, <<>>))] = WithDirectives(was, longer)
      <4> HIDE DEF was, before
      <4> QED BY <3>3 DEF WithDirectives
    <3>5. WithDirectives(was, longer) = more
      <4> HIDE DEF longer, before
      <4> QED BY WithDirectivesIs DEF longer
    <3>6. Selecting(d, more, "selection") = At(c, set, more, "selection")
      <4> HIDE DEF was, more
      <4> QED BY ContinueIs
    <3> HIDE DEF d, more, was, longer
    <3> QED BY <3>2, <3>4, <3>5, <3>6 DEF d
  <2>5. Reads(<<"@", name>>, r, At(c, set, more, "selection"))
    <3>1. "@" \in Tokens /\ name \in Tokens
      BY <2>1 DEF Tokens, Punctuators
    <3> HIDE DEF r, was, more, name
    <3> QED BY <3>1, <2>3, <2>4, ReadsTwo
  <2> DEFINE new == IF args = <<>> THEN more ELSE WithArguments(more, args)
  <2>6. Reads(PrintArguments(args), At(c, set, more, "selection"), At(c, set, new, "selection"))
    <3> HIDE DEF more, args
    <3> QED BY <2>1, ArgumentsRead
  <2>7. new = WithDirectives(sel, Append(before, Directive(name, args)))
    <3> HIDE DEF before, args, name
    <3> QED BY <2>1, <2>2, DirectiveTaken
  <2>8. At(c, set, new, "selection") = state(i)
    <3>1. Append(before, Directive(name, args)) = SubSeq(ds, 1, i)
      BY <2>1, <1>2
    <3>2. mode(i) = "selection"
      OBVIOUS
    <3> HIDE DEF new, before, args, name, mode
    <3> QED BY <2>7, <3>1, <3>2
  <2>9. piece(i) = On(<<"@", name>>, PrintArguments(args))
    OBVIOUS
  <2> HIDE DEF piece, r, state, args, name, more, new
  <2>10. Reads(piece(i), r, state(i))
    BY <2>5, <2>6, <2>8, <2>9, ReadsOn
  <2> QED BY <2>10 DEF r
<1>4. PrintDirectives(ds) = FlattenSeq(pieces)
  BY DEF PrintDirectives, On
<1>5. pieces \in Seq(Seq(Tokens)) /\ Len(pieces) = n
  <2>1. \A i \in 1..n : piece(i) \in Seq(Tokens)
    <3> HIDE DEF piece, state
    <3> QED BY <1>3 DEF Reads
  <2> HIDE DEF piece
  <2>2. DOMAIN pieces = 1..n /\ pieces = [i \in 1..n |-> pieces[i]]
    BY <1>1
  <2>3. \A i \in 1..n : pieces[i] \in Seq(Tokens)
    BY <1>1, <2>1
  <2> HIDE DEF pieces, n
  <2> QED BY <2>2, <2>3, <1>1, MappedSeq
<1>6. \A i \in 1..Len(pieces) : Reads(pieces[i], states[i - 1], states[i])
  <2> SUFFICES ASSUME NEW i \in 1..n PROVE Reads(pieces[i], states[i - 1], states[i])
    BY <1>5
  <2>1. pieces[i] = piece(i) /\ states[i - 1] = state(i - 1) /\ states[i] = state(i)
    <3> HIDE DEF piece, state
    <3> QED BY <1>1
  <2> HIDE DEF piece, state, pieces, states
  <2> QED BY <2>1, <1>3
<1>7. states[0] = state(0) /\ states[n] = state(n)
  <2> HIDE DEF state
  <2> QED BY <1>1
<1>8. Reads(FlattenSeq(pieces), state(0), state(n))
  <2> HIDE DEF pieces, states, state
  <2>1. Reads(FlattenSeq(pieces), states[0], states[Len(pieces)])
    BY <1>5, <1>6, ReadsAll
  <2> QED BY <2>1, <1>5, <1>7
<1>9. state(0) = At(c, set, sel, m)
  <2>1. WithDirectives(sel, <<>>) = sel
    BY WithDirectivesIs
  <2> QED BY <2>1, <1>2
<1>10. state(n) = At(c, set, WithDirectives(sel, ds), IF ds = <<>> THEN m ELSE "selection")
  <2>1. n = 0 <=> ds = <<>>
    OBVIOUS
  <2> HIDE DEF n
  <2> QED BY <2>1, <1>2
<1> HIDE DEF pieces, state
<1> QED BY <1>4, <1>8, <1>9, <1>10

-----------------------------------------------------------------------------
(* Selections *)

\* A reader before a selection set, and behind it.
Opens(c) == IsReader(c) /\ c.mode \in {"definition", "selection", "spread"}
SetRead(c, set) ==
  IF c.at # NoFrame
  THEN Reader(c.doc, c.words, c.variables,
              Frame(c.at.set, [c.at.sel EXCEPT !.set = set], c.at.around), NoList, "selection")
  ELSE Reader(Define(c.doc, c.words, c.variables, set), <<>>, <<>>, NoFrame, NoList, "definition")

\* A text is read as a set, wherever it stands.
SetReads(text, set) == \A c : Opens(c) => Reads(text, c, SetRead(c, set))

Done(s, l, m) == IF m = "set" THEN <<>> ELSE Append(s, l)

\* A selection set begins, ends, and where it goes.
LEMMA SetOpens == ASSUME NEW c, Opens(c) PROVE Take(c, "{") = At(c, <<>>, NoSelection, "set")
<1>1. CASE c.mode = "definition"
  <2>1. Take(c, "{") = OpenSet(c)
    BY <1>1 DEF Take, InDefinition
  <2>2. c.list = NoList
    BY DEF Opens, IsReader, Reader
  <2> QED BY <2>1, <2>2 DEF OpenSet, Continue, At
<1>2. CASE c.mode # "definition"
  <2>1. c.mode \in {"selection", "spread"}
    BY <1>2 DEF Opens
  <2>2. Take(c, "{") = InSet(c, "{")
    BY <2>1 DEF Take, InSpread
  <2>3. InSet(c, "{") = OpenSet(c)
    BY DEF InSet
  <2>4. c.list = NoList
    BY DEF Opens, IsReader, Reader
  <2> QED BY <2>2, <2>3, <2>4 DEF OpenSet, Continue, At
<1> QED BY <1>1, <1>2

LEMMA SetCloses ==
  ASSUME NEW c, NEW s, NEW l, NEW m \in {"set", "selection"}
  PROVE  Take(At(c, s, l, m), "}") = SetRead(c, Done(s, l, m))
<1> DEFINE r == At(c, s, l, m)
           set == Done(s, l, m)
<1>1. r.mode = m /\ r.at = Frame(s, l, c.at)
  BY AtIs
<1>2. Take(r, "}") = CloseSet(r)
  <2>1. Take(r, "}") = InSet(r, "}")
    <3> HIDE DEF r
    <3> QED BY <1>1 DEF Take
  <2> QED BY <2>1 DEF InSet
<1>3. SoFar(r) = set
  <2>1. r.at.set = s /\ r.at.sel = l
    BY <1>1, FrameIs
  <2> HIDE DEF r
  <2> QED BY <2>1, <1>1 DEF SoFar, Done
<1>4. r.at.around = c.at
  BY <1>1, FrameIs
<1>5. /\ r.doc = c.doc /\ r.words = c.words /\ r.variables = c.variables /\ r.list = NoList
  BY DEF At, Reader
<1> HIDE DEF r, set
<1>6. CASE c.at # NoFrame
  <2>1. CloseSet(r) = WithinFrame(r, c.at, set)
    BY <1>3, <1>4, <1>6 DEF CloseSet
  <2> QED BY <2>1, <1>2, <1>5, <1>6 DEF WithinFrame, Continue, SetRead, r, set
<1>7. CASE c.at = NoFrame
  BY <1>2, <1>3, <1>4, <1>5, <1>7 DEF CloseSet, SetRead, r, set
<1> QED BY <1>6, <1>7

\* The token that a selection begins with.
LEMMA Begins ==
  ASSUME NEW c, NEW s, NEW l, NEW m \in {"set", "selection"}
  PROVE  /\ Take(At(c, s, l, m), "...") = At(c, Done(s, l, m), NoSelection, "spread")
         /\ \A name \in Names :
              Take(At(c, s, l, m), name)
                = At(c, Done(s, l, m), Field(Absent, name, <<>>, <<>>, <<>>), "selection")
<1> DEFINE r == At(c, s, l, m)
           set == Done(s, l, m)
<1>1. r.mode = m /\ r.at = Frame(s, l, c.at)
  BY AtIs
<1>2. SoFar(r) = set
  <2>1. r.at.set = s /\ r.at.sel = l
    BY <1>1, FrameIs
  <2> HIDE DEF r
  <2> QED BY <2>1, <1>1 DEF SoFar, Done
<1>3. r.at.around = c.at
  BY <1>1, FrameIs
<1>4. /\ r.doc = c.doc /\ r.words = c.words /\ r.variables = c.variables /\ r.list = NoList
  BY DEF At, Reader
<1> HIDE DEF r, set
<1>5. \A token : Take(r, token) = InSet(r, token)
  BY <1>1 DEF Take
<1>6. Take(r, "...") = At(c, set, NoSelection, "spread")
  <2>1. Take(r, "...") = Begin(r, "...")
    BY <1>5 DEF InSet
  <2> QED BY <2>1, <1>2, <1>3, <1>4 DEF Begin, Continue, At
<1>7. ASSUME NEW name \in Names
      PROVE  Take(r, name) = At(c, set, Field(Absent, name, <<>>, <<>>, <<>>), "selection")
  <2>1. /\ name # "}" /\ name # "{" /\ name # "(" /\ name # "@" /\ name # ":" /\ name # "..."
    BY NotPunctuation
  <2>2. InSet(r, name) = Begin(r, name)
    BY <2>1 DEF InSet
  <2>3. Begin(r, name) = At(c, set, Field(Absent, name, <<>>, <<>>, <<>>), "selection")
    BY <2>1, <1>2, <1>3, <1>4 DEF Begin, Continue, At, Absent
  <2> QED BY <2>2, <2>3, <1>5
<1> QED BY <1>6, <1>7 DEF r, set, Absent

\* The selection set of a selection, if it has one.
LEMMA InnerSetRead ==
  ASSUME NEW c, NEW s, NEW sel, NEW m \in {"spread", "selection"}, NEW text, NEW set,
         SetReads(text, set)
  PROVE  Reads(text, At(c, s, sel, m), At(c, s, [sel EXCEPT !.set = set], "selection"))
<1> DEFINE d == At(c, s, sel, m)
<1>1. /\ IsReader(d) /\ d.mode = m /\ d.at = Frame(s, sel, c.at)
      /\ d.doc = c.doc /\ d.words = c.words /\ d.variables = c.variables
  BY AtIs
<1>2. /\ d.at.set = s /\ d.at.sel = sel /\ d.at.around = c.at /\ d.at # NoFrame
  BY <1>1, FrameIs
<1> HIDE DEF d
<1>3. Reads(text, d, SetRead(d, set))
  BY <1>1 DEF SetReads, Opens
<1>4. SetRead(d, set) = At(c, s, [sel EXCEPT !.set = set], "selection")
  BY <1>1, <1>2 DEF SetRead, At
<1> QED BY <1>3, <1>4 DEF d

\* A field's alias and name, and a field.
LEMMA AliasRead ==
  ASSUME NEW c, NEW s, NEW l, NEW m \in {"set", "selection"}, NEW sel,
         sel.alias \in Names, sel.name \in Names
  PROVE  Reads(On(PrintAlias(sel), <<sel.name>>), At(c, s, l, m),
               At(c, Done(s, l, m), Field(sel.alias, sel.name, <<>>, <<>>, <<>>), "selection"))
<1> DEFINE alias == sel.alias
           name == sel.name
           r == At(c, s, l, m)
           set == Done(s, l, m)
<1>1. alias \in Tokens /\ name \in Tokens /\ ":" \in Tokens
  BY DEF Tokens, Punctuators
<1>2. CASE alias = Absent
  <2>1. PrintAlias(sel) = <<>>
    BY <1>2 DEF PrintAlias, Absent
  <2>2. Reads(<<>>, r, r)
    BY ReadsNothing
  <2>3. Take(r, name) = At(c, set, Field(Absent, name, <<>>, <<>>, <<>>), "selection")
    BY Begins
  <2> HIDE DEF r, set, name
  <2>4. Reads(<<name>>, r, At(c, set, Field(Absent, name, <<>>, <<>>, <<>>), "selection"))
    BY <1>1, <2>3, ReadsToken
  <2>5. Reads(On(<<>>, <<name>>), r, At(c, set, Field(Absent, name, <<>>, <<>>, <<>>), "selection"))
    BY <2>2, <2>4, ReadsOn
  <2> QED BY <2>1, <2>5, <1>2 DEF r, set, name
<1>3. CASE alias # Absent
  <2> DEFINE first == Field(Absent, alias, <<>>, <<>>, <<>>)
             new == Field(alias, name, <<>>, <<>>, <<>>)
             before == At(c, set, first, "selection")
             d == At(c, set, first, "name")
  <2>1. PrintAlias(sel) = <<alias, ":">>
    BY <1>3 DEF PrintAlias, Absent
  <2>2. Take(r, alias) = before
    BY Begins
  <2>3. Take(before, ":") = d
    <3>1. before.mode = "selection"
      <4> HIDE DEF first, set
      <4> QED BY AtIs
    <3>2. Take(before, ":") = Continue(before, before.at, "name")
      <4> HIDE DEF before
      <4> QED BY <3>1 DEF Take, InSet
    <3> HIDE DEF first, set
    <3> QED BY <3>2, ContinueIs
  <2>4. Take(d, name) = At(c, set, new, "selection")
    <3>1. d.mode = "name" /\ d.at.sel = first
      <4> HIDE DEF first, set
      <4> QED BY AtIs, FrameIs
    <3>2. first.name = alias
      BY DEF Field
    <3> HIDE DEF first, new
    <3>3. Take(d, name) = Selecting(d, new, "selection")
      <4> HIDE DEF d, alias, name
      <4> QED BY <3>1, <3>2 DEF Take, InName, new
    <3> HIDE DEF set, name
    <3> QED BY <3>3, ContinueIs
  <2> HIDE DEF r, set, name, alias, first, new, d, before
  <2>5. Reads(<<alias, ":">>, r, d)
    BY <1>1, <2>2, <2>3, ReadsTwo
  <2>6. Reads(<<name>>, d, At(c, set, new, "selection"))
    BY <1>1, <2>4, ReadsToken
  <2>7. Reads(On(<<alias, ":">>, <<name>>), r, At(c, set, new, "selection"))
    BY <2>5, <2>6, ReadsOn
  <2> QED BY <2>1, <2>7 DEF r, set, name, new, alias
<1> QED BY <1>2, <1>3

LEMMA FieldRead ==
  ASSUME NEW inner, NEW inside, \A set \in inner : SetReads(inside[set], set),
         NEW sel \in FieldsOver(inner),
         NEW c, NEW s, NEW l, NEW m \in {"set", "selection"}
  PROVE  Reads(PrintSelection(sel, inside), At(c, s, l, m), At(c, Done(s, l, m), sel, "selection"))
<1> DEFINE alias == sel.alias
           name == sel.name
           args == sel.args
           ds == sel.directives
           set == sel.set
           text == IF set = <<>> THEN <<>> ELSE inside[set]
           before == Done(s, l, m)
           one == Field(alias, name, <<>>, <<>>, <<>>)
           two == Field(alias, name, args, <<>>, <<>>)
           three == Field(alias, name, args, ds, <<>>)
           r == At(c, s, l, m)
           state(x) == At(c, before, x, "selection")
<1>1. /\ IsField(sel) /\ ~IsSpread(sel) /\ set \in inner /\ sel = Field(alias, name, args, ds, set)
      /\ alias \in Names /\ name \in Names
      /\ args \in Seq(Arguments) /\ ds \in Seq(Directives)
  BY FieldIs
<1>2. PrintSelection(sel, inside)
        = On(On(On(On(PrintAlias(sel), <<name>>), PrintArguments(args)), PrintDirectives(ds)), text)
  BY <1>1 DEF PrintSelection, On
<1>3. Reads(On(PrintAlias(sel), <<name>>), r, state(one))
  BY <1>1, AliasRead
<1>4. Reads(PrintArguments(args), state(one), state(two))
  <2>1. (IF args = <<>> THEN one ELSE WithArguments(one, args)) = two
    BY DEF WithArguments, Field
  <2> HIDE DEF one, two, args, before
  <2> QED BY <2>1, <1>1, ArgumentsRead
<1>5. Reads(PrintDirectives(ds), state(two), state(three))
  <2>1. IsSelection(two) /\ two.directives = <<>>
    BY DEF IsSelection, Field
  <2>2. WithDirectives(two, ds) = three
    BY DEF WithDirectives, Field
  <2> HIDE DEF two, three, ds, before
  <2>3. "selection" \in {"spread", "selection"}
    OBVIOUS
  <2>4. Reads(PrintDirectives(ds), state(two),
              At(c, before, WithDirectives(two, ds), IF ds = <<>> THEN "selection" ELSE "selection"))
    BY <2>1, <2>3, <1>1, DirectivesRead
  <2> QED BY <2>2, <2>4
<1>6. Reads(text, state(three), state(sel))
  <2>1. CASE set = <<>>
    <3>1. sel = three
      BY <1>1, <2>1
    <3> HIDE DEF three, state
    <3> QED BY <2>1, <3>1, ReadsNothing
  <2>2. CASE set # <<>>
    <3>1. [three EXCEPT !.set = set] = sel
      <4>1. [three EXCEPT !.set = set] = Field(alias, name, args, ds, set)
        BY DEF Field
      <4> QED BY <4>1, <1>1
    <3>2. SetReads(inside[set], set)
      BY <1>1
    <3> HIDE DEF three, before, set
    <3>3. Reads(inside[set], At(c, before, three, "selection"),
                At(c, before, [three EXCEPT !.set = set], "selection"))
      BY <3>2, InnerSetRead
    <3> QED BY <3>1, <3>3, <2>2
  <2> QED BY <2>1, <2>2
<1> DEFINE p == On(PrintAlias(sel), <<name>>)
           q == PrintArguments(args)
           t == PrintDirectives(ds)
<1> HIDE DEF p, q, t, text, r, state
<1>7. Reads(On(p, q), r, state(two))
  BY <1>3, <1>4, ReadsOn DEF p, q
<1>8. Reads(On(On(p, q), t), r, state(three))
  BY <1>5, <1>7, ReadsOn DEF t
<1>9. Reads(On(On(On(p, q), t), text), r, state(sel))
  BY <1>6, <1>8, ReadsOn
<1> QED BY <1>2, <1>9 DEF p, q, t, r, state

\* A spread is read as such: no fragment is called "on".
LEMMA SpreadRead ==
  ASSUME NEW inside, NEW sel \in Spreads,
         NEW c, NEW s, NEW l, NEW m \in {"set", "selection"}
  PROVE  Reads(PrintSelection(sel, inside), At(c, s, l, m), At(c, Done(s, l, m), sel, "selection"))
<1> DEFINE name == sel.spread
           ds == sel.directives
           before == Done(s, l, m)
           one == Spread(name, <<>>)
           r == At(c, s, l, m)
           d == At(c, before, NoSelection, "spread")
           state(x) == At(c, before, x, "selection")
<1>1. /\ IsSpread(sel) /\ sel = Spread(name, ds)
      /\ name \in Names \ {"on"} /\ ds \in Seq(Directives)
  BY SpreadIs
<1>2. PrintSelection(sel, inside) = On(<<"...", name>>, PrintDirectives(ds))
  BY <1>1 DEF PrintSelection, On
<1>3. Take(r, "...") = d
  BY Begins
<1>4. Take(d, name) = state(one)
  <2>1. d.mode = "spread"
    BY AtIs
  <2>2. name # "on" /\ name # "@" /\ name # "{"
    BY <1>1, NotPunctuation
  <2>3. Take(d, name) = Selecting(d, one, "selection")
    <3> HIDE DEF d, name
    <3> QED BY <2>1, <2>2 DEF Take, InSpread
  <2> HIDE DEF one, before, name
  <2> QED BY <2>3, ContinueIs
<1>5. Reads(<<"...", name>>, r, state(one))
  <2>1. "..." \in Tokens /\ name \in Tokens
    BY <1>1 DEF Tokens, Punctuators
  <2> HIDE DEF r, d, name, state
  <2> QED BY <2>1, <1>3, <1>4, ReadsTwo
<1>6. Reads(PrintDirectives(ds), state(one), state(sel))
  <2>1. IsSelection(one) /\ one.directives = <<>>
    BY DEF IsSelection, Spread
  <2>2. WithDirectives(one, ds) = sel
    <3>1. WithDirectives(one, ds) = Spread(name, ds)
      BY DEF WithDirectives, Spread
    <3> QED BY <3>1, <1>1
  <2> HIDE DEF one, ds, before
  <2>3. "selection" \in {"spread", "selection"}
    OBVIOUS
  <2>4. Reads(PrintDirectives(ds), state(one),
              At(c, before, WithDirectives(one, ds), IF ds = <<>> THEN "selection" ELSE "selection"))
    BY <2>1, <2>3, <1>1, DirectivesRead
  <2> QED BY <2>2, <2>4
<1> DEFINE p == <<"...", name>>
           q == PrintDirectives(ds)
<1> HIDE DEF p, q, r, state
<1>7. Reads(On(p, q), r, state(sel))
  BY <1>5, <1>6, ReadsOn DEF p, q
<1> QED BY <1>2, <1>7 DEF p, q, r, state

\* An inline fragment's condition, and an inline fragment.
LEMMA ConditionRead ==
  ASSUME NEW sel, sel.on \in Names, NEW c, NEW s, NEW l, NEW m \in {"set", "selection"}
  PROVE  \E k \in {"spread", "selection"} :
           Reads(On(<<"...">>, PrintCondition(sel)), At(c, s, l, m),
                 At(c, Done(s, l, m), Inline(sel.on, <<>>, <<>>), k))
<1> DEFINE on == sel.on
           set == Done(s, l, m)
           one == Inline(on, <<>>, <<>>)
           r == At(c, s, l, m)
           d == At(c, set, NoSelection, "spread")
<1>1. Reads(<<"...">>, r, d)
  <2>1. Take(r, "...") = d
    BY Begins
  <2>2. "..." \in Tokens
    BY DEF Tokens, Punctuators
  <2> HIDE DEF r, d
  <2> QED BY <2>1, <2>2, ReadsToken
<1>2. CASE on = Absent
  <2>1. PrintCondition(sel) = <<>>
    BY <1>2 DEF PrintCondition, Absent
  <2>2. one = NoSelection
    BY <1>2 DEF NoSelection, Absent
  <2> HIDE DEF r, d, one
  <2>3. Reads(<<>>, d, d)
    BY ReadsNothing
  <2>4. Reads(On(<<"...">>, <<>>), r, d)
    BY <1>1, <2>3, ReadsOn
  <2>5. Reads(On(<<"...">>, PrintCondition(sel)), r, At(c, set, one, "spread"))
    BY <2>1, <2>2, <2>4 DEF d
  <2> HIDE DEF set
  <2> QED BY <2>5 DEF one, set, r
<1>3. CASE on # Absent
  <2> DEFINE e == At(c, set, NoSelection, "condition")
             f == At(c, set, one, "selection")
  <2>1. PrintCondition(sel) = <<"on", on>>
    BY <1>3 DEF PrintCondition, Absent
  <2>2. Take(d, "on") = e
    <3>1. d.mode = "spread"
      BY AtIs
    <3>2. Take(d, "on") = Continue(d, d.at, "condition")
      <4> HIDE DEF d
      <4> QED BY <3>1 DEF Take, InSpread
    <3> HIDE DEF set
    <3> QED BY <3>2, ContinueIs
  <2>3. Take(e, on) = f
    <3>1. e.mode = "condition"
      BY AtIs
    <3>2. Take(e, on) = Selecting(e, one, "selection")
      <4> HIDE DEF e, on
      <4> QED BY <3>1 DEF Take, InCondition
    <3> HIDE DEF one, set
    <3> QED BY <3>2, ContinueIs
  <2>4. "on" \in Tokens /\ on \in Tokens
    BY DEF Tokens
  <2> HIDE DEF r, d, e, f, on
  <2>5. Reads(<<"on", on>>, d, f)
    BY <2>2, <2>3, <2>4, ReadsTwo
  <2>6. Reads(On(<<"...">>, <<"on", on>>), r, f)
    BY <1>1, <2>5, ReadsOn
  <2>7. Reads(On(<<"...">>, PrintCondition(sel)), r, f)
    BY <2>1, <2>6
  <2> HIDE DEF set, one
  <2> QED BY <2>7 DEF one, set, r, f, on
<1> QED BY <1>2, <1>3

LEMMA InlineRead ==
  ASSUME NEW inner, NEW inside, \A set \in inner : SetReads(inside[set], set),
         NEW sel \in InlinesOver(inner),
         NEW c, NEW s, NEW l, NEW m \in {"set", "selection"}
  PROVE  Reads(PrintSelection(sel, inside), At(c, s, l, m), At(c, Done(s, l, m), sel, "selection"))
<1> DEFINE on == sel.on
           ds == sel.directives
           set == sel.set
           text == inside[set]
           before == Done(s, l, m)
           one == Inline(on, <<>>, <<>>)
           two == Inline(on, ds, <<>>)
           r == At(c, s, l, m)
           p == On(<<"...">>, PrintCondition(sel))
           q == PrintDirectives(ds)
<1>1. /\ ~IsField(sel) /\ ~IsSpread(sel) /\ set \in inner /\ set # <<>>
      /\ sel = Inline(on, ds, set) /\ on \in Names /\ ds \in Seq(Directives)
  BY InlineIs
<1>2. PrintSelection(sel, inside) = On(On(p, q), text)
  BY <1>1 DEF PrintSelection, On
<1>3. PICK k \in {"spread", "selection"} : Reads(p, r, At(c, before, one, k))
  BY <1>1, ConditionRead
<1> DEFINE next == IF ds = <<>> THEN k ELSE "selection"
<1>4. Reads(q, At(c, before, one, k), At(c, before, two, next))
  <2>1. IsSelection(one) /\ one.directives = <<>>
    BY DEF IsSelection, Inline
  <2>2. WithDirectives(one, ds) = two
    BY DEF WithDirectives, Inline
  <2> HIDE DEF one, two, ds, before
  <2>3. Reads(PrintDirectives(ds), At(c, before, one, k),
              At(c, before, WithDirectives(one, ds), IF ds = <<>> THEN k ELSE "selection"))
    BY <2>1, <1>1, DirectivesRead
  <2> QED BY <2>2, <2>3
<1>5. Reads(text, At(c, before, two, next), At(c, before, sel, "selection"))
  <2>1. [two EXCEPT !.set = set] = sel
    <3>1. [two EXCEPT !.set = set] = Inline(on, ds, set)
      BY DEF Inline
    <3> QED BY <3>1, <1>1
  <2>2. SetReads(inside[set], set)
    BY <1>1
  <2>3. next \in {"spread", "selection"}
    OBVIOUS
  <2> HIDE DEF two, before, set, next
  <2>4. Reads(inside[set], At(c, before, two, next),
              At(c, before, [two EXCEPT !.set = set], "selection"))
    BY <2>2, <2>3, InnerSetRead
  <2> QED BY <2>1, <2>4
<1> HIDE DEF p, q, text, r, one, two, next, before
<1>6. Reads(On(p, q), r, At(c, before, two, next))
  BY <1>3, <1>4, ReadsOn
<1>7. Reads(On(On(p, q), text), r, At(c, before, sel, "selection"))
  BY <1>5, <1>6, ReadsOn
<1> QED BY <1>2, <1>7 DEF r, before

\* Any selection, wherever it stands in its set.
LEMMA SelectionRead ==
  ASSUME NEW inner, NEW inside, \A set \in inner : SetReads(inside[set], set),
         NEW sel \in SelectionsOver(inner),
         NEW c, NEW s, NEW l, NEW m \in {"set", "selection"}
  PROVE  Reads(PrintSelection(sel, inside), At(c, s, l, m), At(c, Done(s, l, m), sel, "selection"))
<1>1. CASE sel \in FieldsOver(inner)
  BY <1>1, FieldRead
<1>2. CASE sel \in Spreads
  BY <1>2, SpreadRead
<1>3. CASE sel \in InlinesOver(inner)
  BY <1>3, InlineRead
<1> QED BY <1>1, <1>2, <1>3 DEF SelectionsOver

-----------------------------------------------------------------------------
(* Selection sets *)

PrintSet(set, inside) ==
  On(On(<<"{">>, FlattenSeq([i \in DOMAIN set |-> PrintSelection(set[i], inside)])), <<"}">>)

\* A set is read if those inside it are.
LEMMA SetIsRead ==
  ASSUME NEW inner, NEW inside, \A set \in inner : SetReads(inside[set], set),
         NEW set \in Seq(SelectionsOver(inner))
  PROVE  SetReads(PrintSet(set, inside), set)
<1> SUFFICES ASSUME NEW c, Opens(c) PROVE Reads(PrintSet(set, inside), c, SetRead(c, set))
  BY DEF SetReads
<1> DEFINE n == Len(set)
           piece(i) == PrintSelection(set[i], inside)
           pieces == [i \in DOMAIN set |-> piece(i)]
           state(i) == IF i = 0 THEN At(c, <<>>, NoSelection, "set")
                       ELSE At(c, SubSeq(set, 1, i - 1), set[i], "selection")
           states == [i \in 0..n |-> state(i)]
<1>1. n \in Nat /\ DOMAIN set = 1..n /\ \A i \in 1..n : set[i] \in SelectionsOver(inner)
  <2> DEFINE S == SelectionsOver(inner)
  <2>1. set \in Seq(S)
    OBVIOUS
  <2> HIDE DEF S
  <2>2. n \in Nat /\ DOMAIN set = 1..n /\ \A i \in 1..n : set[i] \in S
    BY <2>1
  <2> QED BY <2>2 DEF S
<1>2. /\ SubSeq(set, 1, 0) = <<>> /\ SubSeq(set, 1, n) = set
      /\ \A i \in 1..n : Append(SubSeq(set, 1, i - 1), set[i]) = SubSeq(set, 1, i)
  BY Beginning
<1>3. ASSUME NEW i \in 1..n PROVE Reads(piece(i), state(i - 1), state(i))
  <2> DEFINE sel == set[i]
             before == SubSeq(set, 1, i - 1)
  <2>1. state(i) = At(c, before, sel, "selection")
    OBVIOUS
  <2>2. sel \in SelectionsOver(inner)
    BY <1>1
  <2>3. CASE i = 1
    <3>1. before = <<>> /\ state(i - 1) = At(c, <<>>, NoSelection, "set")
      BY <2>3, <1>2
    <3>2. Done(<<>>, NoSelection, "set") = <<>>
      BY DEF Done
    <3> HIDE DEF before, sel, state
    <3>3. Reads(PrintSelection(sel, inside), At(c, <<>>, NoSelection, "set"),
                At(c, Done(<<>>, NoSelection, "set"), sel, "selection"))
      <4>1. "set" \in {"set", "selection"}
        OBVIOUS
      <4> QED BY <4>1, <2>2, SelectionRead
    <3> QED BY <3>1, <3>2, <3>3, <2>1 DEF sel
  <2>4. CASE i # 1
    <3> DEFINE s == SubSeq(set, 1, (i - 1) - 1)
               l == set[i - 1]
    <3>1. i - 1 \in 1..n /\ i - 1 # 0
      BY <2>4, <1>1
    <3>2. state(i - 1) = At(c, s, l, "selection")
      BY <3>1
    <3>3. Done(s, l, "selection") = before
      <4>1. Append(s, l) = before
        BY <3>1, <1>2
      <4> HIDE DEF s, l, before
      <4> QED BY <4>1 DEF Done
    <3> HIDE DEF before, sel, state, s, l
    <3>4. Reads(PrintSelection(sel, inside), At(c, s, l, "selection"),
                At(c, Done(s, l, "selection"), sel, "selection"))
      <4>1. "selection" \in {"set", "selection"}
        OBVIOUS
      <4> QED BY <4>1, <2>2, SelectionRead
    <3> QED BY <3>2, <3>3, <3>4, <2>1 DEF sel
  <2> QED BY <2>3, <2>4
<1>4. pieces \in Seq(Seq(Tokens)) /\ Len(pieces) = n
  <2>1. \A i \in 1..n : piece(i) \in Seq(Tokens)
    <3> HIDE DEF piece, state
    <3> QED BY <1>3 DEF Reads
  <2> HIDE DEF piece
  <2>2. DOMAIN pieces = 1..n /\ pieces = [i \in 1..n |-> pieces[i]]
    BY <1>1
  <2>3. \A i \in 1..n : pieces[i] \in Seq(Tokens)
    BY <1>1, <2>1
  <2> HIDE DEF pieces, n
  <2> QED BY <2>2, <2>3, <1>1, MappedSeq
<1>5. \A i \in 1..Len(pieces) : Reads(pieces[i], states[i - 1], states[i])
  <2> SUFFICES ASSUME NEW i \in 1..n PROVE Reads(pieces[i], states[i - 1], states[i])
    BY <1>4
  <2>1. pieces[i] = piece(i) /\ states[i - 1] = state(i - 1) /\ states[i] = state(i)
    <3> HIDE DEF piece, state
    <3> QED BY <1>1
  <2> HIDE DEF piece, state, pieces, states
  <2> QED BY <2>1, <1>3
<1>6. states[0] = state(0) /\ states[n] = state(n)
  <2> HIDE DEF state
  <2> QED BY <1>1
<1>7. Reads(FlattenSeq(pieces), state(0), state(n))
  <2> HIDE DEF pieces, states, state
  <2>1. Reads(FlattenSeq(pieces), states[0], states[Len(pieces)])
    BY <1>4, <1>5, ReadsAll
  <2> QED BY <2>1, <1>4, <1>6
<1>8. Take(c, "{") = state(0)
  BY SetOpens
<1>9. Take(state(n), "}") = SetRead(c, set)
  <2>1. CASE n = 0
    <3>1. state(n) = At(c, <<>>, NoSelection, "set") /\ set = <<>>
      BY <2>1
    <3>2. Done(<<>>, NoSelection, "set") = <<>>
      BY DEF Done
    <3> HIDE DEF state
    <3> QED BY <3>1, <3>2, SetCloses
  <2>2. CASE n # 0
    <3> DEFINE s == SubSeq(set, 1, n - 1)
               l == set[n]
    <3>1. state(n) = At(c, s, l, "selection")
      BY <2>2
    <3>2. Done(s, l, "selection") = set
      <4>1. Append(s, l) = set
        BY <2>2, <1>1, <1>2
      <4> HIDE DEF s, l
      <4> QED BY <4>1 DEF Done
    <3> HIDE DEF state, s, l
    <3>3. Take(At(c, s, l, "selection"), "}") = SetRead(c, Done(s, l, "selection"))
      BY SetCloses
    <3> QED BY <3>1, <3>2, <3>3
  <2> QED BY <2>1, <2>2
<1> DEFINE inmost == FlattenSeq(pieces)
<1>10. PrintSet(set, inside) = On(On(<<"{">>, inmost), <<"}">>)
  BY DEF PrintSet
<1>11. "{" \in Tokens /\ "}" \in Tokens
  BY DEF Tokens, Punctuators
<1> HIDE DEF state, inmost
<1>12. Reads(<<"{">>, c, state(0)) /\ Reads(<<"}">>, state(n), SetRead(c, set))
  BY <1>8, <1>9, <1>11, ReadsToken
<1>13. Reads(On(<<"{">>, inmost), c, state(n))
  BY <1>7, <1>12, ReadsOn DEF inmost
<1>14. Reads(On(On(<<"{">>, inmost), <<"}">>), c, SetRead(c, set))
  BY <1>12, <1>13, ReadsOn
<1> QED BY <1>10, <1>14

\* What the recursion of Print is, and that the sets of every depth are read.
LEMMA PrintNothing ==
  ASSUME NEW inside
  PROVE  PrintSet(<<>>, inside) = On(<<"{">>, <<"}">>)
<1> DEFINE pieces == [i \in DOMAIN <<>> |-> PrintSelection((<<>>)[i], inside)]
<1>1. pieces = <<>>
  OBVIOUS
<1>2. FlattenSeq(pieces) = <<>>
  BY <1>1 DEF FlattenSeq
<1>3. On(<<"{">>, <<>>) = <<"{">>
  <2> DEFINE p == <<"{">>
  <2>1. p \in Seq({"{"})
    OBVIOUS
  <2> HIDE DEF p
  <2>2. On(p, <<>>) = p
    BY <2>1, OnNothing
  <2> QED BY <2>2 DEF p
<1> HIDE DEF pieces
<1>4. PrintSet(<<>>, inside) = On(On(<<"{">>, FlattenSeq(pieces)), <<"}">>)
  BY DEF PrintSet, pieces
<1> QED BY <1>2, <1>3, <1>4

LEMMA PrintLoop ==
  ASSUME NEW depth \in 0..MaxDepth, NEW set \in SetsUpTo[depth]
  PROVE  PrintUpTo[depth][set] = PrintSet(set, PrintUpTo[depth - 1])
<1> DEFINE Level(d, inside) == [s \in SetsUpTo[d] |-> PrintSet(s, inside)]
           Is(f, n) == f = [d \in 0..n |-> Level(d, f[d - 1])]
           S == {n \in 0..MaxDepth : \E f : Is(f, n)}
<1>0. MaxDepth \in Nat
  BY DepthAssumption
<1>1. \A x, y : Level(0, x) = Level(0, y)
  <2> SUFFICES ASSUME NEW x, NEW y PROVE Level(0, x) = Level(0, y)
    OBVIOUS
  <2>1. \A s \in SetsUpTo[0] : PrintSet(s, x) = PrintSet(s, y)
    BY SetsLoop, PrintNothing
  <2> QED BY <2>1
<1> HIDE DEF Level
<1>2. 0 \in S
  <2> DEFINE f == [d \in 0..0 |-> Level(0, 0)]
  <2>1. f = [d \in 0..0 |-> Level(d, f[d - 1])]
    <3>1. \A d \in 0..0 : Level(0, 0) = Level(d, f[d - 1])
      BY <1>1
    <3> QED BY <3>1
  <2> HIDE DEF f
  <2>2. Is(f, 0)
    BY <2>1
  <2> HIDE DEF Is
  <2> QED BY <2>2, <1>0
<1>3. ASSUME NEW n \in 1..MaxDepth, n - 1 \in S PROVE n \in S
  <2>1. PICK f : Is(f, n - 1)
    BY <1>3
  <2> DEFINE g == [d \in 0..n |-> IF d = n THEN Level(n, f[n - 1]) ELSE f[d]]
  <2>2. ASSUME NEW d \in 0..n PROVE g[d] = Level(d, g[d - 1])
    <3>1. CASE d = n
      <4>1. g[d] = Level(n, f[n - 1]) /\ g[d - 1] = f[n - 1]
        BY <3>1, <1>0
      <4> QED BY <3>1, <4>1
    <3>2. CASE d = 0
      <4>1. g[d] = f[d] /\ d \in 0..(n - 1)
        BY <3>2, <1>0
      <4>2. f[d] = Level(d, f[d - 1])
        BY <4>1, <2>1
      <4> QED BY <3>2, <4>1, <4>2, <1>1
    <3>3. CASE d # n /\ d # 0
      <4>1. d \in 0..(n - 1) /\ g[d] = f[d] /\ g[d - 1] = f[d - 1]
        BY <3>3, <1>0
      <4>2. f[d] = Level(d, f[d - 1])
        BY <4>1, <2>1
      <4> QED BY <4>1, <4>2
    <3> QED BY <3>1, <3>2, <3>3
  <2>3. Is(g, n)
    <3>1. g = [d \in 0..n |-> g[d]]
      OBVIOUS
    <3> HIDE DEF g
    <3> QED BY <2>2, <3>1
  <2> HIDE DEF Is, g
  <2> QED BY <2>3
<1>4. MaxDepth \in S
  <2>1. MaxDepth \in 0..MaxDepth
    BY <1>0
  <2> HIDE DEF S
  <2> QED BY <2>1, <1>0, <1>2, <1>3, UpTo
<1>5. PrintUpTo = CHOOSE f : Is(f, MaxDepth)
  BY DEF PrintUpTo, Level, PrintSet, On
<1>6. Is(PrintUpTo, MaxDepth)
  <2> HIDE DEF Is
  <2> QED BY <1>4, <1>5
<1>7. PrintUpTo[depth] = Level(depth, PrintUpTo[depth - 1])
  BY <1>6
<1> QED BY <1>7 DEF Level

LEMMA SetsAreRead ==
  ASSUME NEW depth \in 0..MaxDepth, NEW set \in SetsUpTo[depth]
  PROVE  SetReads(PrintUpTo[depth][set], set)
<1> DEFINE S == {d \in 0..MaxDepth : \A s \in SetsUpTo[d] : SetReads(PrintUpTo[d][s], s)}
<1>0. MaxDepth \in Nat
  BY DepthAssumption
<1>1. 0 \in S
  <2> SUFFICES ASSUME NEW s \in SetsUpTo[0] PROVE SetReads(PrintUpTo[0][s], s)
    BY <1>0
  <2> DEFINE inside == PrintUpTo[0 - 1]
             none == SelectionsOver({})
  <2>1. s = <<>>
    BY SetsLoop
  <2> HIDE DEF inside, none
  <2>2. s \in Seq(none)
    BY <2>1
  <2>3. SetReads(PrintSet(s, inside), s)
    BY <2>2, SetIsRead DEF none
  <2>4. PrintUpTo[0][s] = PrintSet(s, inside)
    BY <1>0, PrintLoop DEF inside
  <2> QED BY <2>3, <2>4
<1>2. ASSUME NEW d \in 1..MaxDepth, d - 1 \in S PROVE d \in S
  <2> SUFFICES ASSUME NEW s \in SetsUpTo[d] PROVE SetReads(PrintUpTo[d][s], s)
    BY <1>0
  <2> DEFINE inner == SetsUpTo[d - 1]
             inside == PrintUpTo[d - 1]
  <2>1. \A t \in inner : SetReads(inside[t], t)
    BY <1>2
  <2>2. s \in Seq(SelectionsOver(inner))
    BY SetsLoop
  <2>3. PrintUpTo[d][s] = PrintSet(s, inside)
    <3>1. d \in 0..MaxDepth
      BY <1>0
    <3> QED BY <3>1, PrintLoop
  <2> HIDE DEF inner, inside
  <2>4. SetReads(PrintSet(s, inside), s)
    BY <2>1, <2>2, SetIsRead
  <2> QED BY <2>3, <2>4
<1>3. 0..MaxDepth \subseteq S
  <2> HIDE DEF S
  <2> QED BY <1>0, <1>1, <1>2, UpTo
<1>4. depth \in S
  BY <1>3
<1> QED BY <1>4

-----------------------------------------------------------------------------
(* Definitions *)

\* A reader between the words of definitions.
Defined(doc, words, variables) == Reader(doc, words, variables, NoFrame, NoList, "definition")

\* Between two definitions, and in one's first words.
LEMMA DefinedIs ==
  ASSUME NEW doc, NEW words, NEW variables
  PROVE  /\ Opens(Defined(doc, words, variables)) /\ IsReader(Defined(doc, words, variables))
         /\ Defined(doc, words, variables).doc = doc
         /\ Defined(doc, words, variables).words = words
         /\ Defined(doc, words, variables).variables = variables
         /\ Defined(doc, words, variables).at = NoFrame
         /\ Defined(doc, words, variables).list = NoList
         /\ Defined(doc, words, variables).mode = "definition"
BY DEF Opens, IsReader, Defined, Reader

LEMMA WordTaken ==
  ASSUME NEW doc, NEW words, NEW variables,
         NEW token \in Names \cup OperationTypes \cup {"fragment", "on"}
  PROVE  Take(Defined(doc, words, variables), token) = Defined(doc, Append(words, token), variables)
<1> DEFINE r == Defined(doc, words, variables)
<1>1. /\ r.doc = doc /\ r.words = words /\ r.variables = variables
      /\ r.at = NoFrame /\ r.list = NoList /\ r.mode = "definition"
  BY DefinedIs
<1> HIDE DEF r
<1>2. token # "{" /\ token # "("
  BY NotPunctuation
<1>3. Take(r, token) = InDefinition(r, token)
  BY <1>1 DEF Take
<1>4. InDefinition(r, token) = Reader(doc, Append(words, token), variables, NoFrame, NoList, "definition")
  BY <1>1, <1>2 DEF InDefinition
<1> QED BY <1>3, <1>4 DEF r, Defined

LEMMA WordRead ==
  ASSUME NEW doc, NEW words, NEW variables,
         NEW token \in Names \cup OperationTypes \cup {"fragment", "on"}
  PROVE  Reads(<<token>>, Defined(doc, words, variables), Defined(doc, Append(words, token), variables))
<1>1. token \in Tokens
  BY DEF Tokens
<1> QED BY <1>1, WordTaken, ReadsToken

\* The set that ends a definition.
LEMMA SetDefines ==
  ASSUME NEW doc, NEW words, NEW variables, NEW set \in SelectionSets
  PROVE  Reads(PrintSelectionSet(set), Defined(doc, words, variables),
               Defined(Define(doc, words, variables, set), <<>>, <<>>))
<1> DEFINE r == Defined(doc, words, variables)
<1>1. /\ r.doc = doc /\ r.words = words /\ r.variables = variables
      /\ r.at = NoFrame /\ Opens(r)
  BY DefinedIs
<1>2. SetReads(PrintUpTo[MaxDepth][set], set)
  BY SetsAreRead, DepthAssumption DEF SelectionSets
<1> HIDE DEF r
<1>3. Reads(PrintSelectionSet(set), r, SetRead(r, set))
  BY <1>1, <1>2 DEF PrintSelectionSet, SetReads
<1>4. SetRead(r, set) = Defined(Define(doc, words, variables, set), <<>>, <<>>)
  BY <1>1 DEF SetRead, Defined
<1> QED BY <1>3, <1>4 DEF r

DefaultOf(v) == IF v.default = Absent THEN <<>> ELSE <<"=", v.default>>
VariablePart(v) == On(<<v.name, ":", v.type>>, DefaultOf(v))

\* A variable's part of the list, and the variables.
LEMMA VariablePartIs ==
  ASSUME NEW v \in Variables
  PROVE  VariablePart(v) \in Seq(Words) /\ ReadVariable(VariablePart(v)) = v
<1> DEFINE front == <<v.name, ":", v.type>>
           back == DefaultOf(v)
           part == On(front, back)
<1>1. /\ v.name \in Words /\ v.type \in Words /\ v.default \in Words
      /\ ":" \in Words /\ "=" \in Words
  BY DEF Variables, Words
<1>2. /\ front \in Seq(Words) /\ Len(front) = 3 /\ front[1] = v.name /\ front[3] = v.type
  BY <1>1
<1>3. v = Variable(v.name, v.type, v.default)
  BY DEF Variables, Variable
<1>4. part = VariablePart(v)
  BY DEF VariablePart
<1>5. CASE v.default = Absent
  <2>1. back = <<>>
    BY <1>5 DEF DefaultOf
  <2> HIDE DEF front
  <2>2. part = front
    BY <2>1, <1>2, OnNothing
  <2>3. ReadVariable(front) = Variable(v.name, v.type, Absent)
    BY <1>2 DEF ReadVariable, Absent
  <2> HIDE DEF part
  <2> QED BY <2>2, <2>3, <1>2, <1>3, <1>4, <1>5
<1>6. CASE v.default # Absent
  <2>1. back \in Seq(Words) /\ Len(back) = 2 /\ back[2] = v.default
    BY <1>1, <1>6 DEF DefaultOf
  <2> HIDE DEF front, back
  <2>2. part \in Seq(Words) /\ Len(part) = 5
    <3>1. part \in Seq(Words) /\ Len(part) = Len(front) + Len(back)
      BY <1>2, <2>1, OnIs
    <3> HIDE DEF part
    <3> QED BY <3>1, <1>2, <2>1
  <2>3. part[1] = v.name /\ part[3] = v.type
    <3>1. \A i \in 1..Len(front) : part[i] = front[i]
      BY <1>2, <2>1, OnIs
    <3>2. 1 \in 1..Len(front) /\ 3 \in 1..Len(front)
      BY <1>2
    <3> QED BY <3>1, <3>2, <1>2
  <2>4. part[5] = v.default
    <3>1. \A i \in 1..Len(back) : part[Len(front) + i] = back[i]
      <4>1. front \in Seq(Words) /\ back \in Seq(Words)
        BY <1>2, <2>1
      <4> QED BY <4>1 DEF On
    <3>2. 2 \in 1..Len(back) /\ Len(front) + 2 = 5
      BY <1>2, <2>1
    <3> QED BY <3>1, <3>2, <2>1
  <2> HIDE DEF part
  <2>5. ReadVariable(part) = Variable(v.name, v.type, v.default)
    BY <2>2, <2>3, <2>4 DEF ReadVariable
  <2> QED BY <2>2, <2>5, <1>3, <1>4
<1> QED BY <1>5, <1>6

LEMMA VariablesRead ==
  ASSUME NEW doc, NEW words, NEW given \in Seq(Variables)
  PROVE  Reads(PrintVariableDefinitions(given), Defined(doc, words, <<>>), Defined(doc, words, given))
<1> DEFINE n == Len(given)
           part(i) == VariablePart(given[i])
           parts == [i \in DOMAIN given |-> part(i)]
           r == Defined(doc, words, <<>>)
<1>1. n \in Nat /\ DOMAIN given = 1..n /\ \A i \in 1..n : given[i] \in Variables
  OBVIOUS
<1>2. PrintVariableDefinitions(given) = InBrackets(parts)
  BY DEF PrintVariableDefinitions, VariablePart, DefaultOf, On, Absent
<1>3. CASE given = <<>>
  <2>1. parts = <<>>
    BY <1>3
  <2>2. PrintVariableDefinitions(given) = <<>>
    BY <2>1, <1>2 DEF InBrackets
  <2> QED BY <2>2, <1>3, ReadsNothing
<1>4. CASE given # <<>>
  <2> DEFINE d == Reader(doc, words, <<>>, NoFrame, NoList, "variables")
  <2>1. parts \in Seq(Seq(Words)) /\ Len(parts) = n /\ parts # <<>>
    <3>1. \A i \in 1..n : part(i) \in Seq(Words)
      BY <1>1, VariablePartIs
    <3>2. DOMAIN parts = 1..n /\ parts = [i \in 1..n |-> parts[i]] /\ n # 0
      <4> HIDE DEF part
      <4> QED BY <1>1, <1>4
    <3>3. \A i \in 1..n : parts[i] \in Seq(Words)
      <4> HIDE DEF part
      <4> QED BY <3>1, <1>1
    <3> HIDE DEF parts, n
    <3>4. parts \in Seq(Seq(Words)) /\ Len(parts) = n
      BY <1>1, <3>2, <3>3, MappedSeq
    <3>5. Len(<<>>) = 0
      OBVIOUS
    <3> QED BY <3>4, <3>2, <3>5
  <2>2. Take(r, "(") = d
    <3>1. /\ r.doc = doc /\ r.words = words /\ r.variables = <<>>
          /\ r.at = NoFrame /\ r.list = NoList /\ r.mode = "definition"
      BY DefinedIs
    <3> HIDE DEF r
    <3>2. Take(r, "(") = Continue(r, r.at, "variables")
      BY <3>1 DEF Take, InDefinition
    <3> QED BY <3>1, <3>2 DEF Continue
  <2>3. /\ IsReader(d) /\ d.mode = "variables" /\ d.mode \in ListModes
        /\ d.doc = doc /\ d.words = words /\ d.at = NoFrame
    BY DEF ListModes, IsReader, Reader
  <2> DEFINE list == [i \in DOMAIN parts |-> ReadVariable(parts[i])]
  <2>4. list = given
    <3>1. \A i \in 1..n : ReadVariable(part(i)) = given[i]
      BY <1>1, VariablePartIs
    <3>2. given = [i \in 1..n |-> given[i]]
      BY <1>1
    <3>3. DOMAIN parts = 1..n /\ \A i \in 1..n : parts[i] = part(i)
      <4> HIDE DEF part
      <4> QED BY <1>1
    <3> HIDE DEF part, parts
    <3>4. list = [i \in 1..n |-> ReadVariable(part(i))]
      BY <3>3
    <3> HIDE DEF list
    <3> QED BY <3>1, <3>2, <3>4
  <2> HIDE DEF r, d, parts
  <2>5. PICK ps, p : Reads(InBrackets(parts), r, EndList(Listing(d, ps, p), parts))
    BY <2>1, <2>2, <2>3, BracketsRead
  <2>6. EndList(Listing(d, ps, p), parts)
          = Reader(d.doc, d.words, list, d.at, NoList, "definition")
    BY <2>3, EndListIs
  <2>7. EndList(Listing(d, ps, p), parts) = Defined(doc, words, given)
    <3> HIDE DEF list
    <3> QED BY <2>3, <2>4, <2>6 DEF Defined
  <2> QED BY <2>5, <2>7, <1>2 DEF r
<1> QED BY <1>3, <1>4

\* An operation adds an operation.
LEMMA OperationRead ==
  ASSUME NEW doc, NEW op \in Operations
  PROVE  Reads(PrintOperationDefinition(op), Defined(doc, <<>>, <<>>),
               Defined(DefineOperation(doc, op), <<>>, <<>>))
<1> DEFINE type == op.type
           name == op.name
           given == op.variables
           set == op.set
           start == Defined(doc, <<>>, <<>>)
           last == Defined(DefineOperation(doc, op), <<>>, <<>>)
<1>1. /\ op = Operation(type, name, given, set) /\ type \in OperationTypes /\ name \in Names
      /\ given \in Seq(Variables) /\ set \in SelectionSets
  BY DEF Operations, Operation
<1>2. CASE Short(op)
  <2>1. Define(doc, <<>>, <<>>, set) = DefineOperation(doc, op)
    <3>1. Define(doc, <<>>, <<>>, set)
            = DefineOperation(doc, Operation("query", Absent, <<>>, set))
      BY DEF Define, Absent
    <3>2. Operation("query", Absent, <<>>, set) = op
      BY <1>1, <1>2 DEF Short, Absent
    <3> QED BY <3>1, <3>2
  <2>2. PrintOperationDefinition(op) = PrintSelectionSet(set)
    BY <1>2 DEF PrintOperationDefinition
  <2> HIDE DEF set
  <2> QED BY <2>1, <2>2, <1>1, SetDefines
<1>3. CASE ~Short(op)
  <2> DEFINE words == IF name = Absent THEN <<type>> ELSE <<type, name>>
             naming == IF name = Absent THEN <<>> ELSE <<name>>
             p == <<type>>
             q == PrintVariableDefinitions(given)
             t == PrintSelectionSet(set)
             middle(v) == Defined(doc, words, v)
  <2>1. PrintOperationDefinition(op) = On(On(On(p, naming), q), t)
    BY <1>3 DEF PrintOperationDefinition, On, Absent
  <2>2. Reads(p, start, Defined(doc, <<type>>, <<>>))
    <3>1. Append(<<>>, type) = <<type>>
      OBVIOUS
    <3> HIDE DEF type
    <3>2. Reads(<<type>>, start, Defined(doc, Append(<<>>, type), <<>>))
      BY <1>1, WordRead
    <3> QED BY <3>1, <3>2
  <2>3. Reads(naming, Defined(doc, <<type>>, <<>>), middle(<<>>))
    <3>1. CASE name = Absent
      BY <3>1, ReadsNothing
    <3>2. CASE name # Absent
      <4> DEFINE x == <<type>>
                 y == <<type, name>>
      <4>1. Append(x, name) = y
        BY AppendTwo
      <4>2. naming = <<name>> /\ words = y
        BY <3>2
      <4> HIDE DEF x, y, name, words, naming
      <4>3. Reads(<<name>>, Defined(doc, x, <<>>), Defined(doc, Append(x, name), <<>>))
        BY <1>1, WordRead
      <4> QED BY <4>1, <4>2, <4>3 DEF x
    <3> QED BY <3>1, <3>2
  <2>4. Reads(q, middle(<<>>), middle(given))
    <3> HIDE DEF given, words
    <3> QED BY <1>1, VariablesRead
  <2>5. Reads(t, middle(given), Defined(Define(doc, words, given, set), <<>>, <<>>))
    <3> HIDE DEF given, words, set
    <3> QED BY <1>1, SetDefines
  <2>6. Define(doc, words, given, set) = DefineOperation(doc, op)
    <3>1. words # <<>> /\ words[1] = type /\ type # "fragment"
      BY <1>1 DEF OperationTypes
    <3>2. (IF Len(words) = 1 THEN Absent ELSE words[2]) = name
      OBVIOUS
    <3> HIDE DEF words
    <3>3. Define(doc, words, given, set)
            = DefineOperation(doc, Operation(words[1], IF Len(words) = 1 THEN Absent ELSE words[2],
                                             given, set))
      BY <3>1 DEF Define, Absent
    <3> QED BY <3>1, <3>2, <3>3, <1>1
  <2> HIDE DEF p, q, t, naming, middle, start
  <2>7. Reads(On(p, naming), start, middle(<<>>))
    BY <2>2, <2>3, ReadsOn
  <2>8. Reads(On(On(p, naming), q), start, middle(given))
    BY <2>4, <2>7, ReadsOn
  <2>9. Reads(On(On(On(p, naming), q), t), start, last)
    BY <2>5, <2>6, <2>8, ReadsOn
  <2> QED BY <2>1, <2>9 DEF start
<1> QED BY <1>2, <1>3

\* A fragment adds a fragment.
LEMMA FragmentRead ==
  ASSUME NEW doc, NEW name \in Names, NEW fragment \in [on : Names, set : SelectionSets]
  PROVE  Reads(PrintFragmentDefinition(name, fragment), Defined(doc, <<>>, <<>>),
               Defined(DefineFragment(doc, name, fragment), <<>>, <<>>))
<1> DEFINE on == fragment.on
           set == fragment.set
           start == Defined(doc, <<>>, <<>>)
           two == <<"fragment", name>>
           more == <<"on", on>>
           words == <<"fragment", name, "on", on>>
           t == PrintSelectionSet(set)
<1>1. fragment = Fragment(on, set) /\ on \in Names /\ set \in SelectionSets
  BY DEF Fragment
<1>2. Reads(two, start, Defined(doc, two, <<>>))
  <2> DEFINE one == <<"fragment">>
  <2>1. Append(<<>>, "fragment") = one /\ Append(one, name) = two
    BY AppendTwo
  <2>2. "fragment" \in Tokens /\ name \in Tokens
    BY DEF Tokens
  <2>3. Take(start, "fragment") = Defined(doc, one, <<>>)
    <3>1. Take(start, "fragment") = Defined(doc, Append(<<>>, "fragment"), <<>>)
      <4> DEFINE none == <<>>
                 token == "fragment"
      <4>1. token \in Names \cup OperationTypes \cup {"fragment", "on"}
        OBVIOUS
      <4> HIDE DEF none, token
      <4>2. Take(Defined(doc, none, none), token) = Defined(doc, Append(none, token), none)
        BY <4>1, WordTaken
      <4> QED BY <4>2 DEF none, token
    <3> QED BY <2>1, <3>1
  <2> HIDE DEF one, start
  <2>4. Take(Defined(doc, one, <<>>), name) = Defined(doc, Append(one, name), <<>>)
    BY WordTaken
  <2>5. Reads(<<"fragment", name>>, start, Take(Take(start, "fragment"), name))
    BY <2>2, ReadsTwo
  <2> QED BY <2>1, <2>3, <2>4, <2>5
<1>3. Reads(more, Defined(doc, two, <<>>), Defined(doc, words, <<>>))
  <2> DEFINE three == <<"fragment", name, "on">>
             d == Defined(doc, two, <<>>)
  <2>1. Append(two, "on") = three /\ Append(three, on) = words
    <3>1. Append(two, "on") = three
      BY AppendThree
    <3>2. Append(three, on) = words
      <4> HIDE DEF on
      <4> QED BY AppendFour
    <3> QED BY <3>1, <3>2
  <2>2. "on" \in Tokens /\ on \in Tokens
    BY <1>1 DEF Tokens
  <2> HIDE DEF two, three, on, words
  <2>3. Take(d, "on") = Defined(doc, three, <<>>)
    <3>1. Take(d, "on") = Defined(doc, Append(two, "on"), <<>>)
      BY WordTaken
    <3> QED BY <2>1, <3>1
  <2>4. Take(Defined(doc, three, <<>>), on) = Defined(doc, Append(three, on), <<>>)
    BY <1>1, WordTaken
  <2> HIDE DEF d
  <2>5. Reads(<<"on", on>>, d, Take(Take(d, "on"), on))
    BY <2>2, ReadsTwo
  <2> QED BY <2>1, <2>3, <2>4, <2>5 DEF d
<1>4. Reads(t, Defined(doc, words, <<>>), Defined(Define(doc, words, <<>>, set), <<>>, <<>>))
  <2> HIDE DEF words, set
  <2> QED BY <1>1, SetDefines
<1>5. Define(doc, words, <<>>, set) = DefineFragment(doc, name, fragment)
  <2>1. words # <<>> /\ words[1] = "fragment" /\ words[2] = name /\ words[4] = on
    OBVIOUS
  <2> HIDE DEF words, on, set
  <2>2. Define(doc, words, <<>>, set) = DefineFragment(doc, name, Fragment(on, set))
    BY <2>1 DEF Define
  <2> QED BY <2>2, <1>1
<1>6. PrintFragmentDefinition(name, fragment) = On(On(two, more), t)
  <2>1. On(two, more) = words
    <3>1. two \in Seq(Tokens) /\ more \in Seq(Tokens)
      BY <1>2, <1>3 DEF Reads
    <3>2. Len(two) = 2 /\ Len(more) = 2 /\ two[1] = "fragment" /\ two[2] = name
          /\ more[1] = "on" /\ more[2] = on
      OBVIOUS
    <3>3. words \in Seq(Tokens) /\ Len(words) = 4 /\ words[1] = "fragment" /\ words[2] = name
          /\ words[3] = "on" /\ words[4] = on
      BY <1>1 DEF Tokens
    <3> HIDE DEF two, more, words
    <3>4. On(two, more) \in Seq(Tokens) /\ Len(On(two, more)) = 4
      <4>1. On(two, more) \in Seq(Tokens) /\ Len(On(two, more)) = Len(two) + Len(more)
        BY <3>1, OnIs
      <4> QED BY <4>1, <3>2
    <3>5. On(two, more)[1] = two[1] /\ On(two, more)[2] = two[2]
      <4>1. \A i \in 1..Len(two) : On(two, more)[i] = two[i]
        BY <3>1, OnIs
      <4> QED BY <4>1, <3>2
    <3>6. On(two, more)[3] = more[1] /\ On(two, more)[4] = more[2]
      <4>1. \A i \in 1..Len(more) : On(two, more)[Len(two) + i] = more[i]
        BY <3>1 DEF On
      <4>2. 1 \in 1..Len(more) /\ 2 \in 1..Len(more) /\ Len(two) + 1 = 3 /\ Len(two) + 2 = 4
        BY <3>2
      <4> QED BY <4>1, <4>2
    <3>7. \A i \in 1..4 : On(two, more)[i] = words[i]
      BY <3>2, <3>3, <3>5, <3>6
    <3> QED BY <3>3, <3>4, <3>7, SeqEqual
  <2>2. PrintFragmentDefinition(name, fragment) = On(words, t)
    BY DEF PrintFragmentDefinition, On
  <2> QED BY <2>1, <2>2
<1> HIDE DEF two, more, words, t, start
<1>7. Reads(On(two, more), start, Defined(doc, words, <<>>))
  BY <1>2, <1>3, ReadsOn
<1>8. Reads(On(On(two, more), t), start, Defined(Define(doc, words, <<>>, set), <<>>, <<>>))
  BY <1>4, <1>7, ReadsOn
<1> QED BY <1>5, <1>6, <1>8 DEF start

-----------------------------------------------------------------------------
(* Documents *)

\* An order has every fragment once; definitions are read one after the other.
LEMMA OrderIs ==
  ASSUME NEW S, IsFiniteSet(S), NEW order \in SetToSeqs(S)
  PROVE  /\ order \in Seq(S)
         /\ \A x \in S : \E i \in 1..Len(order) : order[i] = x
<1>1. Cardinality(S) \in Nat
  BY FS_CardinalityType
<1>2. order \in [1..Cardinality(S) -> S] /\ Len(order) = Cardinality(S) /\ order \in Seq(S)
  BY <1>1 DEF SetToSeqs
<1>3. order \in Injection(1..Cardinality(S), S)
  BY <1>2 DEF SetToSeqs, Injection, IsInjective
<1> DEFINE D == 1..Cardinality(S)
<1>4. IsFiniteSet(D) /\ Cardinality(D) = Cardinality(S)
  BY <1>1, FS_Interval
<1>5. order \in Surjection(D, S)
  <2>1. order \in Injection(D, S)
    BY <1>3
  <2> HIDE DEF D
  <2> QED BY <2>1, <1>4, FS_Injection
<1> QED
  BY <1>2, <1>5 DEF Surjection

NoneDefined == [name \in {} |-> Fragment("", <<>>)]

LEMMA OperationsRead ==
  ASSUME NEW ops \in Seq(Operations)
  PROVE  Reads(FlattenSeq([i \in DOMAIN ops |-> PrintOperationDefinition(ops[i])]), Start,
               Defined(Document(ops, NoneDefined), <<>>, <<>>))
<1> DEFINE n == Len(ops)
           piece(i) == PrintOperationDefinition(ops[i])
           pieces == [i \in DOMAIN ops |-> piece(i)]
           state(i) == Defined(Document(SubSeq(ops, 1, i), NoneDefined), <<>>, <<>>)
           states == [i \in 0..n |-> state(i)]
<1>1. n \in Nat /\ DOMAIN ops = 1..n /\ \A i \in 1..n : ops[i] \in Operations
  <2> HIDE DEF Operations
  <2> QED OBVIOUS
<1>2. /\ SubSeq(ops, 1, 0) = <<>> /\ SubSeq(ops, 1, n) = ops
      /\ \A i \in 1..n : Append(SubSeq(ops, 1, i - 1), ops[i]) = SubSeq(ops, 1, i)
  <2> HIDE DEF Operations
  <2> QED BY Beginning
<1>3. ASSUME NEW i \in 1..n PROVE Reads(piece(i), state(i - 1), state(i))
  <2> DEFINE before == SubSeq(ops, 1, i - 1)
             op == ops[i]
             doc == Document(before, NoneDefined)
  <2>1. op \in Operations
    BY <1>1
  <2>2. DefineOperation(doc, op) = Document(SubSeq(ops, 1, i), NoneDefined)
    <3>1. Append(before, op) = SubSeq(ops, 1, i)
      BY <1>2
    <3> HIDE DEF before, op
    <3> QED BY <3>1 DEF DefineOperation, Document
  <2> HIDE DEF before, op, doc
  <2>3. Reads(PrintOperationDefinition(op), Defined(doc, <<>>, <<>>),
              Defined(DefineOperation(doc, op), <<>>, <<>>))
    BY <2>1, OperationRead
  <2> QED BY <2>2, <2>3 DEF op, doc, before
<1>4. pieces \in Seq(Seq(Tokens)) /\ Len(pieces) = n
  <2>1. \A i \in 1..n : piece(i) \in Seq(Tokens)
    <3> HIDE DEF piece, state
    <3> QED BY <1>3 DEF Reads
  <2> HIDE DEF piece
  <2>2. DOMAIN pieces = 1..n /\ pieces = [i \in 1..n |-> pieces[i]]
    BY <1>1
  <2>3. \A i \in 1..n : pieces[i] \in Seq(Tokens)
    BY <1>1, <2>1
  <2> HIDE DEF pieces, n
  <2> QED BY <2>2, <2>3, <1>1, MappedSeq
<1>5. \A i \in 1..Len(pieces) : Reads(pieces[i], states[i - 1], states[i])
  <2> SUFFICES ASSUME NEW i \in 1..n PROVE Reads(pieces[i], states[i - 1], states[i])
    BY <1>4
  <2>1. pieces[i] = piece(i) /\ states[i - 1] = state(i - 1) /\ states[i] = state(i)
    <3> HIDE DEF piece, state
    <3> QED BY <1>1
  <2> HIDE DEF piece, state, pieces, states
  <2> QED BY <2>1, <1>3
<1>6. states[0] = state(0) /\ states[n] = state(n)
  <2> HIDE DEF state
  <2> QED BY <1>1
<1>7. Reads(FlattenSeq(pieces), state(0), state(n))
  <2> HIDE DEF pieces, states, state
  <2>1. Reads(FlattenSeq(pieces), states[0], states[Len(pieces)])
    BY <1>4, <1>5, ReadsAll
  <2> QED BY <2>1, <1>4, <1>6
<1>8. state(0) = Start
  <2>1. state(0) = Defined(Document(<<>>, NoneDefined), <<>>, <<>>)
    BY <1>2
  <2> QED BY <2>1 DEF Start, Defined, NoneDefined
<1>9. state(n) = Defined(Document(ops, NoneDefined), <<>>, <<>>)
  BY <1>2
<1> HIDE DEF state, pieces
<1>10. Reads(FlattenSeq(pieces), Start, Defined(Document(ops, NoneDefined), <<>>, <<>>))
  BY <1>7, <1>8, <1>9
<1> QED BY <1>10 DEF pieces

\* After all fragments of an order, each has been defined.
LEMMA FragmentsRead ==
  ASSUME NEW ops, NEW frags, NEW order \in Seq(DOMAIN frags),
         frags = [name \in DOMAIN frags |-> frags[name]],
         \A x \in DOMAIN frags : \E i \in 1..Len(order) : order[i] = x,
         \A name \in DOMAIN frags :
           name \in Names /\ frags[name] \in [on : Names, set : SelectionSets]
  PROVE  Reads(FlattenSeq([i \in DOMAIN order |->
                             PrintFragmentDefinition(order[i], frags[order[i]])]),
               Defined(Document(ops, NoneDefined), <<>>, <<>>),
               Defined(Document(ops, frags), <<>>, <<>>))
<1> DEFINE n == Len(order)
           piece(i) == PrintFragmentDefinition(order[i], frags[order[i]])
           pieces == [i \in DOMAIN order |-> piece(i)]
           seen(i) == {order[j] : j \in 1..i}
           upTo(i) == [name \in seen(i) |-> frags[name]]
           state(i) == Defined(Document(ops, upTo(i)), <<>>, <<>>)
           states == [i \in 0..n |-> state(i)]
<1>1. n \in Nat /\ DOMAIN order = 1..n /\ \A i \in 1..n : order[i] \in DOMAIN frags
  OBVIOUS
<1>2. upTo(0) = NoneDefined
  <2>1. seen(0) = {}
    OBVIOUS
  <2> HIDE DEF seen
  <2> QED BY <2>1 DEF NoneDefined
<1>3. upTo(n) = frags
  <2>1. seen(n) = DOMAIN frags
    BY <1>1
  <2> HIDE DEF seen
  <2> QED BY <2>1
<1>4. ASSUME NEW i \in 1..n PROVE Reads(piece(i), state(i - 1), state(i))
  <2> DEFINE name == order[i]
             fragment == frags[name]
             doc == Document(ops, upTo(i - 1))
  <2>1. name \in Names /\ fragment \in [on : Names, set : SelectionSets]
    BY <1>1
  <2>2. DefineFragment(doc, name, fragment) = Document(ops, upTo(i))
    <3>1. seen(i) = seen(i - 1) \cup {name}
      BY <1>1
    <3> DEFINE old == upTo(i - 1)
               new == [x \in seen(i - 1) \cup {name} |-> IF x = name THEN fragment ELSE old[x]]
    <3>2. DOMAIN old = seen(i - 1) /\ \A x \in seen(i - 1) : old[x] = frags[x]
      <4> HIDE DEF seen
      <4> QED OBVIOUS
    <3> HIDE DEF seen, old
    <3>3. new = upTo(i)
      BY <3>1, <3>2
    <3>4. doc.operations = ops /\ doc.fragments = old
      BY DEF Document, old
    <3> HIDE DEF name, fragment, doc
    <3>5. DefineFragment(doc, name, fragment) = Document(ops, new)
      BY <3>2, <3>4 DEF DefineFragment
    <3> HIDE DEF new, upTo
    <3> QED BY <3>3, <3>5
  <2> HIDE DEF name, fragment, doc, upTo
  <2>3. Reads(PrintFragmentDefinition(name, fragment), Defined(doc, <<>>, <<>>),
              Defined(DefineFragment(doc, name, fragment), <<>>, <<>>))
    BY <2>1, FragmentRead
  <2> QED BY <2>2, <2>3 DEF name, fragment, doc
<1>5. pieces \in Seq(Seq(Tokens)) /\ Len(pieces) = n
  <2>1. \A i \in 1..n : piece(i) \in Seq(Tokens)
    <3> HIDE DEF piece, state
    <3> QED BY <1>4 DEF Reads
  <2> HIDE DEF piece
  <2>2. DOMAIN pieces = 1..n /\ pieces = [i \in 1..n |-> pieces[i]]
    BY <1>1
  <2>3. \A i \in 1..n : pieces[i] \in Seq(Tokens)
    BY <1>1, <2>1
  <2> HIDE DEF pieces, n
  <2> QED BY <2>2, <2>3, <1>1, MappedSeq
<1>6. \A i \in 1..Len(pieces) : Reads(pieces[i], states[i - 1], states[i])
  <2> SUFFICES ASSUME NEW i \in 1..n PROVE Reads(pieces[i], states[i - 1], states[i])
    BY <1>5
  <2>1. pieces[i] = piece(i) /\ states[i - 1] = state(i - 1) /\ states[i] = state(i)
    <3> HIDE DEF piece, state
    <3> QED BY <1>1
  <2> HIDE DEF piece, state, pieces, states
  <2> QED BY <2>1, <1>4
<1>7. states[0] = state(0) /\ states[n] = state(n)
  <2> HIDE DEF state
  <2> QED BY <1>1
<1>8. Reads(FlattenSeq(pieces), state(0), state(n))
  <2> HIDE DEF pieces, states, state
  <2>1. Reads(FlattenSeq(pieces), states[0], states[Len(pieces)])
    BY <1>5, <1>6, ReadsAll
  <2> QED BY <2>1, <1>5, <1>7
<1>9. /\ state(0) = Defined(Document(ops, NoneDefined), <<>>, <<>>)
      /\ state(n) = Defined(Document(ops, frags), <<>>, <<>>)
  <2> HIDE DEF upTo
  <2> QED BY <1>2, <1>3
<1> HIDE DEF state, pieces
<1>10. Reads(FlattenSeq(pieces), Defined(Document(ops, NoneDefined), <<>>, <<>>),
             Defined(Document(ops, frags), <<>>, <<>>))
  BY <1>8, <1>9
<1> QED BY <1>10 DEF pieces

\* The text of a document stands for it, whatever the order of its fragments.
LEMMA DocumentRead ==
  ASSUME NEW doc, IsDocument(doc), NEW order \in Orders(doc)
  PROVE  ParseDocument(PrintDocument(doc, order)) = doc
<1> DEFINE ops == doc.operations
           frags == doc.fragments
           p == FlattenSeq([i \in DOMAIN ops |-> PrintOperationDefinition(ops[i])])
           q == FlattenSeq([i \in DOMAIN order |->
                              PrintFragmentDefinition(order[i], frags[order[i]])])
<1>1. /\ ops \in Seq(Operations) /\ doc = Document(ops, frags)
      /\ frags = [name \in DOMAIN frags |-> frags[name]]
      /\ IsFiniteSet(DOMAIN frags)
      /\ \A name \in DOMAIN frags :
           name \in Names /\ frags[name] \in [on : Names, set : SelectionSets]
  BY DEF IsDocument, Operations
<1>2. /\ order \in Seq(DOMAIN frags)
      /\ \A x \in DOMAIN frags : \E i \in 1..Len(order) : order[i] = x
  BY <1>1, OrderIs DEF Orders
<1>3. Reads(p, Start, Defined(Document(ops, NoneDefined), <<>>, <<>>))
  <2> HIDE DEF ops
  <2> QED BY <1>1, OperationsRead
<1>4. Reads(q, Defined(Document(ops, NoneDefined), <<>>, <<>>),
            Defined(Document(ops, frags), <<>>, <<>>))
  <2> HIDE DEF ops, frags
  <2> QED BY <1>1, <1>2, FragmentsRead
<1>5. PrintDocument(doc, order) = On(p, q)
  BY DEF PrintDocument, On
<1> HIDE DEF p, q
<1>6. Reads(On(p, q), Start, Defined(Document(ops, frags), <<>>, <<>>))
  BY <1>3, <1>4, ReadsOn
<1>7. Read(Start, PrintDocument(doc, order)) = Defined(doc, <<>>, <<>>)
  BY <1>1, <1>5, <1>6 DEF Reads
<1> QED BY <1>7, DefinedIs DEF ParseDocument

-----------------------------------------------------------------------------
(* Theorems *)

\* Documents are documents: of what an application starts with that is assumed.
LEMMA AlwaysDocument == Spec => []IsDocument(document)
<1>1. Init => IsDocument(document)
  BY SketchAssumption DEF Init
<1>2. IsDocument(document) /\ [Next]_vars => IsDocument(document)'
  BY DEF Next, Extend, BuildRequest, vars
<1> QED
  BY <1>1, <1>2, PTL DEF Spec

\* A document that went through AddTypename goes through it unchanged, whatever its
\* fields, fragments and depth (add_typename.cpp): what the cache files an answer under
\* does not depend on how often it did.
THEOREM OneTransformIsEnough == Spec => []TransformOnce
<1>1. IsDocument(document) => TransformOnce
  BY AddTypenameTwice DEF TransformOnce, Sent
<1> QED
  BY <1>1, AlwaysDocument, PTL

\* The name that a request carries is that of the first operation in it.
NamesItsFirst == Built => request.operation = OperationName(Sent)

LEMMA AlwaysNamesItsFirst == Spec => []NamesItsFirst
<1>1. Init => NamesItsFirst
  BY DEF Init, NamesItsFirst, Built
<1>2. NamesItsFirst /\ [Next]_vars => NamesItsFirst'
  <2> SUFFICES ASSUME NamesItsFirst, [Next]_vars PROVE NamesItsFirst'
    OBVIOUS
  <2>1. CASE Extend
    BY <2>1 DEF Extend, NamesItsFirst, Built
  <2>2. CASE BuildRequest
    <3>1. request'.operation = OperationName(Sent) /\ document' = document
      BY <2>2 DEF BuildRequest
    <3> QED BY <3>1 DEF NamesItsFirst, Sent, OperationName
  <2>3. CASE UNCHANGED vars
    BY <2>3 DEF vars, NamesItsFirst, Built, Sent, OperationName
  <2> QED BY <2>1, <2>2, <2>3 DEF Next
<1> QED
  BY <1>1, <1>2, PTL DEF Spec

\* What goes to the server asks for what the application wrote and for nothing else but
\* __typename, whatever the document (add_typename.cpp), and names the operation whose
\* selections the cache will file the answer under (Client::BuildRequest).
THEOREM RequestsAskTheSame == Spec => []RequestAsksTheSame
<1>1. IsDocument(document) /\ NamesItsFirst => RequestAsksTheSame
  <2> SUFFICES ASSUME IsDocument(document), NamesItsFirst, Built
               PROVE  /\ DOMAIN Sent.operations = DOMAIN document.operations
                      /\ \A i \in DOMAIN document.operations :
                           SameSelection(document.operations[i], Sent.operations[i],
                                         AsksUpTo[MaxDepth])
                      /\ DOMAIN Sent.fragments = DOMAIN document.fragments
                      /\ \A name \in DOMAIN document.fragments :
                           SameSelection(document.fragments[name], Sent.fragments[name],
                                         AsksUpTo[MaxDepth])
                      /\ document.operations # <<>> => Executed = {1}
    BY DEF RequestAsksTheSame
  <2>1. /\ DOMAIN Sent.operations = DOMAIN document.operations
        /\ DOMAIN Sent.fragments = DOMAIN document.fragments
        /\ IsDocument(Sent)
    BY AddTypenameIs DEF Sent
  <2>2. ASSUME document.operations # <<>> PROVE Executed = {1}
    <3> DEFINE ops == Sent.operations
    <3>1. document.operations \in Seq(Operations) /\ ops \in Seq(Operations)
      BY <2>1, DocumentIs
    <3>2. 1 \in DOMAIN ops /\ ops # <<>>
      <4> HIDE DEF Operations, ops
      <4>1. 1 \in DOMAIN document.operations
        BY <2>2, <3>1
      <4>2. 1 \in DOMAIN ops
        BY <4>1, <2>1 DEF ops
      <4> QED BY <4>2, <3>1
    <3>3. request.operation = ops[1].name
      BY <3>2 DEF NamesItsFirst, OperationName
    <3>4. \A i, j \in DOMAIN ops : ops[i].name = ops[j].name => i = j
      BY <2>1 DEF IsDocument
    <3>5. Executed = {i \in DOMAIN ops : ops[i].name = ops[1].name}
      BY <3>3 DEF Executed
    <3> HIDE DEF ops
    <3> QED BY <3>2, <3>4, <3>5
  <2> QED BY <2>1, <2>2, DocumentAsksTheSame DEF Sent
<1> QED
  BY <1>1, AlwaysDocument, AlwaysNamesItsFirst, PTL

\* As long as the application puts no __typename under @include or @skip, every object of an
\* answer that has a field says its type, whatever fragments its fields come from and
\* whatever the conditions on them (add_typename.cpp): what the cache identifies objects by.
\* (With one under a condition it is not so: RequestConditional.)
THEOREM ObjectsSayTheirType ==
  ASSUME ~ConditionalTypename
  PROVE  Spec => []ObjectsIdentifiable
<1>1. IsDocument(document) => ObjectsIdentifiable
  BY SentSaysItsTypes
<1> QED
  BY <1>1, AlwaysDocument, PTL

\* What was built is the text of what is sent, for some order of its fragments.
PrintsWhatIsSent ==
  Built => \E order \in Orders(Sent) : request.text = PrintDocument(Sent, order)

LEMMA AlwaysPrintsWhatIsSent == Spec => []PrintsWhatIsSent
<1>1. Init => PrintsWhatIsSent
  BY DEF Init, PrintsWhatIsSent, Built
<1>2. PrintsWhatIsSent /\ [Next]_vars => PrintsWhatIsSent'
  <2> SUFFICES ASSUME PrintsWhatIsSent, [Next]_vars PROVE PrintsWhatIsSent'
    OBVIOUS
  <2>1. CASE Extend
    BY <2>1 DEF Extend, PrintsWhatIsSent, Built
  <2>2. CASE BuildRequest
    <3>1. document' = document
          /\ \E order \in Orders(Sent) : request'.text = PrintDocument(Sent, order)
      BY <2>2 DEF BuildRequest
    <3> QED BY <3>1 DEF PrintsWhatIsSent, Sent
  <2>3. CASE UNCHANGED vars
    BY <2>3 DEF vars, PrintsWhatIsSent, Built, Sent
  <2> QED BY <2>1, <2>2, <2>3 DEF Next
<1> QED
  BY <1>1, <1>2, PTL DEF Spec

\* Whatever the application wrote, however deep and in whatever order an unordered_map
\* gives its fragments, the text that the client sends and files answers under
\* (Client::BuildRequest with PrintDocument, print.cpp) is read back as the transformed
\* document.  Print loses nothing and moves nothing elsewhere, the spelling of values and
\* types aside, which are tokens here.
THEOREM TextsReadBack == Spec => []TextReadsBack
<1>1. IsDocument(document) /\ PrintsWhatIsSent => TextReadsBack
  <2> SUFFICES ASSUME IsDocument(document), PrintsWhatIsSent, Built
               PROVE  ParseDocument(request.text) = Sent
    BY DEF TextReadsBack
  <2>1. IsDocument(Sent)
    BY AddTypenameIs DEF Sent
  <2>2. PICK order \in Orders(Sent) : request.text = PrintDocument(Sent, order)
    BY DEF PrintsWhatIsSent
  <2>3. ParseDocument(PrintDocument(Sent, order)) = Sent
    BY <2>1, DocumentRead
  <2> QED BY <2>2, <2>3
<1> QED
  BY <1>1, AlwaysDocument, AlwaysPrintsWhatIsSent, PTL

\* Two different documents never have one text, whatever the orders of their fragments
\* (print.cpp): as the root of a cached answer is found by the text (InMemoryCache::Read),
\* the answer to one query is never read as the answer to another document.
THEOREM OneTextOneDocument ==
  ASSUME NEW one, IsDocument(one), NEW other, IsDocument(other),
         NEW order \in Orders(one), NEW otherOrder \in Orders(other),
         PrintDocument(one, order) = PrintDocument(other, otherOrder)
  PROVE  one = other
<1>1. ParseDocument(PrintDocument(one, order)) = one
  BY DocumentRead
<1>2. ParseDocument(PrintDocument(other, otherOrder)) = other
  BY DocumentRead
<1> QED
  BY <1>1, <1>2
=============================================================================
