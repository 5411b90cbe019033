-------------------------- MODULE CacheCoherenceProofs --------------------------
(***************************************************************************)
(* The references of the cache lead to entities, for every server, every    *)
(* client and every policy.  The proof follows the recursion of Normalize:   *)
(* what a call returns refers only to entities that the same call takes out, *)
(* and Write stores them all.                                              *)
(***************************************************************************)
EXTENDS CacheCoherence, DocumentsProofs

-----------------------------------------------------------------------------
(* Sequences by their ends *)

\* What there is of a sequence without its last element.
LEMMA FrontIs ==
  ASSUME NEW S, NEW q \in Seq(S), q # <<>>
  PROVE  /\ Front(q) \in Seq(S) /\ Last(q) \in S /\ q = Append(Front(q), Last(q))
         /\ Len(Front(q)) = Len(q) - 1 /\ \A i \in 1..Len(q) - 1 : Front(q)[i] = q[i]
<1>1. Len(q) \in Nat /\ Len(q) >= 1
  OBVIOUS
<1>2. 1 \in 1..Len(q) + 1 /\ Len(q) - 1 \in (1 - 1)..Len(q)
  BY <1>1
<1>3. /\ Front(q) \in Seq(S) /\ Len(Front(q)) = Len(q) - 1
      /\ \A i \in 1..Len(q) - 1 : Front(q)[i] = q[i]
  <2> DEFINE n == Len(q) - 1
  <2>1. n \in Nat /\ n <= Len(q)
    BY <1>1
  <2>2. n \in Int /\ 1 \in Int /\ \A i \in 1..n : q[i] \in S
    BY <2>1
  <2> HIDE DEF n
  <2>3. /\ SubSeq(q, 1, n) \in Seq(S) /\ Len(SubSeq(q, 1, n)) = IF 1 <= n THEN n-1+1 ELSE 0
        /\ \A i \in 1..n-1+1 : SubSeq(q, 1, n)[i] = q[1+i-1]
    BY <2>2, SubSeqProperties
  <2>4. SubSeq(q, 1, n) \in Seq(S) /\ Len(SubSeq(q, 1, n)) = n
    BY <2>1, <2>3
  <2>5. \A i \in 1..n : SubSeq(q, 1, n)[i] = q[i]
    BY <2>1, <2>3
  <2> QED BY <2>4, <2>5 DEF Front, n
<1>4. Last(q) \in S
  BY <1>1 DEF Last
<1>5. Append(Front(q), Last(q)) \in Seq(S) /\ Len(Append(Front(q), Last(q))) = Len(q)
  BY <1>1, <1>3, <1>4
<1>6. \A i \in 1..Len(q) : q[i] = Append(Front(q), Last(q))[i]
  BY <1>1, <1>3, <1>4 DEF Last
<1>7. q = Append(Front(q), Last(q))
  BY <1>5, <1>6, SeqEqual
<1> QED
  BY <1>3, <1>4, <1>7

\* A sequence that ends with an element has it as its last.
LEMMA AppendIs ==
  ASSUME NEW S, NEW q \in Seq(S), NEW x \in S
  PROVE  /\ Append(q, x) \in Seq(S) /\ Append(q, x) # <<>>
         /\ Front(Append(q, x)) = q /\ Last(Append(q, x)) = x
<1>1. Append(q, x) \in Seq(S) /\ Len(Append(q, x)) = Len(q) + 1
  OBVIOUS
<1>0. Append(q, x) # <<>>
  BY <1>1, Len(<<>>) = 0, Len(q) \in Nat
<1>2. Last(Append(q, x)) = x
  BY <1>1 DEF Last
<1>3. /\ Front(Append(q, x)) \in Seq(S) /\ Len(Front(Append(q, x))) = Len(q)
      /\ \A i \in 1..Len(q) : Front(Append(q, x))[i] = q[i]
  <2> DEFINE a == Append(q, x)
  <2>1. a \in Seq(S) /\ Len(a) = Len(q) + 1 /\ a # <<>>
    BY <1>0, <1>1
  <2>2. \A i \in 1..Len(q) : a[i] = q[i]
    OBVIOUS
  <2> HIDE DEF a
  <2>3. /\ Front(a) \in Seq(S) /\ Len(Front(a)) = Len(a) - 1
        /\ \A i \in 1..Len(a) - 1 : Front(a)[i] = a[i]
    BY <2>1, FrontIs
  <2> QED BY <2>1, <2>2, <2>3 DEF a
<1>4. Front(Append(q, x)) = q
  BY <1>3, SeqEqual
<1> QED
  BY <1>0, <1>1, <1>2, <1>4

\* A path, and on along another.
LEMMA OnPath ==
  ASSUME NEW S, NEW p \in Seq(S)
  PROVE  /\ \A q \in Seq(S) : On(p, q) \in Seq(S) /\ (On(p, q) = <<>> => q = <<>>)
         /\ On(p, <<>>) = p /\ On(<<>>, p) = p
         /\ \A q \in Seq(S) : \A x \in S : On(p, Append(q, x)) = Append(On(p, q), x)
<1>1. ASSUME NEW q \in Seq(S) PROVE On(p, q) \in Seq(S) /\ (On(p, q) = <<>> => q = <<>>)
  <2>1. p \o q \in Seq(S) /\ Len(p \o q) = Len(p) + Len(q)
    OBVIOUS
  <2>2. p \o q = <<>> => Len(q) = 0
    BY <2>1, Len(<<>>) = 0, Len(p) \in Nat, Len(q) \in Nat
  <2> QED BY <2>1, <2>2 DEF On
<1>2. On(p, <<>>) = p /\ On(<<>>, p) = p
  BY DEF On
<1>3. ASSUME NEW q \in Seq(S), NEW x \in S PROVE On(p, Append(q, x)) = Append(On(p, q), x)
  <2>1. Append(p \o q, x) \in Seq(S) /\ p \o Append(q, x) \in Seq(S)
    OBVIOUS
  <2>2. Len(Append(p \o q, x)) = Len(p \o Append(q, x))
    OBVIOUS
  <2>3. \A i \in 1..Len(Append(p \o q, x)) : Append(p \o q, x)[i] = (p \o Append(q, x))[i]
    OBVIOUS
  <2> QED BY <2>1, <2>2, <2>3, SeqEqual DEF On
<1> QED
  BY <1>1, <1>2, <1>3

\* The end of a sequence is the end of whatever it is appended to.
LEMMA OnEnd ==
  ASSUME NEW S, NEW p \in Seq(S), NEW q \in Seq(S), q # <<>>
  PROVE  On(p, q) # <<>> /\ Front(On(p, q)) = On(p, Front(q)) /\ Last(On(p, q)) = Last(q)
<1>1. /\ Front(q) \in Seq(S) /\ Last(q) \in S /\ q = Append(Front(q), Last(q))
  BY FrontIs
<1> DEFINE f == Front(q)
           l == Last(q)
<1>2. f \in Seq(S) /\ l \in S /\ q = Append(f, l)
  BY <1>1
<1> HIDE DEF f, l
<1>3. On(p, Append(f, l)) = Append(On(p, f), l) /\ On(p, f) \in Seq(S)
  BY <1>2, OnPath
<1> DEFINE g == On(p, f)
<1>4. g \in Seq(S) /\ On(p, q) = Append(g, l)
  BY <1>2, <1>3
<1> HIDE DEF g
<1>5. Append(g, l) # <<>> /\ Front(Append(g, l)) = g /\ Last(Append(g, l)) = l
  BY <1>2, <1>4, AppendIs
<1> QED BY <1>4, <1>5 DEF f, l, g

\* One step, and on.
LEMMA StepOn ==
  ASSUME NEW S, NEW step \in S, NEW p \in Seq(S)
  PROVE  LET q == On(<<step>>, p)
         IN q \in Seq(S) /\ q # <<>> /\ q[1] = step /\ Tail(q) = p
<1> DEFINE q == <<step>> \o p
<1>1. q \in Seq(S) /\ Len(q) = Len(p) + 1 /\ q[1] = step /\ q # <<>>
  OBVIOUS
<1>2. \A i \in 1..Len(p) : q[i + 1] = p[i]
  OBVIOUS
<1>3. Tail(q) \in Seq(S) /\ Len(Tail(q)) = Len(p)
  BY <1>1
<1>4. \A i \in 1..Len(p) : Tail(q)[i] = p[i]
  <2> HIDE DEF q
  <2> QED BY <1>1, <1>2
<1>5. Tail(q) = p
  <2> HIDE DEF q
  <2> QED BY <1>3, <1>4, SeqEqual
<1> QED
  BY <1>1, <1>5 DEF On

\* A sequence is its first element and its tail.
LEMMA TailIs ==
  ASSUME NEW S, NEW q \in Seq(S), q # <<>>
  PROVE  q[1] \in S /\ Tail(q) \in Seq(S) /\ q = On(<<q[1]>>, Tail(q))
<1>1. Len(q) >= 1 /\ Len(q) \in Nat
  OBVIOUS
<1>2. q[1] \in S /\ Tail(q) \in Seq(S) /\ Len(Tail(q)) = Len(q) - 1
  BY <1>1
<1>3. \A i \in 1..(Len(q) - 1) : Tail(q)[i] = q[i + 1]
  BY <1>1
<1> DEFINE x == q[1]
           t == Tail(q)
<1>4. x \in S /\ t \in Seq(S) /\ Len(t) = Len(q) - 1 /\ \A i \in 1..(Len(q) - 1) : t[i] = q[i + 1]
  BY <1>2, <1>3
<1> HIDE DEF t
<1>5. <<x>> \o t \in Seq(S) /\ Len(<<x>> \o t) = Len(q)
  BY <1>1, <1>4
<1>6. ASSUME NEW i \in 1..Len(q) PROVE q[i] = (<<x>> \o t)[i]
  <2>1. CASE i = 1
    BY <1>1, <1>4, <2>1
  <2>2. CASE i # 1
    <3>1. i - 1 \in 1..(Len(q) - 1) /\ (i - 1) + 1 = i
      BY <1>1, <2>2
    <3>2. (<<x>> \o t)[i] = t[i - 1]
      BY <1>1, <1>4, <3>1
    <3>3. t[i - 1] = q[(i - 1) + 1]
      BY <1>4, <3>1
    <3> QED BY <3>1, <3>2, <3>3
  <2> QED BY <2>1, <2>2
<1>7. q = <<x>> \o t
  BY <1>5, <1>6, SeqEqual
<1> QED
  BY <1>2, <1>7 DEF On, t

\* Where the front, the end and a continuation of a sequence begin, and what follows.
LEMMA TailEnd ==
  ASSUME NEW S, NEW q \in Seq(S), q # <<>>
  PROVE  /\ IF Tail(q) = <<>> THEN Front(q) = <<>> /\ Last(q) = q[1]
            ELSE /\ Front(q) # <<>> /\ Front(q)[1] = q[1]
                 /\ Tail(Front(q)) = Front(Tail(q)) /\ Last(q) = Last(Tail(q))
         /\ \A x \in S : Append(q, x)[1] = q[1] /\ Tail(Append(q, x)) = Append(Tail(q), x)
<1>1. q[1] \in S /\ Tail(q) \in Seq(S) /\ q = On(<<q[1]>>, Tail(q)) /\ <<q[1]>> \in Seq(S)
  BY TailIs
<1> DEFINE x == q[1]
           t == Tail(q)
<1>2. x \in S /\ t \in Seq(S) /\ q = On(<<x>>, t) /\ <<x>> \in Seq(S)
  BY <1>1
<1> HIDE DEF x, t
<1>3. CASE t = <<>>
  <2>1. q = <<x>>
    BY <1>2, <1>3, OnPath
  <2>2. <<x>> = Append(<<>>, x) /\ <<>> \in Seq(S)
    BY <1>2
  <2>3. Front(q) = <<>> /\ Last(q) = x
    BY <1>2, <2>1, <2>2, AppendIs
  <2> QED BY <1>3, <2>3 DEF x, t
<1>4. CASE t # <<>>
  <2>1. Front(q) = On(<<x>>, Front(t)) /\ Last(q) = Last(t) /\ Front(t) \in Seq(S)
    BY <1>2, <1>4, OnEnd, FrontIs
  <2>2. On(<<x>>, Front(t)) # <<>> /\ On(<<x>>, Front(t))[1] = x /\ Tail(On(<<x>>, Front(t))) = Front(t)
    BY <2>1, <1>2, StepOn
  <2> QED BY <1>4, <2>1, <2>2 DEF x, t
<1>5. ASSUME NEW y \in S PROVE Append(q, y)[1] = x /\ Tail(Append(q, y)) = Append(t, y)
  <2> DEFINE p == <<x>>
             a == Append(t, y)
  <2>1. p \in Seq(S) /\ q = On(p, t) /\ a \in Seq(S)
    BY <1>2
  <2>2. On(p, a)[1] = x /\ Tail(On(p, a)) = a
    BY <1>2, <2>1, StepOn
  <2> HIDE DEF p
  <2>3. \A r \in Seq(S) : \A z \in S : On(p, Append(r, z)) = Append(On(p, r), z)
    BY <2>1, OnPath
  <2>4. On(p, Append(t, y)) = Append(On(p, t), y)
    BY <2>3, <1>2
  <2> QED BY <2>1, <2>2, <2>4
<1> QED
  BY <1>3, <1>4, <1>5 DEF x, t

Steps == StepsOver(Words)
Nodes == NodesOver(Words)

-----------------------------------------------------------------------------
(* JSON values *)

\* What JSON asks of a place in a value: the step to it, and what is above and below.
Fits(step, node) ==
  \/ node.is = "object" /\ step = Member(step.key)
  \/ node.is = "array" /\ step \in {Item(i) : i \in 1..node.items}
HasAbove(v, path) == Front(path) \in DOMAIN v /\ Fits(Last(path), v[Front(path)])
HasItems(v, path) == \A i \in 1..v[path].items : Append(path, Item(i)) \in DOMAIN v

\* A value of JSON of which the root, if it is an array, has its first items only.
IsTree(v) == v \in [DOMAIN v -> Nodes] /\ DOMAIN v \subseteq Paths /\ <<>> \in DOMAIN v
IsJsonUpTo(v, n) ==
  /\ IsTree(v)
  /\ \A path \in DOMAIN v \ {<<>>} : HasAbove(v, path) /\ HasItems(v, path)
  /\ \A i \in 1..v[<<>>].items : i <= n => <<Item(i)>> \in DOMAIN v

LEMMA PathsAre == Paths = Seq(Steps) /\ <<>> \in Paths
BY DEF Paths, PathsOver, Steps

LEMMA ItemsAre ==
  /\ \A i \in Nat : Item(i) \in Steps /\ Item(i) # Reference
  /\ \A i \in Nat \ {0} : \A key : Item(i) # Member(key)
  /\ \A i, j \in Nat : Item(i) = Item(j) => i = j
  /\ \A key \in Seq(Words) : Member(key) \in Steps
  /\ \A step \in Steps : step.key \in Seq(Words)
<1>1. <<>> \in Seq(Words) /\ <<>> # <<"__ref">>
  OBVIOUS
<1> QED
  BY <1>1 DEF Item, Member, Reference, Steps, StepsOver

LEMMA NodesAre ==
  ASSUME NEW node \in Nodes
  PROVE  /\ node.is \in {"object", "array", "null", "text"}
         /\ node.text \in Seq(Words) /\ node.items \in Nat
         /\ node.is # "array" => node.items = 0
BY DEF Nodes, NodesOver

LEMMA JsonIs ==
  ASSUME NEW v
  PROVE  /\ IsJson(v, Words) <=> /\ IsTree(v)
                                 /\ \A path \in DOMAIN v \ {<<>>} : HasAbove(v, path)
                                 /\ \A path \in DOMAIN v : HasItems(v, path)
         /\ IsJson(v, Words) <=> IsTree(v) /\ IsJsonUpTo(v, v[<<>>].items)
         /\ \A n : IsJson(v, Words) => IsJsonUpTo(v, n)
<1>1. IsJson(v, Words) <=> /\ IsTree(v)
                           /\ \A path \in DOMAIN v \ {<<>>} : HasAbove(v, path)
                           /\ \A path \in DOMAIN v : HasItems(v, path)
  BY DEF IsJson, IsTree, HasAbove, Fits, HasItems, Nodes, Paths
<1>2. ASSUME IsTree(v)
      PROVE  /\ HasItems(v, <<>>) <=> \A i \in 1..v[<<>>].items : <<Item(i)>> \in DOMAIN v
             /\ \A i \in 1..v[<<>>].items : i <= v[<<>>].items
  <2>1. v[<<>>].items \in Nat
    BY <1>2, NodesAre DEF IsTree
  <2>2. \A i : Append(<<>>, Item(i)) = <<Item(i)>>
    OBVIOUS
  <2> QED BY <2>1, <2>2 DEF HasItems
<1> QED
  BY <1>1, <1>2 DEF IsJsonUpTo, IsTree

-----------------------------------------------------------------------------
(* A value with another part *)

LEMMA JustIs ==
  ASSUME NEW node \in Nodes
  PROVE  /\ Just(node) = [path \in {<<>>} |-> node] /\ Just(node)[<<>>] = node
         /\ IsJsonUpTo(Just(node), 0)
         /\ node.items = 0 => IsJson(Just(node), Words)
<1>1. DOMAIN Just(node) = {<<>>} /\ Just(node)[<<>>] = node
  BY DEF Just
<1>2. IsTree(Just(node))
  <2>1. Just(node) \in [{<<>>} -> Nodes]
    BY DEF Just
  <2> QED BY <1>1, <2>1, PathsAre DEF IsTree
<1>3. IsJsonUpTo(Just(node), 0)
  <2>1. node.items \in Nat
    BY NodesAre
  <2> QED BY <1>1, <1>2, <2>1 DEF IsJsonUpTo
<1> QED
  BY <1>1, <1>2, <1>3, JsonIs DEF Just

Begins(path, step) == path # <<>> /\ path[1] = step
IsPut(r, v, step, part) ==
  /\ IsTree(r) /\ r[<<>>] = v[<<>>]
  /\ \A path \in Paths :
       path \in DOMAIN r <=> IF Begins(path, step) THEN Tail(path) \in DOMAIN part
                             ELSE path \in DOMAIN v
  /\ \A path \in DOMAIN r :
       r[path] = IF Begins(path, step) THEN part[Tail(path)] ELSE v[path]

LEMMA PutIs ==
  ASSUME NEW v, IsTree(v), NEW part, IsTree(part), NEW step \in Steps
  PROVE  IsPut(Put(v, step, part), v, step, part)
<1> DEFINE r == Put(v, step, part)
           new(path) == path # <<>> /\ path[1] = step
           below == {<<step>> \o p : p \in DOMAIN part}
           rest == {path \in DOMAIN v : path = <<>> \/ path[1] # step}
<1>1. \A path \in Paths : path \in below <=> new(path) /\ Tail(path) \in DOMAIN part
  <2> SUFFICES ASSUME NEW path \in Paths
               PROVE  path \in below <=> new(path) /\ Tail(path) \in DOMAIN part
    OBVIOUS
  <2>1. ASSUME path \in below PROVE new(path) /\ Tail(path) \in DOMAIN part
    <3>1. PICK p \in DOMAIN part : path = On(<<step>>, p)
      BY <2>1 DEF On
    <3>2. p \in Seq(Steps)
      BY PathsAre DEF IsTree
    <3>3. LET q == On(<<step>>, p) IN q # <<>> /\ q[1] = step /\ Tail(q) = p
      BY <3>2, StepOn
    <3> QED BY <3>1, <3>3
  <2>2. ASSUME new(path), Tail(path) \in DOMAIN part PROVE path \in below
    <3>1. path = On(<<path[1]>>, Tail(path))
      BY <2>2, TailIs, PathsAre
    <3> QED BY <3>1, <2>2 DEF On
  <2> QED BY <2>1, <2>2
<1>2. below \subseteq Paths /\ rest \subseteq Paths
  <2>1. ASSUME NEW p \in DOMAIN part PROVE <<step>> \o p \in Paths
    <3>1. p \in Seq(Steps)
      BY PathsAre DEF IsTree
    <3>2. LET q == On(<<step>>, p) IN q \in Seq(Steps)
      BY <3>1, StepOn
    <3> QED BY <3>2, PathsAre DEF On
  <2> QED BY <2>1 DEF IsTree
<1>3. DOMAIN r = below \cup rest /\ r = [path \in below \cup rest |->
                     IF path \in below THEN part[Tail(path)] ELSE v[path]]
  BY DEF Put, Over, Below, Restrict
<1> HIDE DEF r, below
<1>4. ASSUME NEW path \in Paths
      PROVE  path \in DOMAIN r <=> IF new(path) THEN Tail(path) \in DOMAIN part
                                   ELSE path \in DOMAIN v
  BY <1>1, <1>3
<1>5. ASSUME NEW path \in DOMAIN r
      PROVE  /\ path \in Paths
             /\ r[path] = IF new(path) THEN part[Tail(path)] ELSE v[path]
  <2>1. path \in Paths
    BY <1>2, <1>3
  <2> QED BY <2>1, <1>1, <1>3
<1>6. <<>> \in DOMAIN r /\ r[<<>>] = v[<<>>]
  BY <1>4, <1>5, PathsAre DEF IsTree
<1>7. ASSUME NEW path \in DOMAIN r PROVE r[path] \in Nodes
  <2>1. CASE new(path)
    <3>1. Tail(path) \in DOMAIN part /\ r[path] = part[Tail(path)]
      BY <1>4, <1>5, <2>1
    <3> QED BY <3>1 DEF IsTree
  <2>2. CASE ~new(path)
    <3>1. path \in DOMAIN v /\ r[path] = v[path]
      BY <1>4, <1>5, <2>2
    <3> QED BY <3>1 DEF IsTree
  <2> QED BY <2>1, <2>2
<1>8. r \in [DOMAIN r -> Nodes]
  <2>1. r = [path \in DOMAIN r |-> r[path]]
    BY <1>3
  <2> QED BY <1>7, <2>1
<1>9. IsTree(r)
  BY <1>5, <1>6, <1>8 DEF IsTree
<1> QED
  BY <1>4, <1>5, <1>6, <1>9 DEF r, IsPut, Begins

LEMMA PutJson ==
  ASSUME NEW n \in Nat, NEW v, IsJsonUpTo(v, n), NEW part, IsJson(part, Words),
         NEW step \in Steps, Fits(step, v[<<>>])
  PROVE  /\ IsJsonUpTo(Put(v, step, part), n)
         /\ step = Item(n + 1) => IsJsonUpTo(Put(v, step, part), n + 1)
         /\ v[<<>>].is = "object" => IsJson(Put(v, step, part), Words)
<1> DEFINE r == Put(v, step, part)
<1>1. /\ IsTree(v) /\ IsTree(part)
      /\ \A path \in DOMAIN v \ {<<>>} : HasAbove(v, path) /\ HasItems(v, path)
      /\ \A path \in DOMAIN part \ {<<>>} : HasAbove(part, path)
      /\ \A path \in DOMAIN part : HasItems(part, path)
  BY JsonIs DEF IsJsonUpTo
<1>2. IsPut(r, v, step, part)
  BY <1>1, PutIs
<1> HIDE DEF r
<1> USE DEF IsPut, Begins
<1>3. DOMAIN r \subseteq Paths /\ \A path \in Paths \ {<<>>} : Tail(path) \in Paths
  BY <1>2, TailIs, PathsAre DEF IsTree
<1>4. ASSUME NEW path \in DOMAIN r \ {<<>>} PROVE HasAbove(r, path) /\ HasItems(r, path)
  <2> DEFINE t == Tail(path)
  <2>0. path \in Seq(Steps) /\ path # <<>>
    BY <1>3, PathsAre
  <2>1. /\ IF t = <<>> THEN Front(path) = <<>> /\ Last(path) = path[1]
           ELSE /\ Front(path) # <<>> /\ Front(path)[1] = path[1]
                /\ Tail(Front(path)) = Front(t) /\ Last(path) = Last(t)
        /\ \A s \in Steps : Append(path, s)[1] = path[1] /\ Tail(Append(path, s)) = Append(t, s)
    BY <2>0, TailEnd
  <2>2. /\ Front(path) \in Paths /\ t \in Paths
        /\ \A s \in Steps : Append(path, s) \in Paths /\ Append(path, s) # <<>>
    BY <2>0, FrontIs, AppendIs, TailIs, PathsAre
  <2> HIDE DEF t
  <2>3. CASE path[1] = step
    <3>1. t \in DOMAIN part /\ r[path] = part[t]
      BY <1>2, <1>3, <2>0, <2>3 DEF t
    <3>2. ASSUME t = <<>> PROVE HasAbove(r, path)
      <4>1. Front(path) = <<>> /\ Last(path) = step
        BY <2>1, <2>3, <3>2
      <4> QED BY <4>1, <1>2 DEF HasAbove, IsTree
    <3>3. ASSUME t # <<>> PROVE HasAbove(r, path)
      <4>1. HasAbove(part, t)
        BY <1>1, <3>1, <3>3
      <4>2. Front(path) \in DOMAIN r /\ r[Front(path)] = part[Front(t)]
        BY <4>1, <1>2, <2>1, <2>2, <2>3, <3>3 DEF HasAbove
      <4> QED BY <4>1, <4>2, <2>1, <3>3 DEF HasAbove
    <3>4. HasItems(r, path)
      <4> SUFFICES ASSUME NEW i \in 1..part[t].items PROVE Append(path, Item(i)) \in DOMAIN r
        BY <3>1 DEF HasItems
      <4>1. Item(i) \in Steps
        <5>1. part[t] \in Nodes
          BY <1>1, <3>1 DEF IsTree
        <5> QED BY <5>1, NodesAre, ItemsAre
      <4>2. Append(t, Item(i)) \in DOMAIN part
        BY <1>1, <3>1 DEF HasItems
      <4> QED BY <4>1, <4>2, <1>2, <2>1, <2>2, <2>3
    <3> QED BY <3>2, <3>3, <3>4
  <2>4. CASE path[1] # step
    <3>1. path \in DOMAIN v /\ r[path] = v[path]
      BY <1>2, <1>3, <2>4
    <3>2. HasAbove(v, path) /\ HasItems(v, path)
      BY <1>1, <3>1
    <3>3. Front(path) \in DOMAIN r /\ r[Front(path)] = v[Front(path)]
      BY <3>2, <1>2, <2>1, <2>2, <2>4 DEF HasAbove
    <3>4. HasAbove(r, path)
      BY <3>2, <3>3 DEF HasAbove
    <3>5. HasItems(r, path)
      <4> SUFFICES ASSUME NEW i \in 1..v[path].items PROVE Append(path, Item(i)) \in DOMAIN r
        BY <3>1 DEF HasItems
      <4>1. Item(i) \in Steps
        <5>1. v[path] \in Nodes
          BY <1>1, <3>1 DEF IsTree
        <5> QED BY <5>1, NodesAre, ItemsAre
      <4>2. Append(path, Item(i)) \in DOMAIN v
        BY <3>2 DEF HasItems
      <4> QED BY <4>1, <4>2, <1>2, <2>1, <2>2, <2>4
    <3> QED BY <3>4, <3>5
  <2> QED BY <2>3, <2>4
<1>5. /\ v[<<>>].items \in Nat /\ <<>> \in DOMAIN v
      /\ v[<<>>].is # "array" => v[<<>>].items = 0
  BY <1>1, NodesAre DEF IsTree
<1>6. ASSUME NEW i \in 1..v[<<>>].items
      PROVE  <<Item(i)>> \in DOMAIN r <=> Item(i) = step \/ <<Item(i)>> \in DOMAIN v
  <2>1. Item(i) \in Steps
    BY <1>5, ItemsAre
  <2> DEFINE x == Item(i)
             one == <<x>>
  <2>2. one \in Paths /\ one # <<>> /\ one[1] = x /\ Tail(one) = <<>>
    <3>1. x \in Steps
      BY <2>1
    <3> HIDE DEF x
    <3> QED BY <3>1, PathsAre
  <2>3. <<>> \in DOMAIN part
    BY <1>1 DEF IsTree
  <2> HIDE DEF one
  <2>4. one \in DOMAIN r <=> x = step \/ one \in DOMAIN v
    BY <1>2, <2>2, <2>3
  <2> QED BY <2>4 DEF one
<1>7. IsJsonUpTo(r, n)
  BY <1>2, <1>4, <1>6 DEF IsJsonUpTo
<1>8. ASSUME step = Item(n + 1) PROVE IsJsonUpTo(r, n + 1)
  <2>1. \A i \in 1..v[<<>>].items : i <= n + 1 => i = n + 1 \/ i <= n
    BY <1>5
  <2>2. \A i \in 1..v[<<>>].items : i <= n + 1 => <<Item(i)>> \in DOMAIN r
    BY <2>1, <1>6, <1>8 DEF IsJsonUpTo
  <2> QED BY <1>2, <1>4, <2>2 DEF IsJsonUpTo
<1>9. ASSUME v[<<>>].is = "object" PROVE IsJson(r, Words)
  <2>1. v[<<>>].items = 0
    BY <1>5, <1>9
  <2>2. IsJsonUpTo(r, r[<<>>].items)
    BY <1>2, <1>4, <2>1 DEF IsJsonUpTo
  <2> QED BY <2>2, <1>2, JsonIs
<1> QED
  BY <1>7, <1>8, <1>9 DEF r

-----------------------------------------------------------------------------
(* The references in a value *)

RefPaths(v) == {path \in DOMAIN v \ {<<>>} : Last(path) = Reference}
Refs(v) == {v[path].text : path \in RefPaths(v)}

LEMMA PutRefs ==
  ASSUME NEW v, IsTree(v), NEW part, IsTree(part), NEW step \in Steps, step # Reference
  PROVE  Refs(Put(v, step, part)) \subseteq Refs(v) \cup Refs(part)
<1> DEFINE r == Put(v, step, part)
<1>2. IsPut(r, v, step, part)
  BY PutIs
<1> HIDE DEF r
<1> USE DEF IsPut, Begins
<1> SUFFICES ASSUME NEW path \in RefPaths(r)
             PROVE  \/ path \in RefPaths(v) /\ r[path] = v[path]
                    \/ Tail(path) \in RefPaths(part) /\ r[path] = part[Tail(path)]
  BY DEF Refs, r
<1>3. path \in Seq(Steps) /\ path # <<>> /\ path \in DOMAIN r /\ Last(path) = Reference
  BY <1>2, PathsAre DEF IsTree, RefPaths
<1>4. IF Tail(path) = <<>> THEN Last(path) = path[1] ELSE Last(path) = Last(Tail(path))
  BY <1>3, TailEnd
<1>5. CASE path[1] = step
  BY <1>2, <1>3, <1>4, <1>5, PathsAre DEF RefPaths
<1>6. CASE path[1] # step
  BY <1>2, <1>3, <1>6, PathsAre DEF RefPaths
<1> QED BY <1>5, <1>6

-----------------------------------------------------------------------------
(* The part of a value at a path *)

LEMMA PrefixIs ==
  ASSUME NEW S, NEW p \in Seq(S), NEW q \in Seq(S)
  PROVE  LET rest == SubSeq(q, Len(p) + 1, Len(q))
         IN /\ IsPrefix(p, q) => rest \in Seq(S) /\ On(p, rest) = q
            /\ \A x \in Seq(S) : q = On(p, x) => IsPrefix(p, q) /\ rest = x
<1> DEFINE rest == SubSeq(q, Len(p) + 1, Len(q))
<1>0. Len(p) \in Nat /\ Len(q) \in Nat
  OBVIOUS
<1>1. ASSUME Len(p) <= Len(q)
      PROVE  /\ rest \in Seq(S) /\ Len(rest) = Len(q) - Len(p)
             /\ \A i \in 1..(Len(q) - Len(p)) : rest[i] = q[Len(p) + i]
  <2> DEFINE m == Len(p) + 1
             n == Len(q)
  <2>1. m \in Int /\ n \in Int /\ \A i \in m..n : q[i] \in S
    BY <1>0
  <2>2. IF m <= n THEN n - m + 1 = Len(q) - Len(p) ELSE Len(q) - Len(p) = 0 /\ n - m + 1 = 0
    BY <1>0, <1>1
  <2>3. \A i \in 1..(Len(q) - Len(p)) : m + i - 1 = Len(p) + i
    BY <1>0
  <2> HIDE DEF m, n
  <2>4. /\ SubSeq(q, m, n) \in Seq(S) /\ Len(SubSeq(q, m, n)) = IF m <= n THEN n-m+1 ELSE 0
        /\ \A i \in 1..n-m+1 : SubSeq(q, m, n)[i] = q[m+i-1]
    BY <2>1, SubSeqProperties
  <2>5. rest = SubSeq(q, m, n)
    BY DEF m, n
  <2> HIDE DEF rest
  <2>6. rest \in Seq(S) /\ Len(rest) = Len(q) - Len(p)
    BY <2>2, <2>4, <2>5
  <2>7. n - m + 1 = Len(q) - Len(p)
    BY <2>2
  <2>8. \A i \in 1..(Len(q) - Len(p)) : rest[i] = q[Len(p) + i]
    BY <2>3, <2>4, <2>5, <2>7
  <2> QED BY <2>6, <2>8
<1> HIDE DEF rest
<1>2. ASSUME NEW n \in Nat, NEW s \in Seq(S), n <= Len(s)
      PROVE  /\ SubSeq(s, 1, n) \in Seq(S) /\ Len(SubSeq(s, 1, n)) = n
             /\ \A i \in 1..n : SubSeq(s, 1, n)[i] = s[i]
  <2>1. n \in Int /\ 1 \in Int /\ \A i \in 1..n : s[i] \in S
    BY <1>2
  <2>2. /\ SubSeq(s, 1, n) \in Seq(S) /\ Len(SubSeq(s, 1, n)) = IF 1 <= n THEN n-1+1 ELSE 0
        /\ \A i \in 1..n-1+1 : SubSeq(s, 1, n)[i] = s[1+i-1]
    BY <2>1, SubSeqProperties
  <2> QED BY <2>2
<1>3. IsPrefix(p, q) <=> Len(p) <= Len(q) /\ \A i \in 1..Len(p) : p[i] = q[i]
  <2>1. ASSUME Len(p) <= Len(q)
        PROVE  SubSeq(p, 1, Len(p)) = SubSeq(q, 1, Len(p)) <=> \A i \in 1..Len(p) : p[i] = q[i]
    <3> DEFINE a == SubSeq(p, 1, Len(p))
               b == SubSeq(q, 1, Len(p))
    <3>1. /\ a \in Seq(S) /\ Len(a) = Len(p) /\ \A i \in 1..Len(p) : a[i] = p[i]
          /\ b \in Seq(S) /\ Len(b) = Len(p) /\ \A i \in 1..Len(p) : b[i] = q[i]
      BY <1>0, <1>2, <2>1
    <3> HIDE DEF a, b
    <3>2. a = b <=> \A i \in 1..Len(p) : a[i] = b[i]
      BY <3>1, SeqEqual
    <3>3. a = b <=> \A i \in 1..Len(p) : p[i] = q[i]
      BY <3>1, <3>2
    <3> QED BY <3>3 DEF a, b
  <2> QED BY <2>1 DEF IsPrefix
<1>4. ASSUME IsPrefix(p, q) PROVE rest \in Seq(S) /\ On(p, rest) = q
  <2>1. rest \in Seq(S) /\ p \o rest \in Seq(S) /\ Len(p \o rest) = Len(q)
    BY <1>0, <1>1, <1>3, <1>4
  <2>2. ASSUME NEW i \in 1..Len(q) PROVE (p \o rest)[i] = q[i]
    <3>1. CASE i <= Len(p)
      BY <1>0, <1>3, <1>4, <2>1, <3>1
    <3>2. CASE i > Len(p)
      <4>1. i - Len(p) \in 1..(Len(q) - Len(p)) /\ Len(p) + (i - Len(p)) = i
        BY <1>0, <3>2
      <4>2. (p \o rest)[i] = rest[i - Len(p)]
        BY <1>0, <2>1, <3>2
      <4>3. rest[i - Len(p)] = q[Len(p) + (i - Len(p))]
        BY <1>1, <1>3, <1>4, <4>1
      <4> QED BY <4>1, <4>2, <4>3
    <3>3. i <= Len(p) \/ i > Len(p)
      BY <1>0
    <3> QED BY <3>1, <3>2, <3>3
  <2>3. p \o rest = q
    BY <2>1, <2>2, SeqEqual
  <2> QED BY <2>1, <2>3 DEF On
<1>5. ASSUME NEW x \in Seq(S), q = On(p, x) PROVE IsPrefix(p, q) /\ rest = x
  <2>1. /\ Len(q) = Len(p) + Len(x) /\ Len(x) \in Nat
        /\ \A i \in 1..Len(p) : q[i] = p[i]
        /\ \A i \in 1..Len(x) : q[Len(p) + i] = x[i]
    BY <1>5 DEF On
  <2>2. rest \in Seq(S) /\ Len(rest) = Len(x) /\ \A i \in 1..Len(x) : rest[i] = x[i]
    <3>1. Len(p) <= Len(q) /\ Len(q) - Len(p) = Len(x)
      BY <1>0, <2>1
    <3>2. rest \in Seq(S) /\ Len(rest) = Len(x) /\ \A i \in 1..Len(x) : rest[i] = q[Len(p) + i]
      BY <1>1, <3>1
    <3> QED BY <2>1, <3>2
  <2>3. rest = x
    BY <2>2, SeqEqual
  <2> QED BY <1>0, <1>3, <2>1, <2>3
<1> QED
  BY <1>4, <1>5 DEF rest

LEMMA PartIs ==
  ASSUME NEW v, IsJson(v, Words), NEW at \in DOMAIN v
  PROVE  /\ IsJson(Part(v, at), Words) /\ Part(v, at)[<<>>] = v[at]
         /\ Refs(Part(v, at)) \subseteq Refs(v)
<1> DEFINE r == Part(v, at)
           there == {SubSeq(p, Len(at) + 1, Len(p)) : p \in {q \in DOMAIN v : IsPrefix(at, q)}}
<1>1. /\ IsTree(v) /\ at \in Seq(Steps) /\ DOMAIN v \subseteq Seq(Steps)
      /\ \A path \in DOMAIN v \ {<<>>} : HasAbove(v, path)
      /\ \A path \in DOMAIN v : HasItems(v, path)
  BY JsonIs, PathsAre DEF IsTree
<1>2. \A x : x \in there <=> x \in Seq(Steps) /\ On(at, x) \in DOMAIN v
  <2>1. ASSUME NEW x \in there PROVE x \in Seq(Steps) /\ On(at, x) \in DOMAIN v
    <3>1. PICK p \in DOMAIN v : IsPrefix(at, p) /\ x = SubSeq(p, Len(at) + 1, Len(p))
      OBVIOUS
    <3> QED BY <3>1, <1>1, PrefixIs
  <2>2. ASSUME NEW x \in Seq(Steps), On(at, x) \in DOMAIN v PROVE x \in there
    <3> DEFINE q == On(at, x)
    <3>1. q \in Seq(Steps) /\ q \in DOMAIN v /\ q = On(at, x)
      BY <1>1, <2>2
    <3> HIDE DEF q
    <3>2. IsPrefix(at, q) /\ SubSeq(q, Len(at) + 1, Len(q)) = x
      BY <1>1, <3>1, PrefixIs
    <3> QED BY <3>1, <3>2
  <2> QED BY <2>1, <2>2
<1>3. DOMAIN r = there /\ r = [x \in there |-> r[x]] /\ \A x \in there : r[x] = v[On(at, x)]
  BY DEF Part, On
<1> HIDE DEF r, there
<1>4. <<>> \in DOMAIN r /\ r[<<>>] = v[at] /\ On(at, <<>>) = at
  BY <1>1, <1>2, <1>3, OnPath, PathsAre
<1>5. IsTree(r)
  <2>1. \A x \in there : r[x] \in Nodes
    BY <1>1, <1>2, <1>3 DEF IsTree
  <2>2. r \in [there -> Nodes]
    BY <1>3, <2>1
  <2> QED BY <1>2, <1>3, <1>4, <2>2, PathsAre DEF IsTree
<1>6. ASSUME NEW x \in DOMAIN r \ {<<>>}
      PROVE  /\ HasAbove(r, x) /\ On(at, x) \in DOMAIN v \ {<<>>}
             /\ r[x] = v[On(at, x)] /\ Last(x) = Last(On(at, x))
  <2>1. x \in Seq(Steps) /\ x # <<>> /\ Front(x) \in Seq(Steps)
    BY <1>2, <1>3, FrontIs
  <2>2. On(at, x) # <<>> /\ Front(On(at, x)) = On(at, Front(x)) /\ Last(On(at, x)) = Last(x)
    BY <1>1, <2>1, OnEnd
  <2>3. On(at, x) \in DOMAIN v \ {<<>>}
    BY <1>2, <1>3, <2>2
  <2>4. HasAbove(v, On(at, x))
    BY <1>1, <2>3
  <2>5. Front(x) \in DOMAIN r /\ r[Front(x)] = v[On(at, Front(x))]
    BY <1>2, <1>3, <2>1, <2>2, <2>4 DEF HasAbove
  <2> QED BY <1>3, <2>2, <2>3, <2>4, <2>5 DEF HasAbove
<1>7. ASSUME NEW x \in DOMAIN r PROVE HasItems(r, x)
  <2> SUFFICES ASSUME NEW i \in 1..r[x].items PROVE Append(x, Item(i)) \in DOMAIN r
    BY DEF HasItems
  <2>1. x \in Seq(Steps) /\ On(at, x) \in DOMAIN v /\ r[x] = v[On(at, x)]
    BY <1>2, <1>3
  <2>2. Item(i) \in Steps
    <3>1. r[x].items \in Nat
      BY <1>5, NodesAre DEF IsTree
    <3> QED BY <3>1, ItemsAre
  <2>3. Append(On(at, x), Item(i)) \in DOMAIN v
    BY <1>1, <2>1 DEF HasItems
  <2> DEFINE y == Item(i)
  <2> HIDE DEF y
  <2>4. On(at, Append(x, y)) = Append(On(at, x), y) /\ Append(x, y) \in Seq(Steps)
    BY <1>1, <2>1, <2>2, OnPath DEF y
  <2> QED BY <2>3, <2>4, <1>2, <1>3 DEF y
<1>8. IsJson(r, Words)
  BY <1>5, <1>6, <1>7, JsonIs
<1>9. Refs(r) \subseteq Refs(v)
  BY <1>6 DEF Refs, RefPaths
<1> QED
  BY <1>4, <1>8, <1>9 DEF r

-----------------------------------------------------------------------------
(* A value merged with another *)

LEMMA PrefixesAre ==
  ASSUME NEW S, NEW q \in Seq(S)
  PROVE  /\ Prefixes(q) \subseteq Seq(S) /\ q \in Prefixes(q) /\ <<>> \in Prefixes(q)
         /\ \A x \in S : Prefixes(Append(q, x)) = Prefixes(q) \cup {Append(q, x)}
<1> DEFINE upTo(s, n) == SubSeq(s, 1, n)
<1>1. ASSUME NEW s \in Seq(S), NEW n \in 0..Len(s)
      PROVE  /\ upTo(s, n) \in Seq(S) /\ Len(upTo(s, n)) = n
             /\ \A i \in 1..n : upTo(s, n)[i] = s[i]
  <2>0. Len(s) \in Nat
    OBVIOUS
  <2>1. n \in Int /\ 1 \in Int /\ \A i \in 1..n : s[i] \in S
    BY <2>0
  <2>2. /\ SubSeq(s, 1, n) \in Seq(S) /\ Len(SubSeq(s, 1, n)) = IF 1 <= n THEN n-1+1 ELSE 0
        /\ \A i \in 1..n-1+1 : SubSeq(s, 1, n)[i] = s[1+i-1]
    BY <2>1, SubSeqProperties
  <2> QED BY <2>2, <2>0
<1>2. ASSUME NEW s \in Seq(S) PROVE upTo(s, Len(s)) = s
  <2>1. Len(s) \in 0..Len(s)
    OBVIOUS
  <2> HIDE DEF upTo
  <2>2. upTo(s, Len(s)) \in Seq(S) /\ Len(upTo(s, Len(s))) = Len(s)
        /\ \A i \in 1..Len(s) : upTo(s, Len(s))[i] = s[i]
    BY <1>1, <2>1
  <2> QED BY <2>2, SeqEqual
<1>3. upTo(q, 0) = <<>>
  <2>1. 0 \in 0..Len(q)
    OBVIOUS
  <2> HIDE DEF upTo
  <2>2. upTo(q, 0) \in Seq(S) /\ Len(upTo(q, 0)) = 0
    BY <1>1, <2>1
  <2> QED BY <2>2
<1>4. \A s : Prefixes(s) = {upTo(s, n) : n \in 0..Len(s)}
  BY DEF Prefixes
<1> HIDE DEF upTo
<1>5. /\ Prefixes(q) \subseteq Seq(S) /\ q \in Prefixes(q) /\ <<>> \in Prefixes(q)
  <2>1. 0 \in 0..Len(q) /\ Len(q) \in 0..Len(q)
    OBVIOUS
  <2> QED BY <2>1, <1>1, <1>2, <1>3, <1>4
<1>6. ASSUME NEW x \in S PROVE Prefixes(Append(q, x)) = Prefixes(q) \cup {Append(q, x)}
  <2> DEFINE a == Append(q, x)
  <2>1. a \in Seq(S) /\ Len(a) = Len(q) + 1 /\ \A i \in 1..Len(q) : a[i] = q[i]
    OBVIOUS
  <2> HIDE DEF a
  <2>2. ASSUME NEW n \in 0..Len(q) PROVE upTo(a, n) = upTo(q, n)
    <3>1. n \in 0..Len(a) /\ \A i \in 1..n : i \in 1..Len(q)
      BY <2>1
    <3>2. /\ upTo(a, n) \in Seq(S) /\ Len(upTo(a, n)) = n /\ \A i \in 1..n : upTo(a, n)[i] = a[i]
      BY <1>1, <2>1, <3>1
    <3>3. /\ upTo(q, n) \in Seq(S) /\ Len(upTo(q, n)) = n /\ \A i \in 1..n : upTo(q, n)[i] = q[i]
      BY <1>1
    <3>4. \A i \in 1..n : upTo(a, n)[i] = upTo(q, n)[i]
      BY <2>1, <3>1, <3>2, <3>3
    <3> QED BY <3>2, <3>3, <3>4, SeqEqual
  <2>3. 0..Len(a) = 0..Len(q) \cup {Len(a)}
    BY <2>1
  <2>4. upTo(a, Len(a)) = a
    BY <1>2, <2>1
  <2>5. Prefixes(a) = {upTo(q, n) : n \in 0..Len(q)} \cup {a}
    BY <1>4, <2>2, <2>3, <2>4
  <2> QED BY <2>5, <1>4 DEF a
<1> QED
  BY <1>5, <1>6

LEMMA MergeIs ==
  ASSUME NEW target, IsJson(target, Words), NEW patch, IsJson(patch, Words)
  PROVE  LET r == MergePatch(target, patch)
         IN /\ IsJson(r, Words) /\ r[<<>>] = patch[<<>>]
            /\ Refs(r) \subseteq Refs(target) \cup Refs(patch)
<1> DEFINE r == MergePatch(target, patch)
           deletes(path) ==
             /\ path # <<>> /\ patch[path].is = "null"
             /\ \A p \in Prefixes(path) \ {path} : patch[p].is = "object"
           stays(path) ==
             \A p \in Prefixes(path) \cap DOMAIN patch :
               patch[p].is = "object" /\ target[p].is = "object"
           new == {path \in DOMAIN patch : ~deletes(path)}
           old == {path \in DOMAIN target \ DOMAIN patch : stays(path)}
<1>1. /\ IsTree(target) /\ IsTree(patch)
      /\ \A path \in DOMAIN patch \ {<<>>} : HasAbove(patch, path)
      /\ \A path \in DOMAIN patch : HasItems(patch, path)
      /\ \A path \in DOMAIN target \ {<<>>} : HasAbove(target, path)
      /\ \A path \in DOMAIN target : HasItems(target, path)
  BY JsonIs
<1>2. /\ DOMAIN r = new \cup old /\ r = [path \in new \cup old |-> r[path]]
      /\ \A path \in new : r[path] = patch[path]
      /\ \A path \in old : r[path] = target[path]
  BY DEF MergePatch, Over, Restrict
<1>3. \A path \in DOMAIN patch : path \notin new => path # <<>> /\ patch[path].is = "null"
  OBVIOUS
<1>4. \A path \in old : \A p \in Prefixes(path) \cap DOMAIN patch :
        patch[p].is = "object" /\ target[p].is = "object"
  OBVIOUS
<1>5. \A path \in DOMAIN target \ DOMAIN patch :
        (\A p \in Prefixes(path) \cap DOMAIN patch :
           patch[p].is = "object" /\ target[p].is = "object") => path \in old
  OBVIOUS
<1>6. new \subseteq DOMAIN patch /\ old \subseteq DOMAIN target \ DOMAIN patch
  OBVIOUS
<1> HIDE DEF r, new, old
<1>7. new \subseteq Seq(Steps) /\ old \subseteq Seq(Steps)
  BY <1>1, <1>6, PathsAre DEF IsTree
<1>8. <<>> \in new /\ r[<<>>] = patch[<<>>]
  BY <1>1, <1>2, <1>3 DEF IsTree
<1>9. \A path \in new : r[path] \in Nodes /\ r[path] = patch[path]
  BY <1>1, <1>2, <1>6 DEF IsTree
<1>10. \A path \in old : r[path] \in Nodes /\ r[path] = target[path]
  BY <1>1, <1>2, <1>6 DEF IsTree
<1>11. IsTree(r)
  <2>1. r \in [DOMAIN r -> Nodes]
    BY <1>2, <1>9, <1>10
  <2> QED BY <1>2, <1>7, <1>8, <2>1, PathsAre DEF IsTree
\* What is above and below what the patch has.
<1>12. ASSUME NEW path \in new, path # <<>> PROVE HasAbove(r, path)
  <2>1. HasAbove(patch, path)
    BY <1>1, <1>6, <1>12
  <2>2. Front(path) \in new
    BY <2>1, <1>3 DEF HasAbove, Fits
  <2> QED BY <2>1, <2>2, <1>2, <1>9 DEF HasAbove
<1>13. ASSUME NEW path \in new PROVE HasItems(r, path)
  <2> SUFFICES ASSUME NEW i \in 1..patch[path].items PROVE Append(path, Item(i)) \in new
    BY <1>2, <1>9 DEF HasItems
  <2> DEFINE below == Append(path, Item(i))
  <2>1. patch[path].is = "array" /\ below \in DOMAIN patch /\ Item(i) \in Steps
    <3>1. patch[path] \in Nodes
      BY <1>9
    <3> QED BY <3>1, <1>1, <1>6, NodesAre, ItemsAre DEF HasItems
  <2>2. path \in Prefixes(below) \ {below}
    <3> DEFINE y == Item(i)
    <3>1. path \in Seq(Steps) /\ y \in Steps
      BY <1>7, <2>1
    <3> HIDE DEF y
    <3>2. Prefixes(Append(path, y)) = Prefixes(path) \cup {Append(path, y)}
      BY <3>1, PrefixesAre
    <3>3. path \in Prefixes(path)
      BY <3>1, PrefixesAre
    <3>4. path # Append(path, y)
      BY <3>1
    <3> QED BY <3>2, <3>3, <3>4 DEF y
  <2> HIDE DEF below
  <2>3. ~deletes(below)
    BY <2>1, <2>2
  <2>4. below \in new
    BY <2>1, <2>3 DEF new
  <2> QED BY <2>4 DEF below
\* The same of what the patch leaves.
<1>14. ASSUME NEW path \in old PROVE path # <<>> /\ HasAbove(r, path)
  <2>1. path # <<>> /\ HasAbove(target, path)
    BY <1>1, <1>6 DEF IsTree
  <2> DEFINE f == Front(path)
  <2>2. f \in Seq(Steps) /\ Prefixes(path) = Prefixes(f) \cup {path} /\ f \in Prefixes(f)
    <3> DEFINE l == Last(path)
    <3>1. f \in Seq(Steps) /\ l \in Steps /\ path = Append(f, l)
      BY <1>7, <2>1, FrontIs
    <3> HIDE DEF f, l
    <3>2. Prefixes(Append(f, l)) = Prefixes(f) \cup {Append(f, l)} /\ f \in Prefixes(f)
      BY <3>1, PrefixesAre
    <3> QED BY <3>1, <3>2
  <2>3. f \in DOMAIN target /\ Fits(Last(path), target[f])
    BY <2>1 DEF HasAbove
  <2> HIDE DEF f
  <2>4. CASE f \in DOMAIN patch
    <3>1. patch[f].is = "object" /\ target[f].is = "object"
      BY <1>4, <2>2, <2>4
    <3>2. f \in new
      BY <1>3, <2>4, <3>1
    <3>3. Fits(Last(path), r[f])
      BY <3>1, <3>2, <1>9, <2>3 DEF Fits
    <3> QED BY <2>1, <3>2, <3>3, <1>2 DEF HasAbove, f
  <2>5. CASE f \notin DOMAIN patch
    <3>1. f \in old
      BY <1>4, <1>5, <2>2, <2>3, <2>5
    <3> QED BY <2>1, <2>3, <3>1, <1>2, <1>10 DEF HasAbove, f
  <2> QED BY <2>4, <2>5
<1>15. ASSUME NEW path \in old PROVE HasItems(r, path)
  <2> SUFFICES ASSUME NEW i \in 1..target[path].items PROVE Append(path, Item(i)) \in old
    BY <1>2, <1>10 DEF HasItems
  <2> DEFINE y == Item(i)
             below == Append(path, y)
  <2>1. below \in DOMAIN target /\ y \in Steps /\ path \in Seq(Steps) /\ path \notin DOMAIN patch
    <3>1. target[path] \in Nodes
      BY <1>10
    <3> QED BY <3>1, <1>1, <1>6, <1>7, NodesAre, ItemsAre DEF HasItems
  <2> HIDE DEF y
  <2>2. Prefixes(below) = Prefixes(path) \cup {below} /\ below # <<>> /\ Front(below) = path
    BY <2>1, PrefixesAre, AppendIs
  <2> HIDE DEF below
  <2>3. below \notin DOMAIN patch
    BY <2>1, <2>2, <1>1 DEF HasAbove
  <2>4. below \in old
    BY <2>1, <2>2, <2>3, <1>4, <1>5
  <2> QED BY <2>4 DEF below, y
<1>16. IsJson(r, Words)
  <2>1. \A path \in DOMAIN r \ {<<>>} : HasAbove(r, path)
    BY <1>2, <1>12, <1>14
  <2>2. \A path \in DOMAIN r : HasItems(r, path)
    BY <1>2, <1>13, <1>15
  <2> QED BY <1>11, <2>1, <2>2, JsonIs
<1>17. Refs(r) \subseteq Refs(target) \cup Refs(patch)
  <2> SUFFICES ASSUME NEW path \in RefPaths(r)
               PROVE  \/ path \in RefPaths(target) /\ r[path] = target[path]
                      \/ path \in RefPaths(patch) /\ r[path] = patch[path]
    BY DEF Refs
  <2> QED BY <1>2, <1>6 DEF RefPaths
<1> QED
  BY <1>8, <1>16, <1>17 DEF r

-----------------------------------------------------------------------------
(* Keys and ids *)

LEMMA FlattenIs ==
  ASSUME NEW S, NEW seqs \in Seq(Seq(S))
  PROVE  FlattenSeq(seqs) \in Seq(S)
<1>1. Len(seqs) \in Nat
  OBVIOUS
<1>2. CASE Len(seqs) = 0
  <2>1. FlattenSeq(seqs) = seqs /\ seqs = <<>>
    BY <1>2 DEF FlattenSeq
  <2> QED BY <2>1
<1>3. CASE Len(seqs) # 0
  <2>1. PICK f : IsFlattening(f, seqs, S)
    BY <1>3, FlattenLoop
  <2> QED BY <1>1, <1>3, <2>1 DEF IsFlattening
<1> QED
  BY <1>2, <1>3

LEMMA JoinedIs ==
  ASSUME NEW S, NEW parts \in Seq(Seq(S)), NEW separator \in Seq(S)
  PROVE  Joined(parts, separator) \in Seq(S)
<1> DEFINE all == [i \in DOMAIN parts |-> IF i = 1 THEN parts[i] ELSE separator \o parts[i]]
<1>1. DOMAIN parts = 1..Len(parts) /\ Len(parts) \in Nat
  OBVIOUS
<1>2. \A i \in DOMAIN parts : all[i] \in Seq(S)
  OBVIOUS
<1>3. DOMAIN all = 1..Len(parts) /\ all = [i \in 1..Len(parts) |-> all[i]]
  BY <1>1
<1> HIDE DEF all
<1>4. all \in Seq(Seq(S))
  BY <1>1, <1>2, <1>3, MappedSeq
<1> QED
  BY <1>4, FlattenIs DEF Joined, all

LEMMA WordsAre ==
  /\ Names \subseteq Words
  /\ {"__ref", "null", "(", ":", ",", ")", "|"} \subseteq Words
BY DEF Words

LEMMA OneWord == ASSUME NEW word \in Words PROVE <<word>> \in Seq(Words)
OBVIOUS

LEMMA InBracketsIs ==
  ASSUME NEW parts \in Seq(Seq(Words))
  PROVE  InBrackets(parts) \in Seq(Words)
<1> DEFINE left == <<"(">>
           comma == <<",">>
           right == <<")">>
           j == Joined(parts, comma)
<1>1. "(" \in Words /\ "," \in Words /\ ")" \in Words
  BY DEF Words
<1>2. left \in Seq(Words) /\ comma \in Seq(Words) /\ right \in Seq(Words)
  BY <1>1, OneWord
<1> HIDE DEF left, comma, right
<1>3. j \in Seq(Words)
  BY <1>2, JoinedIs
<1> HIDE DEF j
<1>4. left \o j \o right \in Seq(Words) /\ <<>> \in Seq(Words)
  BY <1>2, <1>3
<1> QED
  BY <1>4 DEF InBrackets, left, comma, right, j

LEMMA FieldStoreKeyIs ==
  ASSUME NEW sel \in FieldsOver(SelectionSets),
         NEW variables, variables \in [DOMAIN variables -> Names]
  PROVE  LET step == Member(<<ResponseKey(sel)>>)
             key == StoreKey(sel, variables)
         IN /\ step \in Steps /\ key \in Seq(Words) /\ Member(key) \in Steps
            /\ Member(key) = Member(Member(key).key)
            /\ step # Reference => Member(key) # Reference
<1> DEFINE first == ResponseKey(sel)
           args == sel.args
           parts == [i \in DOMAIN args |->
                       <<args[i].name, ":", ArgumentValue(args[i], variables)>>]
           rest == InBrackets(parts)
<1>1. first \in Names /\ args \in Seq(Arguments)
  BY FieldIs DEF ResponseKey
<1>2. first \in Words /\ ":" \in Words
  BY <1>1 DEF Words
<1>3. \A i \in DOMAIN args : args[i].name \in Words /\ ArgumentValue(args[i], variables) \in Words
  <2> SUFFICES ASSUME NEW i \in DOMAIN args
               PROVE  args[i].name \in Words /\ ArgumentValue(args[i], variables) \in Words
    OBVIOUS
  <2>1. args[i] \in Arguments
    BY <1>1
  <2>2. args[i].name \in Names /\ args[i].value \in Names
    BY <2>1 DEF Arguments
  <2>3. ArgumentValue(args[i], variables) \in Names
    BY <2>2 DEF ArgumentValue
  <2> QED BY <2>2, <2>3, WordsAre
<1>4. parts \in Seq(Seq(Words))
  <2>1. DOMAIN args = 1..Len(args) /\ Len(args) \in Nat
    BY <1>1
  <2>2. \A i \in DOMAIN args : parts[i] \in Seq(Words)
    <3> SUFFICES ASSUME NEW i \in DOMAIN args PROVE parts[i] \in Seq(Words)
      OBVIOUS
    <3> DEFINE a == args[i].name
               b == ArgumentValue(args[i], variables)
    <3>1. a \in Words /\ b \in Words /\ parts[i] = <<a, ":", b>>
      BY <1>3
    <3> HIDE DEF a, b, parts
    <3>2. <<a, ":", b>> \in Seq(Words)
      BY <3>1, <1>2
    <3> QED BY <3>1, <3>2
  <2>3. DOMAIN parts = 1..Len(args) /\ parts = [i \in 1..Len(args) |-> parts[i]]
    BY <2>1
  <2> HIDE DEF parts
  <2> QED BY <2>1, <2>2, <2>3, MappedSeq
<1> HIDE DEF parts
<1>5. rest \in Seq(Words)
  BY <1>4, InBracketsIs
<1>6. StoreKey(sel, variables) = <<first>> \o rest
  BY DEF StoreKey, FieldStoreKey, parts
<1> HIDE DEF first, rest
<1> DEFINE key == <<first>> \o rest
<1>7. key \in Seq(Words) /\ key[1] = first /\ <<first>> \in Seq(Words)
  BY <1>2, <1>5
<1> HIDE DEF key
<1>8. Member(key) \in Steps /\ Member(<<first>>) \in Steps
  BY <1>7, ItemsAre
<1>9. Member(key) = Member(Member(key).key)
  BY DEF Member
<1>10. ASSUME Member(key) = Reference PROVE Member(<<first>>) = Reference
  <2>1. key = <<"__ref">>
    BY <1>10 DEF Member, Reference
  <2>2. first = "__ref"
    BY <1>7, <2>1
  <2> QED BY <2>2 DEF Reference
<1> QED
  BY <1>6, <1>7, <1>8, <1>9, <1>10 DEF key, first

LEMMA TypeNameOfIs ==
  ASSUME NEW v, IsTree(v), NEW at
  PROVE  TypeNameOf(v, at) \in Seq(Words)
<1>1. <<>> \in Seq(Words)
  OBVIOUS
<1>2. Append(at, Typename) \in DOMAIN v => v[Append(at, Typename)] \in Nodes
  BY DEF IsTree
<1> QED
  BY <1>1, <1>2, NodesAre DEF TypeNameOf

LEMMA EntityIdIs ==
  ASSUME NEW type \in Seq(Words), NEW v, IsTree(v), NEW at
  PROVE  EntityId(type, v, at) \in Seq(Words)
<1> DEFINE keys == KeyFieldsFor(type)
           parts == [i \in DOMAIN keys |-> KeyPart(keys[i], v, at)]
           colon == <<":">>
           bar == <<"|">>
           id == Joined(parts, bar)
<1>1. ":" \in Words /\ "|" \in Words /\ "null" \in Words
  BY DEF Words
<1>2. colon \in Seq(Words) /\ bar \in Seq(Words) /\ <<"null">> \in Seq(Words)
  BY <1>1, OneWord
<1>3. DOMAIN keys = 1..Len(keys) /\ Len(keys) \in Nat
  <2>1. CASE type \in DOMAIN TypePolicies
    <3>1. TypePolicies[type] \in Seq(Names)
      BY <2>1, PoliciesAssumption
    <3> QED BY <2>1, <3>1 DEF KeyFieldsFor
  <2>2. CASE type \notin DOMAIN TypePolicies
    BY <2>2 DEF KeyFieldsFor
  <2> QED BY <2>1, <2>2
<1> HIDE DEF keys, colon, bar
<1>4. \A i \in DOMAIN keys : parts[i] \in Seq(Words)
  <2> SUFFICES ASSUME NEW i \in DOMAIN keys PROVE KeyPart(keys[i], v, at) \in Seq(Words)
    OBVIOUS
  <2> DEFINE path == Append(at, Member(<<keys[i]>>))
  <2>1. KeyPart(keys[i], v, at) = IF path \in DOMAIN v THEN Dump(v[path]) ELSE <<>>
    BY DEF KeyPart
  <2> HIDE DEF path
  <2>2. path \in DOMAIN v => Dump(v[path]) \in Seq(Words)
    BY <1>2, NodesAre DEF Dump, IsTree
  <2> QED BY <2>1, <2>2
<1>5. DOMAIN parts = 1..Len(keys) /\ parts = [i \in 1..Len(keys) |-> parts[i]]
  BY <1>3
<1> HIDE DEF parts
<1>6. parts \in Seq(Seq(Words))
  BY <1>3, <1>4, <1>5, MappedSeq
<1>7. id \in Seq(Words)
  BY <1>2, <1>6, JoinedIs
<1> HIDE DEF id
<1>8. type \o colon \o id \in Seq(Words) /\ <<>> \in Seq(Words)
  BY <1>2, <1>7
<1> QED
  BY <1>8 DEF EntityId, keys, parts, colon, bar, id

-----------------------------------------------------------------------------
(* What a call of Normalize returns: a value whose references, and those of the *)
(* entities that it takes out, lead to entities that it takes out.              *)

Trees == UNION {[paths -> Nodes] : paths \in SUBSET Paths}
Entities == [id : Seq(Words), fields : {v \in Trees : IsJson(v, Words)}]
Ids(stored) == {stored[i].id : i \in DOMAIN stored}
StoredRefs(stored) == UNION {Refs(stored[i].fields) : i \in DOMAIN stored}

\* The results whose value has such a root, of which so many items are there.
Partial(is, items, n) ==
  {r \in [value : Trees, stored : Seq(Entities)] :
     /\ IsJsonUpTo(r.value, n) /\ r.value[<<>>].is = is /\ r.value[<<>>].items = items
     /\ Refs(r.value) \cup StoredRefs(r.stored) \subseteq Ids(r.stored)}
Full(node) == Partial(node.is, node.items, node.items)
Objects == Partial("object", 0, 0)

LEMMA TreesAre == \A v : v \in Trees <=> v \in [DOMAIN v -> Nodes] /\ DOMAIN v \subseteq Paths
BY DEF Trees

LEMMA PartialIs ==
  ASSUME NEW is, NEW items, NEW n, NEW value, NEW stored
  PROVE  Result(value, stored) \in Partial(is, items, n) <=>
           /\ IsJsonUpTo(value, n) /\ value[<<>>].is = is /\ value[<<>>].items = items
           /\ stored \in Seq(Entities)
           /\ Refs(value) \cup StoredRefs(stored) \subseteq Ids(stored)
<1>1. IsJsonUpTo(value, n) => value \in Trees
  BY TreesAre DEF IsJsonUpTo, IsTree
<1> QED
  BY <1>1 DEF Partial, Result

LEMMA ResultIs ==
  ASSUME NEW is, NEW items, NEW n, NEW r \in Partial(is, items, n)
  PROVE  /\ r = Result(r.value, r.stored) /\ IsTree(r.value)
         /\ IsJsonUpTo(r.value, n) /\ r.value[<<>>].is = is /\ r.value[<<>>].items = items
         /\ r.stored \in Seq(Entities)
         /\ Refs(r.value) \cup StoredRefs(r.stored) \subseteq Ids(r.stored)
BY DEF Partial, Result, IsJsonUpTo

LEMMA FullIs ==
  ASSUME NEW node, NEW r \in Full(node)
  PROVE  IsJson(r.value, Words)
<1>1. /\ IsTree(r.value) /\ IsJsonUpTo(r.value, node.items) /\ r.value[<<>>].items = node.items
  BY ResultIs DEF Full
<1> QED
  BY <1>1, JsonIs

LEMMA ObjectIs ==
  ASSUME NEW node \in Nodes, node.is = "object"
  PROVE  Full(node) = Objects
<1>1. node.items = 0
  BY NodesAre
<1> QED
  BY <1>1 DEF Full, Objects

LEMMA ObjectsAre ==
  ASSUME NEW value, NEW stored
  PROVE  Result(value, stored) \in Objects <=>
           /\ IsJson(value, Words) /\ value[<<>>].is = "object"
           /\ stored \in Seq(Entities)
           /\ Refs(value) \cup StoredRefs(stored) \subseteq Ids(stored)
<1>1. ASSUME IsTree(value), value[<<>>].is = "object" PROVE value[<<>>].items = 0
  <2>1. value[<<>>] \in Nodes
    BY <1>1 DEF IsTree
  <2> QED BY <2>1, <1>1, NodesAre
<1>2. IsJson(value, Words) => IsTree(value) /\ IsJsonUpTo(value, 0)
  BY JsonIs
<1>3. ASSUME IsJsonUpTo(value, 0), value[<<>>].items = 0 PROVE IsJson(value, Words)
  BY <1>3, JsonIs DEF IsJsonUpTo
<1> QED
  BY <1>1, <1>2, <1>3, PartialIs DEF Objects

LEMMA BothIs ==
  ASSUME NEW s \in Seq(Entities), NEW t \in Seq(Entities)
  PROVE  /\ On(s, t) \in Seq(Entities) /\ Ids(On(s, t)) = Ids(s) \cup Ids(t)
         /\ StoredRefs(On(s, t)) = StoredRefs(s) \cup StoredRefs(t)
<1> DEFINE b == s \o t
<1>1. b \in Seq(Entities) /\ Len(b) = Len(s) + Len(t) /\ Len(s) \in Nat /\ Len(t) \in Nat
  OBVIOUS
<1>2. DOMAIN s = 1..Len(s) /\ DOMAIN t = 1..Len(t) /\ DOMAIN b = 1..Len(b)
  BY <1>1
<1>3. \A i \in DOMAIN s : i \in DOMAIN b /\ b[i] = s[i]
  BY <1>1, <1>2
<1>4. \A i \in DOMAIN t : Len(s) + i \in DOMAIN b /\ b[Len(s) + i] = t[i]
  BY <1>1, <1>2
<1>5. ASSUME NEW i \in DOMAIN b
      PROVE  (\E j \in DOMAIN s : b[i] = s[j]) \/ (\E j \in DOMAIN t : b[i] = t[j])
  <2>1. CASE i <= Len(s)
    <3>1. i \in DOMAIN s
      BY <1>1, <1>2, <2>1
    <3> QED BY <3>1, <1>3
  <2>2. CASE i > Len(s)
    <3>1. i - Len(s) \in DOMAIN t /\ Len(s) + (i - Len(s)) = i
      BY <1>1, <1>2, <2>2
    <3>2. b[i] = t[i - Len(s)]
      BY <1>4, <3>1
    <3> QED BY <3>1, <3>2
  <2>3. i <= Len(s) \/ i > Len(s)
    BY <1>1, <1>2
  <2> QED BY <2>1, <2>2, <2>3
<1> HIDE DEF b
<1>6. \A e : (\E i \in DOMAIN b : e = b[i])
               <=> (\E i \in DOMAIN s : e = s[i]) \/ (\E i \in DOMAIN t : e = t[i])
  BY <1>3, <1>4, <1>5
<1>7. \A e : e \in Ids(b) <=> e \in Ids(s) \/ e \in Ids(t)
  BY <1>3, <1>4, <1>5 DEF Ids
<1>8. \A e : e \in StoredRefs(b) <=> e \in StoredRefs(s) \/ e \in StoredRefs(t)
  BY <1>6 DEF StoredRefs
<1> QED
  BY <1>1, <1>7, <1>8 DEF On, b

LEMMA AddedIs ==
  ASSUME NEW s \in Seq(Entities), NEW e \in Entities
  PROVE  /\ Append(s, e) \in Seq(Entities) /\ Ids(Append(s, e)) = Ids(s) \cup {e.id}
         /\ StoredRefs(Append(s, e)) = StoredRefs(s) \cup Refs(e.fields)
<1> DEFINE b == Append(s, e)
<1>1. b \in Seq(Entities) /\ Len(b) = Len(s) + 1 /\ Len(s) \in Nat
  OBVIOUS
<1>2. DOMAIN s = 1..Len(s) /\ DOMAIN b = 1..Len(b)
  BY <1>1
<1>3. (\A i \in DOMAIN s : i \in DOMAIN b /\ b[i] = s[i]) /\ Len(b) \in DOMAIN b /\ b[Len(b)] = e
  BY <1>1, <1>2
<1>4. \A i \in DOMAIN b : i = Len(b) \/ i \in DOMAIN s
  BY <1>1, <1>2
<1> HIDE DEF b
<1>5. \A x : x \in Ids(b) <=> x \in Ids(s) \/ x = e.id
  BY <1>3, <1>4 DEF Ids
<1>6. \A x : x \in StoredRefs(b) <=> x \in StoredRefs(s) \/ x \in Refs(e.fields)
  BY <1>3, <1>4 DEF StoredRefs
<1> QED
  BY <1>1, <1>5, <1>6 DEF b

LEMMA NoneStored ==
  /\ <<>> \in Seq(Entities) /\ Ids(<<>>) = {} /\ StoredRefs(<<>>) = {}
BY DEF Ids, StoredRefs

LEMMA JustResult ==
  ASSUME NEW node \in Nodes
  PROVE  /\ Result(Just(node), <<>>) \in Partial(node.is, node.items, 0)
         /\ node.is # "array" => Result(Just(node), <<>>) \in Full(node)
         /\ Refs(Just(node)) = {}
<1>1. Just(node)[<<>>] = node /\ IsJsonUpTo(Just(node), 0)
  BY JustIs
<1>2. Refs(Just(node)) = {}
  BY DEF Refs, RefPaths, Just
<1>3. node.is # "array" => node.items = 0
  BY NodesAre
<1>4. Result(Just(node), <<>>) \in Partial(node.is, node.items, 0)
  BY <1>1, <1>2, PartialIs, NoneStored
<1> QED
  BY <1>2, <1>3, <1>4 DEF Full

-----------------------------------------------------------------------------
(* Normalize, from the inside to the outside *)

\* A response that can be written, and what the calls for the values inside it give.
IsGiven(response) ==
  /\ IsResponse(response.data)
  /\ \A name \in DOMAIN response.fragments : response.fragments[name].set \in SelectionSets
  /\ response.variables \in [DOMAIN response.variables -> Names]
IsInside(inside, response) ==
  \A at \in DOMAIN response.data, set \in SelectionSets :
    inside[<<at, set>>] \in Full(response.data[at])

\* A response refers to nothing: its references are those that the cache makes.
LEMMA GivenIs ==
  ASSUME NEW response, IsGiven(response)
  PROVE  /\ IsJson(response.data, Words) /\ IsTree(response.data) /\ Refs(response.data) = {}
         /\ response.data[<<>>].is = "object"
         /\ \A at \in DOMAIN response.data :
              /\ at \in Seq(Steps) /\ response.data[at] \in Nodes
              /\ Result(Part(response.data, at), <<>>) \in Full(response.data[at])
<1> DEFINE data == response.data
<1>1. IsResponse(data)
  BY DEF IsGiven
<1> HIDE DEF data
<1>2. IsJson(data, Words) /\ IsTree(data) /\ Refs(data) = {} /\ data[<<>>].is = "object"
  BY <1>1, JsonIs DEF IsResponse, Refs, RefPaths
<1>3. ASSUME NEW at \in DOMAIN data
      PROVE  /\ at \in Seq(Steps) /\ data[at] \in Nodes
             /\ Result(Part(data, at), <<>>) \in Full(data[at])
  <2> DEFINE part == Part(data, at)
  <2>1. at \in Seq(Steps) /\ data[at] \in Nodes
    BY <1>2, PathsAre DEF IsTree
  <2>2. IsJson(part, Words) /\ part[<<>>] = data[at] /\ Refs(part) = {}
    BY <1>2, PartIs
  <2> HIDE DEF part
  <2>3. IsJsonUpTo(part, data[at].items)
    BY <2>2, JsonIs
  <2> DEFINE node == data[at]
  <2>4. /\ IsJsonUpTo(part, node.items)
        /\ part[<<>>].is = node.is /\ part[<<>>].items = node.items /\ Refs(part) = {}
    BY <2>2, <2>3
  <2> HIDE DEF node
  <2>5. Refs(part) \cup StoredRefs(<<>>) \subseteq Ids(<<>>)
    BY <2>4, NoneStored
  <2>6. Result(part, <<>>) \in Partial(node.is, node.items, node.items)
    BY <2>4, <2>5, PartialIs, NoneStored
  <2> QED BY <2>1, <2>6 DEF Full, part, node
<1> QED
  BY <1>2, <1>3 DEF data

LEMMA PutResult ==
  ASSUME NEW is, NEW items, NEW n \in Nat, NEW acc \in Partial(is, items, n),
         NEW step \in Steps, Fits(step, acc.value[<<>>]), step # Reference,
         NEW node, NEW r \in Full(node)
  PROVE  LET put == Result(Put(acc.value, step, r.value), acc.stored \o r.stored)
         IN /\ put \in Partial(is, items, n)
            /\ step = Item(n + 1) => put \in Partial(is, items, n + 1)
<1> DEFINE value == Put(acc.value, step, r.value)
           stored == On(acc.stored, r.stored)
<1>1. /\ IsTree(acc.value) /\ IsJsonUpTo(acc.value, n)
      /\ acc.value[<<>>].is = is /\ acc.value[<<>>].items = items
      /\ acc.stored \in Seq(Entities)
      /\ Refs(acc.value) \cup StoredRefs(acc.stored) \subseteq Ids(acc.stored)
  BY ResultIs
<1>2. /\ IsTree(r.value) /\ IsJson(r.value, Words) /\ r.stored \in Seq(Entities)
      /\ Refs(r.value) \cup StoredRefs(r.stored) \subseteq Ids(r.stored)
  BY FullIs, ResultIs DEF Full
<1>3. IsJsonUpTo(value, n) /\ (step = Item(n + 1) => IsJsonUpTo(value, n + 1))
  BY <1>1, <1>2, PutJson
<1>4. value[<<>>] = acc.value[<<>>]
  BY <1>1, <1>2, PutIs DEF IsPut
<1>5. Refs(value) \subseteq Refs(acc.value) \cup Refs(r.value)
  BY <1>1, <1>2, PutRefs
<1>6. /\ stored \in Seq(Entities) /\ Ids(stored) = Ids(acc.stored) \cup Ids(r.stored)
      /\ StoredRefs(stored) = StoredRefs(acc.stored) \cup StoredRefs(r.stored)
  BY <1>1, <1>2, BothIs
<1> HIDE DEF value, stored
<1>7. Refs(value) \cup StoredRefs(stored) \subseteq Ids(stored)
  BY <1>1, <1>2, <1>5, <1>6
<1>8. /\ Result(value, stored) \in Partial(is, items, n)
      /\ step = Item(n + 1) => Result(value, stored) \in Partial(is, items, n + 1)
  BY <1>1, <1>3, <1>4, <1>6, <1>7, PartialIs
<1> QED
  BY <1>8 DEF value, stored, On

LEMMA NormalizeFieldIs ==
  ASSUME NEW response, IsGiven(response), NEW at \in DOMAIN response.data,
         NEW inside, IsInside(inside, response),
         NEW sel \in FieldsOver(SelectionSets), NEW acc \in Objects
  PROVE  NormalizeField(acc, sel, at, response, inside) \in Objects
<1> DEFINE first == Member(<<ResponseKey(sel)>>)
           path == Append(at, first)
           key == StoreKey(sel, response.variables)
           n == IF sel.set = <<>> THEN Result(Part(response.data, path), <<>>)
                ELSE inside[<<path, sel.set>>]
<1>1. first \in Steps /\ Member(key) \in Steps /\ Member(key) = Member(Member(key).key)
      /\ (first # Reference => Member(key) # Reference)
  BY FieldStoreKeyIs DEF IsGiven
<1> HIDE DEF first, key
<1>2. NormalizeField(acc, sel, at, response, inside) =
        IF path \notin DOMAIN response.data THEN acc
        ELSE Result(Put(acc.value, Member(key), n.value), acc.stored \o n.stored)
  BY DEF NormalizeField, first, key
<1>3. CASE path \notin DOMAIN response.data
  BY <1>2, <1>3
<1>4. CASE path \in DOMAIN response.data
  <2>1. n \in Full(response.data[path])
    <3>1. sel.set \in SelectionSets
      BY FieldIs
    <3> QED BY <3>1, <1>4, GivenIs DEF IsInside
  <2>2. first # Reference
    <3>1. at \in Seq(Steps)
      BY GivenIs
    <3>2. path # <<>> /\ Last(path) = first
      BY <1>1, <3>1, AppendIs
    <3> QED BY <1>4, <3>2 DEF IsGiven, IsResponse
  <2>3. Fits(Member(key), acc.value[<<>>])
    <3>1. acc.value[<<>>].is = "object"
      BY ResultIs DEF Objects
    <3> QED BY <3>1, <1>1 DEF Fits
  <2> HIDE DEF n
  <2>4. Result(Put(acc.value, Member(key), n.value), acc.stored \o n.stored) \in Objects
    <3> DEFINE step == Member(key)
               node == response.data[path]
    <3>1. step \in Steps /\ step # Reference /\ Fits(step, acc.value[<<>>]) /\ n \in Full(node)
      BY <1>1, <2>1, <2>2, <2>3
    <3> HIDE DEF step, node
    <3>2. 0 \in Nat /\ acc \in Partial("object", 0, 0)
      BY DEF Objects
    <3>3. Result(Put(acc.value, step, n.value), acc.stored \o n.stored) \in Partial("object", 0, 0)
      BY <3>1, <3>2, PutResult
    <3> QED BY <3>3 DEF Objects, step
  <2> QED BY <1>2, <1>4, <2>4
<1> QED BY <1>3, <1>4

LEMMA NormalizeFragmentIs ==
  ASSUME NEW response, IsGiven(response), NEW at \in DOMAIN response.data,
         response.data[at].is = "object", NEW inside, IsInside(inside, response),
         NEW sel \in SelectionsOver(SelectionSets), ~IsField(sel), NEW acc \in Objects
  PROVE  NormalizeFragment(acc, sel, at, response, inside) \in Objects
<1> DEFINE type == TypeNameOf(response.data, at)
           set == Inner(sel, response.fragments)
           n == inside[<<at, set>>]
<1>1. CASE Applies(sel, type, response.fragments)
  <2>1. set \in SelectionSets
    <3>1. CASE IsSpread(sel)
      BY <1>1, <3>1 DEF Applies, Inner, IsGiven
    <3>2. CASE ~IsSpread(sel)
      BY <3>2, SelectionIs DEF Inner
    <3> QED BY <3>1, <3>2
  <2>2. n \in Objects
    <3>1. response.data[at] \in Nodes
      BY GivenIs
    <3>2. n \in Full(response.data[at])
      BY <2>1 DEF IsInside
    <3> QED BY <3>1, <3>2, ObjectIs
  <2> HIDE DEF n
  <2> DEFINE value == MergePatch(acc.value, n.value)
             stored == On(acc.stored, n.stored)
  <2>3. ASSUME NEW r \in Objects
        PROVE  /\ IsJson(r.value, Words) /\ r.value[<<>>].is = "object"
               /\ r.stored \in Seq(Entities)
               /\ Refs(r.value) \cup StoredRefs(r.stored) \subseteq Ids(r.stored)
    BY ResultIs, ObjectsAre DEF Objects
  <2>4. /\ IsJson(value, Words) /\ value[<<>>] = n.value[<<>>]
        /\ Refs(value) \subseteq Refs(acc.value) \cup Refs(n.value)
    BY <2>2, <2>3, MergeIs
  <2>5. /\ stored \in Seq(Entities) /\ Ids(stored) = Ids(acc.stored) \cup Ids(n.stored)
        /\ StoredRefs(stored) = StoredRefs(acc.stored) \cup StoredRefs(n.stored)
    BY <2>2, <2>3, BothIs
  <2> HIDE DEF value, stored
  <2>6. Refs(value) \cup StoredRefs(stored) \subseteq Ids(stored)
    BY <2>2, <2>3, <2>4, <2>5
  <2>7. Result(value, stored) \in Objects
    BY <2>2, <2>3, <2>4, <2>5, <2>6, ObjectsAre
  <2>8. NormalizeFragment(acc, sel, at, response, inside) = Result(value, stored)
    BY <1>1 DEF NormalizeFragment, value, stored, n, On
  <2> QED BY <2>7, <2>8
<1>2. CASE ~Applies(sel, type, response.fragments)
  BY <1>2 DEF NormalizeFragment
<1> QED BY <1>1, <1>2

LEMMA NormalizeSelectionIs ==
  ASSUME NEW response, IsGiven(response), NEW at \in DOMAIN response.data,
         response.data[at].is = "object", NEW inside, IsInside(inside, response),
         NEW sel \in SelectionsOver(SelectionSets), NEW acc \in Objects
  PROVE  NormalizeSelection(acc, sel, at, response, inside) \in Objects
<1>1. CASE IsField(sel)
  <2>1. sel \in FieldsOver(SelectionSets)
    BY <1>1, SpreadIs, InlineIs DEF SelectionsOver
  <2> QED BY <1>1, <2>1, NormalizeFieldIs DEF NormalizeSelection
<1>2. CASE ~IsField(sel)
  BY <1>2, NormalizeFragmentIs DEF NormalizeSelection
<1> QED BY <1>1, <1>2

LEMMA NormalizeSelectionsIs ==
  ASSUME NEW response, IsGiven(response), NEW at \in DOMAIN response.data,
         response.data[at].is = "object", NEW inside, IsInside(inside, response),
         NEW set \in Seq(SelectionsOver(SelectionSets))
  PROVE  NormalizeSelections(at, set, response, inside)[Len(set)] \in Objects
<1> DEFINE base == Result(Just(AnObject), <<>>)
           Is(f) == f = [n \in 0..Len(set) |->
                           IF n = 0 THEN base
                           ELSE NormalizeSelection(f[n - 1], set[n], at, response, inside)]
           next == [n \in 1..Len(set) |->
                      [acc \in Objects |->
                         NormalizeSelection(acc, set[n], at, response, inside)]]
           loop == NormalizeSelections(at, set, response, inside)
<1>0. Len(set) \in Nat /\ \A n \in 1..Len(set) : set[n] \in SelectionsOver(SelectionSets)
  OBVIOUS
<1>1. base \in Objects
  <2>1. AnObject \in Nodes /\ AnObject.is = "object" /\ AnObject.items = 0
    BY DEF AnObject, Node, Nodes, NodesOver
  <2> QED BY <2>1, JustResult DEF Objects
<1> HIDE DEF base
<1>2. next \in [1..Len(set) -> [Objects -> Objects]]
  BY <1>0, NormalizeSelectionIs
<1>3. PICK f : IsLoop(f, Len(set), Objects, base, next)
  <2> HIDE DEF next
  <2> QED BY <1>0, <1>1, <1>2, LoopExists
<1>4. Is(f)
  <2>1. ASSUME NEW n \in 1..Len(set)
        PROVE  f[n] = NormalizeSelection(f[n - 1], set[n], at, response, inside)
    <3>1. f[n] = next[n][f[n - 1]] /\ f[n - 1] \in Objects
      BY <1>0, <1>3 DEF IsLoop
    <3> QED BY <3>1
  <2> QED BY <1>3, <2>1 DEF IsLoop
<1>5. loop = CHOOSE g : Is(g)
  BY DEF NormalizeSelections, Running, base
<1> HIDE DEF loop
<1>6. Is(loop)
  <2> HIDE DEF Is
  <2> QED BY <1>4, <1>5
<1>7. loop = [n \in 0..Len(set) |-> loop[n]] /\ loop[0] = base
  BY <1>0, <1>6
<1>8. ASSUME NEW n \in 1..Len(set), loop[n - 1] \in Objects PROVE loop[n] = next[n][loop[n - 1]]
  BY <1>6, <1>8
<1>9. IsLoop(loop, Len(set), Objects, base, next)
  <2> HIDE DEF next, Is
  <2> QED BY <1>0, <1>1, <1>2, <1>7, <1>8, LoopType
<1>10. loop[Len(set)] \in Objects
  BY <1>0, <1>9 DEF IsLoop
<1> QED
  BY <1>10 DEF loop

\* A reference to an entity that was just taken out leads to it.
LEMMA TakeOutIs ==
  ASSUME NEW id \in Seq(Words), NEW value, NEW stored, Result(value, stored) \in Objects
  PROVE  TakeOut(id, value, stored) \in Objects
<1> DEFINE e == Entity(id, value)
           all == Append(stored, e)
           ref == Ref(id)
<1>1. /\ IsJson(value, Words) /\ stored \in Seq(Entities)
      /\ Refs(value) \cup StoredRefs(stored) \subseteq Ids(stored)
  BY ObjectsAre
<1>2. e \in Entities /\ e.id = id /\ e.fields = value
  <2>1. value \in Trees
    BY <1>1, JsonIs, TreesAre DEF IsTree
  <2> QED BY <1>1, <2>1 DEF Entity, Entities
<1>3. /\ all \in Seq(Entities) /\ Ids(all) = Ids(stored) \cup {id}
      /\ StoredRefs(all) = StoredRefs(stored) \cup Refs(value)
  BY <1>1, <1>2, AddedIs
<1>4. IsJson(ref, Words) /\ ref[<<>>].is = "object" /\ Refs(ref) \subseteq {id}
  <2> DEFINE root == Just(AnObject)
             part == Just(AText(id))
             step == Reference
  <2>1. AnObject \in Nodes /\ AText(id) \in Nodes /\ AnObject.is = "object"
        /\ AnObject.items = 0 /\ AText(id).items = 0 /\ AText(id).text = id
    BY DEF AnObject, AText, Node, Nodes, NodesOver
  <2>2. /\ IsJsonUpTo(root, 0) /\ root[<<>>] = AnObject /\ IsTree(root) /\ DOMAIN root = {<<>>}
        /\ IsJson(part, Words) /\ part[<<>>] = AText(id) /\ IsTree(part) /\ DOMAIN part = {<<>>}
    BY <2>1, JustIs, JsonIs
  <2>3. step \in Steps /\ step = Member(step.key)
    <3>1. "__ref" \in Words
      BY DEF Words
    <3>2. <<"__ref">> \in Seq(Words)
      BY <3>1, OneWord
    <3> QED BY <3>2, ItemsAre DEF Reference, Member
  <2>4. Fits(step, root[<<>>])
    BY <2>1, <2>2, <2>3 DEF Fits
  <2> HIDE DEF root, part, step
  <2>5. IsJson(Put(root, step, part), Words)
    BY <2>1, <2>2, <2>3, <2>4, PutJson
  <2>6. IsPut(Put(root, step, part), root, step, part)
    BY <2>2, <2>3, PutIs
  <2>7. ref = Put(root, step, part)
    BY DEF Ref, root, part, step
  <2> HIDE DEF ref
  <2>8. DOMAIN ref \subseteq Paths /\ ref[<<>>] = AnObject
    BY <2>2, <2>6, <2>7 DEF IsPut, IsTree
  <2>9. ASSUME NEW path \in DOMAIN ref \ {<<>>} PROVE ref[path].text = id
    <3>1. Begins(path, step)
      BY <2>2, <2>6, <2>7, <2>8, <2>9 DEF IsPut
    <3>2. Tail(path) = <<>> /\ ref[path] = part[Tail(path)]
      BY <2>2, <2>6, <2>7, <2>8, <2>9, <3>1 DEF IsPut
    <3> QED BY <3>2, <2>1, <2>2
  <2>10. Refs(ref) \subseteq {id}
    BY <2>9 DEF Refs, RefPaths
  <2> QED BY <2>1, <2>5, <2>7, <2>8, <2>10
<1> HIDE DEF e, all, ref
<1>5. Refs(ref) \cup StoredRefs(all) \subseteq Ids(all)
  BY <1>1, <1>3, <1>4
<1>6. Result(ref, all) \in Objects
  BY <1>3, <1>4, <1>5, ObjectsAre
<1> QED
  BY <1>6 DEF TakeOut, ref, all, e

LEMMA NormalizeObjectIs ==
  ASSUME NEW response, IsGiven(response), NEW at \in DOMAIN response.data,
         response.data[at].is = "object", NEW inside, IsInside(inside, response),
         NEW set \in SelectionSets
  PROVE  NormalizeObject(at, set, response, inside) \in Objects
<1> DEFINE all == NormalizeSelections(at, set, response, inside)[Len(set)]
           type == TypeNameOf(response.data, at)
           value == IF type = <<>> THEN all.value ELSE Put(all.value, Typename, Just(AText(type)))
           id == EntityId(type, response.data, at)
<1>1. all \in Objects
  BY SetIs, NormalizeSelectionsIs
<1>2. type \in Seq(Words) /\ id \in Seq(Words)
  BY GivenIs, TypeNameOfIs, EntityIdIs
<1> HIDE DEF all, type, id
<1>3. Result(value, all.stored) \in Objects
  <2>1. CASE type = <<>>
    <3>1. all = Result(all.value, all.stored)
      BY <1>1, ResultIs DEF Objects
    <3> QED BY <1>1, <2>1, <3>1
  <2>2. CASE type # <<>>
    <3> DEFINE node == AText(type)
               step == Typename
    <3>1. node \in Nodes /\ node.is = "text"
      BY <1>2 DEF AText, Node, Nodes, NodesOver
    <3>2. step \in Steps /\ step = Member(step.key) /\ step # Reference
      <4>1. "__typename" \in Words
        BY NamesAssumption DEF Words
      <4>2. <<"__typename">> \in Seq(Words)
        BY <4>1, OneWord
      <4> QED BY <4>2, ItemsAre DEF Typename, Reference, Member
    <3>3. Fits(step, all.value[<<>>])
      BY <1>1, <3>2, ResultIs DEF Objects, Fits
    <3> DEFINE r == Result(Just(node), <<>>)
    <3> HIDE DEF node, step
    <3>4. r \in Full(node) /\ r.value = Just(node) /\ r.stored = <<>>
      BY <3>1, JustResult DEF Result
    <3> HIDE DEF r
    <3>5. all \in Partial("object", 0, 0) /\ 0 \in Nat /\ all.stored \in Seq(Entities)
      BY <1>1, ResultIs DEF Objects
    <3>6. Result(Put(all.value, step, r.value), all.stored \o r.stored) \in Partial("object", 0, 0)
      BY <3>2, <3>3, <3>4, <3>5, PutResult
    <3>7. all.stored \o r.stored = all.stored
      BY <3>4, <3>5
    <3> QED BY <2>2, <3>4, <3>6, <3>7 DEF Objects, node, step
  <2> QED BY <2>1, <2>2
<1> HIDE DEF value
<1>4. TakeOut(id, value, all.stored) \in Objects
  BY <1>2, <1>3, TakeOutIs
<1> QED
  BY <1>3, <1>4 DEF NormalizeObject, all, type, id, value

LEMMA NormalizeItemIs ==
  ASSUME NEW response, IsGiven(response), NEW at \in DOMAIN response.data,
         response.data[at].is = "array", NEW inside, IsInside(inside, response),
         NEW set \in SelectionSets, NEW i \in 1..response.data[at].items,
         NEW acc \in Partial("array", response.data[at].items, i - 1)
  PROVE  NormalizeItem(acc, i, at, set, inside) \in Partial("array", response.data[at].items, i)
<1> DEFINE items == response.data[at].items
           path == Append(at, Item(i))
           step == Item(i)
           node == response.data[path]
           r == inside[<<path, set>>]
<1>1. items \in Nat /\ i - 1 \in Nat /\ (i - 1) + 1 = i /\ i \in 1..items
  <2>1. response.data[at] \in Nodes
    BY GivenIs
  <2> QED BY <2>1, NodesAre
<1>2. path \in DOMAIN response.data
  BY GivenIs, JsonIs DEF HasItems
<1>3. r \in Full(node)
  BY <1>2 DEF IsInside
<1>4. step \in Steps /\ step # Reference
  BY <1>1, ItemsAre
<1> HIDE DEF items, node, r
<1>5. acc \in Partial("array", items, i - 1)
  BY DEF items
<1>6. Fits(step, acc.value[<<>>])
  <2>1. acc.value[<<>>].is = "array" /\ acc.value[<<>>].items = items
    BY <1>5, ResultIs
  <2> QED BY <2>1, <1>1 DEF Fits
<1>7. step = Item((i - 1) + 1)
  BY <1>1
<1> HIDE DEF step
<1>8. Result(Put(acc.value, step, r.value), acc.stored \o r.stored)
        \in Partial("array", items, (i - 1) + 1)
  BY <1>1, <1>3, <1>4, <1>5, <1>6, <1>7, PutResult
<1> QED
  BY <1>1, <1>8 DEF NormalizeItem, items, r, step

LEMMA NormalizeItemsIs ==
  ASSUME NEW response, IsGiven(response), NEW at \in DOMAIN response.data,
         response.data[at].is = "array", NEW inside, IsInside(inside, response),
         NEW set \in SelectionSets
  PROVE  LET node == response.data[at]
         IN NormalizeItems(at, set, node.items, inside)[node.items] \in Full(node)
<1> DEFINE items == response.data[at].items
           base == Result(Just(AnArray(items)), <<>>)
           numbers == [i \in 1..items |-> i]
           Is(f) == f = [n \in 0..items |->
                           IF n = 0 THEN base
                           ELSE NormalizeItem(f[n - 1], n, at, set, inside)]
           A == [n \in 0..items |-> Partial("array", items, n)]
           next == [n \in 1..items |->
                      [acc \in Partial("array", items, n - 1) |->
                         NormalizeItem(acc, n, at, set, inside)]]
           loop == NormalizeItems(at, set, items, inside)
<1>0. items \in Nat
  <2>1. response.data[at] \in Nodes
    BY GivenIs
  <2> QED BY <2>1, NodesAre
<1>i. \A n \in 1..items : \A acc \in Partial("array", items, n - 1) :
        NormalizeItem(acc, n, at, set, inside) \in Partial("array", items, n)
  BY NormalizeItemIs
<1> HIDE DEF items
<1>1. base \in A[0]
  <2>1. AnArray(items) \in Nodes /\ AnArray(items).is = "array" /\ AnArray(items).items = items
    <3>1. <<>> \in Seq(Words)
      OBVIOUS
    <3> QED BY <1>0, <3>1 DEF AnArray, Node, Nodes, NodesOver
  <2>2. base \in Partial("array", items, 0)
    BY <2>1, JustResult
  <2> HIDE DEF base
  <2> QED BY <2>2, <1>0
<1> HIDE DEF base
<1>2. \A n \in 1..items : next[n] \in [A[n - 1] -> A[n]]
  <2> SUFFICES ASSUME NEW n \in 1..items PROVE next[n] \in [A[n - 1] -> A[n]]
    OBVIOUS
  <2>1. A[n - 1] = Partial("array", items, n - 1) /\ A[n] = Partial("array", items, n)
    BY <1>0
  <2> QED BY <1>i, <2>1
<1>3. PICK f : IsRounds(f, items, A, base, next)
  <2> HIDE DEF next, A
  <2> QED BY <1>0, <1>1, <1>2, RoundsExist
<1>4. Is(f)
  <2>1. ASSUME NEW n \in 1..items PROVE f[n] = NormalizeItem(f[n - 1], n, at, set, inside)
    <3>1. f[n] = next[n][f[n - 1]] /\ n - 1 \in 0..items
      <4>1. n - 1 \in 0..items
        BY <1>0
      <4> HIDE DEF A, next
      <4>2. \A i \in 1..items : f[i] = next[i][f[i - 1]]
        BY <1>3 DEF IsRounds
      <4> QED BY <4>1, <4>2
    <3>2. f[n - 1] \in A[n - 1]
      <4> HIDE DEF A, next
      <4> QED BY <3>1, <1>3 DEF IsRounds
    <3>3. f[n - 1] \in Partial("array", items, n - 1)
      BY <3>1, <3>2
    <3> QED BY <3>1, <3>3
  <2> HIDE DEF A, next
  <2>2. f = [n \in 0..items |-> f[n]] /\ f[0] = base
    BY <1>3 DEF IsRounds
  <2>3. \A n \in 0..items : n # 0 => n \in 1..items
    BY <1>0
  <2> QED BY <2>1, <2>2, <2>3
<1>5. loop = CHOOSE g : Is(g)
  <2>1. Len(numbers) = items /\ \A n \in 1..items : numbers[n] = n
    BY <1>0
  <2>2. ASSUME NEW g
        PROVE  Is(g) <=> g = [n \in 0..Len(numbers) |->
                                IF n = 0 THEN base
                                ELSE NormalizeItem(g[n - 1], numbers[n], at, set, inside)]
    <3> HIDE DEF numbers
    <3>1. \A n \in 0..items : n # 0 => numbers[n] = n
      BY <2>1
    <3> QED BY <2>1, <3>1
  <2>3. loop = CHOOSE g : g = [n \in 0..Len(numbers) |->
                                IF n = 0 THEN base
                                ELSE NormalizeItem(g[n - 1], numbers[n], at, set, inside)]
    BY DEF NormalizeItems, Running, base
  <2> HIDE DEF Is, numbers, loop
  <2> QED BY <2>2, <2>3
<1> HIDE DEF loop
<1>6. Is(loop)
  <2> HIDE DEF Is
  <2> QED BY <1>4, <1>5
<1>7. loop = [n \in 0..items |-> loop[n]] /\ loop[0] = base
  BY <1>0, <1>6
<1>8. ASSUME NEW n \in 1..items, loop[n - 1] \in A[n - 1] PROVE loop[n] = next[n][loop[n - 1]]
  <2>1. A[n - 1] = Partial("array", items, n - 1)
    BY <1>0
  <2>2. loop[n] = NormalizeItem(loop[n - 1], n, at, set, inside)
    BY <1>0, <1>6
  <2> HIDE DEF A
  <2> QED BY <1>8, <2>1, <2>2
<1>9. IsRounds(loop, items, A, base, next)
  <2> HIDE DEF next, Is, A
  <2> QED BY <1>0, <1>1, <1>2, <1>7, <1>8, RoundsType
<1>10. loop[items] \in Partial("array", items, items)
  <2>1. items \in 0..items
    BY <1>0
  <2>2. loop[items] \in A[items]
    <3> HIDE DEF A, next
    <3> QED BY <2>1, <1>9 DEF IsRounds
  <2> QED BY <2>1, <2>2
<1> QED
  BY <1>10 DEF loop, items, Full

LEMMA NormalizeValueIs ==
  ASSUME NEW response, IsGiven(response), NEW at \in DOMAIN response.data,
         NEW inside, IsInside(inside, response), NEW set \in SelectionSets
  PROVE  NormalizeValue(at, set, response, inside) \in Full(response.data[at])
<1> DEFINE node == response.data[at]
<1>1. node \in Nodes
  BY GivenIs
<1>2. CASE node.is = "object"
  <2>1. NormalizeObject(at, set, response, inside) \in Objects
    BY <1>2, NormalizeObjectIs
  <2> QED BY <1>1, <1>2, <2>1, ObjectIs DEF NormalizeValue
<1>3. CASE node.is = "array"
  <2>1. NormalizeItems(at, set, node.items, inside)[node.items] \in Full(node)
    BY <1>3, NormalizeItemsIs
  <2> QED BY <1>3, <2>1 DEF NormalizeValue
<1>4. CASE node.is # "object" /\ node.is # "array"
  <2>1. Result(Just(node), <<>>) \in Full(node)
    BY <1>1, <1>4, JustResult
  <2> QED BY <1>4, <2>1 DEF NormalizeValue
<1> QED BY <1>2, <1>3, <1>4

LEMMA NormalizeWithinIs ==
  ASSUME NEW response, IsGiven(response)
  PROVE  /\ MaxCalls \in 0..MaxCalls
         /\ \A calls \in 0..MaxCalls : IsInside(NormalizeWithin(response)[calls], response)
<1> DEFINE Places == (DOMAIN response.data) \X SelectionSets
           Inside == {f \in [Places -> UNION {Full(response.data[at]) : at \in DOMAIN response.data}] :
                        IsInside(f, response)}
           base == [place \in Places |-> Result(Part(response.data, place[1]), <<>>)]
           Is(f) == f = [calls \in 0..MaxCalls |-> [place \in Places |->
                           IF calls = 0 THEN Result(Part(response.data, place[1]), <<>>)
                           ELSE NormalizeValue(place[1], place[2], response, f[calls - 1])]]
           next == [calls \in 1..MaxCalls |-> [inside \in Inside |-> [place \in Places |->
                      NormalizeValue(place[1], place[2], response, inside)]]]
           loop == NormalizeWithin(response)
<1>0. MaxCalls \in Nat /\ MaxCalls \in 0..MaxCalls
  BY CallsAssumption
<1>in. ASSUME NEW f, f = [place \in Places |-> f[place]],
              \A at \in DOMAIN response.data, set \in SelectionSets :
                f[<<at, set>>] \in Full(response.data[at])
       PROVE  f \in Inside
  <2>1. \A place \in Places : f[place] \in UNION {Full(response.data[at]) : at \in DOMAIN response.data}
    BY <1>in
  <2> QED BY <1>in, <2>1 DEF IsInside
<1>1. base \in Inside
  <2>1. base = [place \in Places |-> base[place]]
    OBVIOUS
  <2>2. \A at \in DOMAIN response.data, set \in SelectionSets :
          base[<<at, set>>] \in Full(response.data[at])
    BY GivenIs
  <2> HIDE DEF base, Inside
  <2> QED BY <2>1, <2>2, <1>in
<1>2. next \in [1..MaxCalls -> [Inside -> Inside]]
  <2> SUFFICES ASSUME NEW calls \in 1..MaxCalls, NEW inside \in Inside
               PROVE  [place \in Places |-> NormalizeValue(place[1], place[2], response, inside)]
                        \in Inside
    OBVIOUS
  <2> DEFINE f == [place \in Places |-> NormalizeValue(place[1], place[2], response, inside)]
  <2>1. IsInside(inside, response)
    OBVIOUS
  <2>2. f = [place \in Places |-> f[place]]
    OBVIOUS
  <2>3. \A at \in DOMAIN response.data, set \in SelectionSets :
          f[<<at, set>>] \in Full(response.data[at])
    BY <2>1, NormalizeValueIs
  <2> HIDE DEF f, Inside
  <2>4. f \in Inside
    BY <2>2, <2>3, <1>in
  <2> QED BY <2>4 DEF f
<1>3. PICK f : IsLoop(f, MaxCalls, Inside, base, next)
  <2> HIDE DEF next, Inside, base
  <2> QED BY <1>0, <1>1, <1>2, LoopExists
<1>4. Is(f)
  <2>1. ASSUME NEW calls \in 1..MaxCalls
        PROVE  f[calls] = [place \in Places |->
                             NormalizeValue(place[1], place[2], response, f[calls - 1])]
    <3>1. f[calls] = next[calls][f[calls - 1]] /\ f[calls - 1] \in Inside
      <4> HIDE DEF next, Inside, base
      <4> QED BY <1>0, <1>3 DEF IsLoop
    <3> HIDE DEF Inside, Places
    <3> QED BY <3>1
  <2>2. f = [calls \in 0..MaxCalls |-> f[calls]] /\ f[0] = base
    <3> HIDE DEF next, Inside, base
    <3> QED BY <1>0, <1>3 DEF IsLoop
  <2>3. ASSUME NEW calls \in 0..MaxCalls
        PROVE  f[calls] = [place \in Places |->
                           IF calls = 0 THEN Result(Part(response.data, place[1]), <<>>)
                           ELSE NormalizeValue(place[1], place[2], response, f[calls - 1])]
    <3>1. CASE calls = 0
      BY <2>2, <3>1
    <3>2. CASE calls # 0
      <4>1. calls \in 1..MaxCalls
        BY <3>2, <1>0
      <4> QED BY <2>1, <3>2, <4>1
    <3> QED BY <3>1, <3>2
  <2> HIDE DEF Places
  <2> QED BY <2>2, <2>3
<1>5. loop = CHOOSE g : Is(g)
  BY DEF NormalizeWithin
<1> HIDE DEF loop
<1>6. Is(loop)
  <2> HIDE DEF Is
  <2> QED BY <1>4, <1>5
<1>7. loop = [calls \in 0..MaxCalls |-> loop[calls]] /\ loop[0] = base
  <2> HIDE DEF Places
  <2> QED BY <1>0, <1>6
<1>8. ASSUME NEW calls \in 1..MaxCalls, loop[calls - 1] \in Inside
      PROVE  loop[calls] = next[calls][loop[calls - 1]]
  <2> HIDE DEF Places, Inside
  <2>1. calls \in 0..MaxCalls /\ calls # 0
    BY <1>0
  <2>2. loop[calls] = [place \in Places |->
                           IF calls = 0 THEN Result(Part(response.data, place[1]), <<>>)
                           ELSE NormalizeValue(place[1], place[2], response, loop[calls - 1])]
    BY <2>1, <1>6
  <2>3. loop[calls] = [place \in Places |->
                         NormalizeValue(place[1], place[2], response, loop[calls - 1])]
    BY <2>1, <2>2
  <2> QED BY <1>8, <2>3
<1>9. IsLoop(loop, MaxCalls, Inside, base, next)
  <2> HIDE DEF next, Is, Inside, base
  <2> QED BY <1>0, <1>1, <1>2, <1>7, <1>8, LoopType
<1>10. \A calls \in 0..MaxCalls : loop[calls] \in Inside
  <2> HIDE DEF next, Is, Inside, base
  <2> QED BY <1>9 DEF IsLoop
<1> QED
  BY <1>0, <1>10 DEF loop

LEMMA NormalizeIs ==
  ASSUME NEW response, IsGiven(response), NEW set \in SelectionSets
  PROVE  Normalize(response, set) \in Objects
<1>1. <<>> \in DOMAIN response.data /\ response.data[<<>>].is = "object" /\ response.data[<<>>] \in Nodes
  BY GivenIs DEF IsTree
<1> DEFINE r == NormalizeWithin(response)[MaxCalls][<< <<>>, set>>]
<1>2. r \in Full(response.data[<<>>])
  BY <1>1, NormalizeWithinIs DEF IsInside
<1>3. r \in Objects
  BY <1>1, <1>2, ObjectIs
<1> QED
  BY <1>1, <1>3 DEF Normalize

-----------------------------------------------------------------------------
(* The store *)

\* The stores that have entities under these ids and refer to those only.
Stores(ids, to) ==
  {store \in UNION {[of -> {v \in Trees : IsJson(v, Words)}] : of \in SUBSET Seq(Words)} :
     DOMAIN store = ids /\ \A id \in ids : Refs(store[id]) \subseteq to}

LEMMA StoresAre ==
  ASSUME NEW ids \in SUBSET Seq(Words), NEW to, NEW store
  PROVE  store \in Stores(ids, to) <=>
           /\ store = [id \in ids |-> store[id]]
           /\ \A id \in ids : IsJson(store[id], Words) /\ Refs(store[id]) \subseteq to
<1> DEFINE json == {v \in Trees : IsJson(v, Words)}
<1>1. \A v : v \in json <=> IsJson(v, Words)
  BY JsonIs, TreesAre DEF IsTree
<1>2. Stores(ids, to) = {s \in UNION {[of -> json] : of \in SUBSET Seq(Words)} :
                           DOMAIN s = ids /\ \A id \in ids : Refs(s[id]) \subseteq to}
  BY DEF Stores
<1> HIDE DEF json
<1>3. ASSUME store \in Stores(ids, to)
      PROVE  /\ store = [id \in ids |-> store[id]]
             /\ \A id \in ids : IsJson(store[id], Words) /\ Refs(store[id]) \subseteq to
  <2>1. /\ store \in UNION {[of -> json] : of \in SUBSET Seq(Words)}
        /\ DOMAIN store = ids /\ \A id \in ids : Refs(store[id]) \subseteq to
    BY <1>2, <1>3
  <2>2. store \in [ids -> json]
    BY <2>1
  <2> QED BY <2>1, <2>2, <1>1
<1>4. ASSUME store = [id \in ids |-> store[id]],
             \A id \in ids : IsJson(store[id], Words) /\ Refs(store[id]) \subseteq to
      PROVE  store \in Stores(ids, to)
  <2>1. store \in [ids -> json] /\ DOMAIN store = ids
    BY <1>1, <1>4
  <2> QED BY <1>2, <1>4, <2>1
<1> QED
  BY <1>3, <1>4

LEMMA StoreEntityIs ==
  ASSUME NEW ids \in SUBSET Seq(Words), NEW to, NEW store \in Stores(ids, to),
         NEW e \in Entities, Refs(e.fields) \subseteq to
  PROVE  StoreEntity(store, e.id, e.fields) \in Stores(ids \cup {e.id}, to)
<1> DEFINE new == StoreEntity(store, e.id, e.fields)
           id == e.id
           fields == e.fields
<1>1. id \in Seq(Words) /\ IsJson(fields, Words) /\ Refs(fields) \subseteq to
  BY DEF Entities
<1>2. /\ store = [i \in ids |-> store[i]]
      /\ \A i \in ids : IsJson(store[i], Words) /\ Refs(store[i]) \subseteq to
  BY StoresAre
<1> HIDE DEF id, fields
<1>3. new = [i \in ids \cup {id} |->
               IF i # id THEN store[i]
               ELSE IF id \in ids THEN MergePatch(store[id], fields) ELSE fields]
  <2>1. DOMAIN store = ids
    BY <1>2
  <2> QED BY <2>1 DEF StoreEntity, Merge, id, fields
<1> HIDE DEF new
<1>4. ASSUME NEW i \in ids \cup {id} PROVE IsJson(new[i], Words) /\ Refs(new[i]) \subseteq to
  <2>1. CASE i # id
    BY <1>2, <1>3, <2>1
  <2>2. CASE i = id /\ id \in ids
    <3>1. new[i] = MergePatch(store[id], fields)
      BY <1>3, <2>2
    <3> DEFINE old == store[id]
    <3>2. IsJson(old, Words) /\ Refs(old) \subseteq to
      BY <1>2, <2>2
    <3> HIDE DEF old
    <3>3. /\ IsJson(MergePatch(old, fields), Words)
          /\ Refs(MergePatch(old, fields)) \subseteq Refs(old) \cup Refs(fields)
      BY <1>1, <3>2, MergeIs
    <3> QED BY <1>1, <3>1, <3>2, <3>3 DEF old
  <2>3. CASE i = id /\ id \notin ids
    BY <1>1, <1>3, <2>3
  <2> QED BY <2>1, <2>2, <2>3
<1>5. ids \cup {id} \in SUBSET Seq(Words) /\ new = [i \in ids \cup {id} |-> new[i]]
  BY <1>1, <1>3
<1>6. new \in Stores(ids \cup {id}, to)
  BY <1>4, <1>5, StoresAre
<1> QED
  BY <1>6 DEF new, id

LEMMA StoreAllIs ==
  ASSUME NEW ids \in SUBSET Seq(Words), NEW to, NEW store \in Stores(ids, to),
         NEW stored \in Seq(Entities), StoredRefs(stored) \subseteq to
  PROVE  StoreAll(store, stored)[Len(stored)] \in Stores(ids \cup Ids(stored), to)
<1> DEFINE m == Len(stored)
           after(s, n) == StoreEntity(s, stored[n].id, stored[n].fields)
           upTo(n) == ids \cup {stored[i].id : i \in 1..n}
           A == [n \in 0..m |-> Stores(upTo(n), to)]
           Is(f) == f = [n \in 0..m |-> IF n = 0 THEN store ELSE after(f[n - 1], n)]
           next == [n \in 1..m |-> [s \in Stores(upTo(n - 1), to) |-> after(s, n)]]
           loop == StoreAll(store, stored)
<1>0. m \in Nat /\ DOMAIN stored = 1..m /\ \A n \in 1..m : stored[n] \in Entities
  OBVIOUS
<1>i. ASSUME NEW n \in 1..m, NEW s \in Stores(upTo(n - 1), to)
      PROVE  after(s, n) \in Stores(upTo(n), to)
  <2> DEFINE e == stored[n]
             old == upTo(n - 1)
  <2>1. e \in Entities /\ Refs(e.fields) \subseteq to
    BY <1>0 DEF StoredRefs
  <2>2. old \in SUBSET Seq(Words) /\ upTo(n) = old \cup {e.id}
    <3>1. \A i \in 1..m : stored[i].id \in Seq(Words)
      BY <1>0 DEF Entities
    <3>2. \A i \in 1..(n - 1) : i \in 1..m
      BY <1>0
    <3>3. 1..n = 1..(n - 1) \cup {n}
      BY <1>0
    <3> QED BY <3>1, <3>2, <3>3
  <2> HIDE DEF e, old
  <2>3. StoreEntity(s, e.id, e.fields) \in Stores(old \cup {e.id}, to)
    <3>1. s \in Stores(old, to)
      BY DEF old
    <3> QED BY <2>1, <2>2, <3>1, StoreEntityIs
  <2> QED BY <2>2, <2>3 DEF e
<1>1. store \in A[0]
  <2>1. upTo(0) = ids /\ 0 \in 0..m
    BY <1>0
  <2> HIDE DEF upTo
  <2> QED BY <2>1
<1> HIDE DEF upTo, after
<1>2. \A n \in 1..m : next[n] \in [A[n - 1] -> A[n]]
  <2> SUFFICES ASSUME NEW n \in 1..m PROVE next[n] \in [A[n - 1] -> A[n]]
    OBVIOUS
  <2>1. A[n - 1] = Stores(upTo(n - 1), to) /\ A[n] = Stores(upTo(n), to)
    BY <1>0
  <2> QED BY <1>i, <2>1
<1> HIDE DEF m
<1>3. PICK f : IsRounds(f, m, A, store, next)
  <2> HIDE DEF next, A
  <2> QED BY <1>0, <1>1, <1>2, RoundsExist
<1>4. Is(f)
  <2>1. ASSUME NEW n \in 1..m PROVE f[n] = after(f[n - 1], n)
    <3>1. n - 1 \in 0..m
      BY <1>0
    <3>2. f[n] = next[n][f[n - 1]] /\ f[n - 1] \in A[n - 1]
      <4> HIDE DEF A, next
      <4>1. \A i \in 1..m : f[i] = next[i][f[i - 1]]
        BY <1>3 DEF IsRounds
      <4>2. \A i \in 0..m : f[i] \in A[i]
        BY <1>3 DEF IsRounds
      <4> QED BY <3>1, <4>1, <4>2
    <3>3. f[n - 1] \in Stores(upTo(n - 1), to)
      BY <3>1, <3>2
    <3> QED BY <3>2, <3>3
  <2> HIDE DEF A, next
  <2>2. f = [n \in 0..m |-> f[n]] /\ f[0] = store
    BY <1>3 DEF IsRounds
  <2>3. \A n \in 0..m : n # 0 => n \in 1..m
    BY <1>0
  <2> QED BY <2>1, <2>2, <2>3
<1>5. loop = CHOOSE g : Is(g)
  BY DEF StoreAll, Running, after, m
<1> HIDE DEF loop
<1>6. Is(loop)
  <2> HIDE DEF Is
  <2> QED BY <1>4, <1>5
<1>7. loop = [n \in 0..m |-> loop[n]] /\ loop[0] = store
  BY <1>0, <1>6
<1>8. ASSUME NEW n \in 1..m, loop[n - 1] \in A[n - 1] PROVE loop[n] = next[n][loop[n - 1]]
  <2>1. A[n - 1] = Stores(upTo(n - 1), to)
    BY <1>0
  <2>2. loop[n] = after(loop[n - 1], n)
    BY <1>0, <1>6
  <2> HIDE DEF A
  <2> QED BY <1>8, <2>1, <2>2
<1>9. IsRounds(loop, m, A, store, next)
  <2> HIDE DEF next, Is, A
  <2> QED BY <1>0, <1>1, <1>2, <1>7, <1>8, RoundsType
<1>10. loop[m] \in Stores(upTo(m), to)
  <2>1. m \in 0..m
    BY <1>0
  <2>2. loop[m] \in A[m]
    <3> HIDE DEF A, next
    <3> QED BY <2>1, <1>9 DEF IsRounds
  <2> QED BY <2>1, <2>2
<1>11. upTo(m) = ids \cup Ids(stored)
  BY <1>0 DEF upTo, Ids
<1> QED
  BY <1>10, <1>11 DEF loop, m

-----------------------------------------------------------------------------
(* The invariant: the store is one, of roots and of entities, and each value in   *)
(* it refers only to entities that are there or were evicted.                   *)

Known == DOMAIN entities \cup evicted
Inv ==
  /\ db \in [Facts -> Values] /\ known \in [Facts -> Values] /\ written \in Asked \cup {Nothing}
  /\ evicted \subseteq Seq(Words) /\ DOMAIN entities \subseteq Seq(Words)
  /\ entities \in Stores(DOMAIN entities, Known)
  /\ \A k \in DOMAIN roots : IsJson(roots[k], Words) /\ Refs(roots[k]) \subseteq Known

\* What the invariant says of what is stored, and what it is needed for.
LEMMA InvIs == Inv => TypeOK /\ RefsResolve
<1> SUFFICES ASSUME Inv PROVE TypeOK /\ RefsResolve
  OBVIOUS
<1>1. \A i \in DOMAIN entities : IsJson(entities[i], Words) /\ Refs(entities[i]) \subseteq Known
  BY StoresAre DEF Inv
<1>2. \A v \in Stored : IsJson(v, Words) /\ Refs(v) \subseteq Known
  BY <1>1 DEF Inv, Stored
<1>3. TypeOK
  BY <1>2 DEF Inv, TypeOK
<1>4. RefsResolve
  BY <1>2 DEF RefsResolve, Refs, RefPaths, Known
<1> QED BY <1>3, <1>4

LEMMA InitInv == Init => Inv
<1> SUFFICES ASSUME Init PROVE Inv
  OBVIOUS
<1>1. roots = <<>> /\ entities = <<>> /\ DOMAIN roots = {} /\ DOMAIN entities = {}
  BY DEF Init, CacheInit
<1>2. entities \in Stores({}, Known)
  <2>1. entities = [id \in {} |-> entities[id]]
    BY <1>1
  <2> QED BY <2>1, StoresAre
<1> QED
  BY <1>1, <1>2 DEF Init, Inv

\* What a client asks, and what the server answers, can be written.
LEMMA AskedIs ==
  ASSUME NEW request \in Asked, NEW d \in [Facts -> Values]
  PROVE  /\ IsGiven(Response(request, Answers[request][d]))
         /\ HasOperation(request) => Selections(request) \in SelectionSets
<1> DEFINE doc == request.document
           data == Answers[request][d]
           response == Response(request, data)
<1>1. IsDocument(doc) /\ request.variables \in [DOMAIN request.variables -> Names]
  BY RequestsAssumption
<1>2. IsResponse(data)
  BY AnswersAssumption
<1> HIDE DEF data, doc
<1>3. \A name \in DOMAIN doc.fragments : doc.fragments[name].set \in SelectionSets
  BY <1>1 DEF IsDocument
<1>4. /\ response.data = data /\ response.fragments = doc.fragments
      /\ response.variables = request.variables
  BY DEF Response, doc
<1> HIDE DEF response
<1>5. IsGiven(response)
  BY <1>1, <1>2, <1>3, <1>4 DEF IsGiven
<1>6. ASSUME HasOperation(request) PROVE Selections(request) \in SelectionSets
  <2> DEFINE Operations == [type : OperationTypes, name : Names, variables : Seq(Variables),
                            set : SelectionSets]
  <2>1. doc.operations \in Seq(Operations) /\ doc.operations # <<>>
    BY <1>1, <1>6 DEF IsDocument, HasOperation, doc
  <2> HIDE DEF Operations
  <2>2. doc.operations[1] \in Operations
    BY <2>1
  <2>3. doc.operations[1].set \in SelectionSets
    BY <2>2 DEF Operations
  <2> QED BY <2>3 DEF Selections, doc
<1> QED
  BY <1>5, <1>6 DEF response, data

LEMMA WriteInv ==
  ASSUME Inv, NEW request \in Asked, Write(request, Answers[request][db]), evicted' = evicted
  PROVE  /\ DOMAIN entities' \subseteq Seq(Words) /\ entities' \in Stores(DOMAIN entities', Known')
         /\ \A k \in DOMAIN roots' : IsJson(roots'[k], Words) /\ Refs(roots'[k]) \subseteq Known'
<1> DEFINE response == Response(request, Answers[request][db])
           n == Normalize(response, Selections(request))
           ids == DOMAIN entities
           to == Known \cup Ids(n.stored)
           key == RootKey(request)
<1>1. CASE ~HasOperation(request)
  BY <1>1 DEF Write, cacheVars, Known, Inv
<1>2. CASE HasOperation(request)
  <2>1. n \in Objects
    <3>1. IsGiven(response) /\ Selections(request) \in SelectionSets
      BY <1>2, AskedIs DEF Inv
    <3> QED BY <3>1, NormalizeIs
  <2>2. /\ entities' = StoreAll(entities, n.stored)[Len(n.stored)]
        /\ roots' = [k \in DOMAIN roots \cup {key} |-> IF k = key THEN n.value ELSE roots[k]]
    BY <1>2 DEF Write
  <2> HIDE DEF n, key
  <2>3. /\ IsJson(n.value, Words) /\ n.stored \in Seq(Entities)
        /\ Refs(n.value) \cup StoredRefs(n.stored) \subseteq Ids(n.stored)
    <3>1. n = Result(n.value, n.stored)
      BY <2>1, ResultIs DEF Objects
    <3> QED BY <2>1, <3>1, ObjectsAre
  <2>4. ids \in SUBSET Seq(Words) /\ entities \in Stores(ids, to)
    <3>1. ids \in SUBSET Seq(Words) /\ entities \in Stores(ids, Known) /\ Known \subseteq to
      BY DEF Inv
    <3> HIDE DEF ids, to
    <3>2. /\ entities = [id \in ids |-> entities[id]]
          /\ \A id \in ids : IsJson(entities[id], Words) /\ Refs(entities[id]) \subseteq Known
      BY <3>1, StoresAre
    <3>3. \A id \in ids : IsJson(entities[id], Words) /\ Refs(entities[id]) \subseteq to
      BY <3>1, <3>2
    <3> QED BY <3>1, <3>2, <3>3, StoresAre
  <2>5. entities' \in Stores(ids \cup Ids(n.stored), to)
    BY <2>2, <2>3, <2>4, StoreAllIs
  <2>6. Ids(n.stored) \subseteq Seq(Words)
    <3>1. \A i \in DOMAIN n.stored : n.stored[i] \in Entities
      BY <2>3
    <3> QED BY <3>1 DEF Ids, Entities
  <2>7. DOMAIN entities' = ids \cup Ids(n.stored) /\ Known' = to
    <3>1. DOMAIN entities' = ids \cup Ids(n.stored)
      <4> DEFINE all == ids \cup Ids(n.stored)
      <4>1. all \in SUBSET Seq(Words) /\ entities' \in Stores(all, to)
        BY <2>4, <2>5, <2>6
      <4> HIDE DEF all, to
      <4>2. \A s \in Stores(all, to) : DOMAIN s = all
        BY DEF Stores
      <4> QED BY <4>1, <4>2 DEF all
    <3> QED BY <3>1 DEF Known
  <2>8. ASSUME NEW k \in DOMAIN roots' PROVE IsJson(roots'[k], Words) /\ Refs(roots'[k]) \subseteq to
    <3>1. CASE k = key
      BY <2>2, <2>3, <3>1
    <3>2. CASE k # key
      <4>1. k \in DOMAIN roots /\ roots'[k] = roots[k]
        BY <2>2, <3>2
      <4>2. IsJson(roots[k], Words) /\ Refs(roots[k]) \subseteq Known
        BY <4>1 DEF Inv
      <4> QED BY <4>1, <4>2
    <3> QED BY <3>1, <3>2
  <2> QED BY <2>4, <2>5, <2>6, <2>7, <2>8
<1> QED BY <1>1, <1>2

LEMMA EvictOneInv ==
  ASSUME Inv, NEW id \in DOMAIN entities, EvictOne(id)
  PROVE  Inv'
<1>1. /\ entities' = [i \in DOMAIN entities \ {id} |-> entities[i]]
      /\ evicted' = evicted \cup {id} /\ written' = Nothing
      /\ UNCHANGED <<roots, db, known>>
  BY DEF EvictOne, EvictEntity
<1>2. DOMAIN entities' = DOMAIN entities \ {id} /\ Known' = Known
  BY <1>1 DEF Known
<1>3. DOMAIN entities \subseteq Seq(Words) /\ entities \in Stores(DOMAIN entities, Known)
  BY DEF Inv
<1>4. entities' \in Stores(DOMAIN entities', Known)
  <2>1. \A i \in DOMAIN entities : IsJson(entities[i], Words) /\ Refs(entities[i]) \subseteq Known
    BY <1>3, StoresAre
  <2>2. \A i \in DOMAIN entities' : IsJson(entities'[i], Words) /\ Refs(entities'[i]) \subseteq Known
    BY <1>1, <1>2, <2>1
  <2>3. entities' = [i \in DOMAIN entities' |-> entities'[i]] /\ DOMAIN entities' \in SUBSET Seq(Words)
    BY <1>1, <1>2, <1>3
  <2> QED BY <2>2, <2>3, StoresAre
<1> QED
  BY <1>1, <1>2, <1>3, <1>4 DEF Inv

LEMMA EvictQueryInv ==
  ASSUME Inv, NEW request \in Asked, EvictQuery(request)
  PROVE  Inv'
<1>1. /\ roots' = [k \in DOMAIN roots \ {RootKey(request)} |-> roots[k]]
      /\ written' = Nothing /\ UNCHANGED <<entities, db, known, evicted>>
  BY DEF EvictQuery, Evict
<1>2. Known' = Known
  BY <1>1 DEF Known
<1>3. \A k \in DOMAIN roots' : k \in DOMAIN roots /\ roots'[k] = roots[k]
  BY <1>1
<1> QED
  BY <1>1, <1>2, <1>3 DEF Inv

LEMMA NextInv == Inv /\ [Next]_vars => Inv'
<1> SUFFICES ASSUME Inv, [Next]_vars PROVE Inv'
  OBVIOUS
<1>1. CASE Change
  <2>1. db' \in [Facts -> Values] /\ written' = Nothing /\ UNCHANGED <<roots, entities, known, evicted>>
    BY <1>1 DEF Change, cacheVars, Inv
  <2> QED BY <2>1 DEF Inv, Known
<1>2. ASSUME NEW r \in Asked, Respond(r) PROVE Inv'
  <2>1. /\ Write(r, Answers[r][db]) /\ written' = r /\ db' = db /\ evicted' = evicted
        /\ known' = [f \in Facts |-> IF f \in Covers[r] THEN db[f] ELSE known[f]]
    BY <1>2 DEF Respond
  <2>2. known' \in [Facts -> Values]
    BY <2>1 DEF Inv
  <2>3. /\ DOMAIN entities' \subseteq Seq(Words) /\ entities' \in Stores(DOMAIN entities', Known')
        /\ \A k \in DOMAIN roots' : IsJson(roots'[k], Words) /\ Refs(roots'[k]) \subseteq Known'
    BY <2>1, WriteInv
  <2> QED BY <2>1, <2>2, <2>3 DEF Inv
<1>3. ASSUME NEW r \in Asked, EvictQuery(r) PROVE Inv'
  BY <1>3, EvictQueryInv
<1>4. ASSUME NEW id \in DOMAIN entities, EvictOne(id) PROVE Inv'
  BY <1>4, EvictOneInv
<1>5. CASE UNCHANGED vars
  BY <1>5 DEF vars, cacheVars, Inv, Known
<1> QED
  BY <1>1, <1>2, <1>3, <1>4, <1>5 DEF Next

\* The invariant of the store holds in every reachable state.
THEOREM AlwaysInv == Spec => []Inv
<1>1. Init => Inv
  BY InitInv
<1>2. Inv /\ [Next]_vars => Inv'
  BY NextInv
<1> QED
  BY <1>1, <1>2, PTL DEF Spec

\* What the store holds is JSON.
THEOREM CacheTypeOK == Spec => []TypeOK
BY AlwaysInv, InvIs, PTL

\* However responses, evictions and changes of the server's data follow each other,
\* no reference of the store dangles but to an evicted entity.
THEOREM ReferencesResolve == Spec => []RefsResolve
BY AlwaysInv, InvIs, PTL
=============================================================================
