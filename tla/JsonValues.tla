------------------------------- MODULE JsonValues -------------------------------
(***************************************************************************)
(* JSON values, flat: a value is the function from the paths in it to what  *)
(* is there.  A path is a sequence of steps, each to a member of an object   *)
(* or to an item of an array; keys and texts are sequences of words.        *)
(* What nlohmann::json does to values nested in each other is then said of   *)
(* paths, without recursion.                                                *)
(***************************************************************************)
EXTENDS Naturals, Sequences, SequencesExt

Member(key) == [key |-> key, item |-> 0]
Item(i) == [key |-> <<>>, item |-> i]
StepsOver(words) == [key : Seq(words), item : Nat]
PathsOver(words) == Seq(StepsOver(words))

\* What can be at a path: an object, an array of so many items, a null, or a text,
\* which stands for any scalar.
Node(is, text, items) == [is |-> is, text |-> text, items |-> items]
AnObject == Node("object", <<>>, 0)
AnArray(items) == Node("array", <<>>, items)
ANull == Node("null", <<>>, 0)
AText(text) == Node("text", text, 0)
NodesOver(words) ==
  {node \in [is : {"object", "array", "null", "text"}, text : Seq(words), items : Nat] :
     node.is # "array" => node.items = 0}

\* The value that is nothing but a node, and a function with others of its places.
Just(node) == [path \in {<<>>} |-> node]
Over(new, old) ==
  [x \in DOMAIN new \cup DOMAIN old |-> IF x \in DOMAIN new THEN new[x] ELSE old[x]]

\* A value has the object or the array that each of its parts is in, and every item
\* of its arrays.
IsJson(v, words) ==
  /\ v \in [DOMAIN v -> NodesOver(words)]
  /\ DOMAIN v \subseteq PathsOver(words) /\ <<>> \in DOMAIN v
  /\ \A path \in DOMAIN v : \A i \in 1..v[path].items : Append(path, Item(i)) \in DOMAIN v
  /\ \A path \in DOMAIN v \ {<<>>} :
       LET above == Front(path)
           step == Last(path)
       IN /\ above \in DOMAIN v
          /\ \/ v[above].is = "object" /\ step = Member(step.key)
             \/ v[above].is = "array" /\ step \in {Item(i) : i \in 1..v[above].items}

\* What is at a path and below it, and an object or array with another part.
Part(v, at) ==
  [path \in {SubSeq(p, Len(at) + 1, Len(p)) : p \in {q \in DOMAIN v : IsPrefix(at, q)}} |->
     v[at \o path]]
Below(step, part) == [path \in {<<step>> \o p : p \in DOMAIN part} |-> part[Tail(path)]]
Put(v, step, part) ==
  Over(Below(step, part), Restrict(v, {path \in DOMAIN v : path = <<>> \/ path[1] # step}))

\* merge_patch (RFC 7396).  Objects are merged, at every depth, and a null member
\* of the patch deletes; all else of the patch replaces what was there.
MergePatch(target, patch) ==
  LET above(path) == Prefixes(path) \ {path}
      deletes(path) ==
        /\ path # <<>> /\ patch[path].is = "null"
        /\ \A p \in above(path) : patch[p].is = "object"
      stays(path) ==
        \A p \in Prefixes(path) \cap DOMAIN patch :
          patch[p].is = "object" /\ target[p].is = "object"
  IN Over(Restrict(patch, {path \in DOMAIN patch : ~deletes(path)}),
          Restrict(target, {path \in DOMAIN target \ DOMAIN patch : stays(path)}))
=============================================================================
