------------------------------ MODULE RequestText ------------------------------
(***************************************************************************)
(* From a document of the application to the text of a request: any          *)
(* document that an application can write, selection by selection, and what  *)
(* Client::BuildRequest makes of it.  The reference is the way a server       *)
(* collects the fields of an object.                                         *)
(***************************************************************************)
EXTENDS Documents

CONSTANTS
  Sketches,       \* the documents an application begins with
  Additions,      \* the selections it adds to them
  Types,          \* the types of the schema's objects
  MaxSelections   \* bound: selections in a document

ASSUME SketchAssumption == \A doc \in Sketches : IsDocument(doc)

VARIABLES
  document,       \* as ParseDocument gives it to the client
  request         \* what was built from it

vars == <<document, request>>

NoRequest == [text |-> <<>>, operation |-> ""]

\* The selections in a set, those inside them included.
SizeUpTo[depth \in 0..MaxDepth] ==
  [set \in SetsUpTo[depth] |->
     FoldFunction(+, 0, [i \in DOMAIN set |->
                           1 + IF IsSpread(set[i]) THEN 0 ELSE SizeUpTo[depth - 1][set[i].set]])]
Size(set) == SizeUpTo[MaxDepth][set]

SetsOf(doc) == {doc.operations[i].set : i \in DOMAIN doc.operations}
                 \cup {doc.fragments[name].set : name \in DOMAIN doc.fragments}

DocumentSize(doc) ==
  FoldFunction(+, 0, [i \in DOMAIN doc.operations |-> Size(doc.operations[i].set)])
    + FoldFunction(+, 0, [name \in DOMAIN doc.fragments |-> Size(doc.fragments[name].set)])

\* The ways to add one selection somewhere in a selection set.
Extended(set, additions) ==
  LET upTo[depth \in 0..MaxDepth] ==
        [s \in SetsUpTo[depth] |->
           {Append(s, new) : new \in additions}
             \cup UNION {{[s EXCEPT ![i].set = more] : more \in upTo[depth - 1][s[i].set]} :
                         i \in {j \in DOMAIN s : ~IsSpread(s[j]) /\ s[j].set # <<>>}}]
  IN upTo[MaxDepth][set]

-----------------------------------------------------------------------------
Init == document \in Sketches /\ request = NoRequest

\* (A fragment that spreads another one adds nothing new, one that spreads itself
\* is not GraphQL.)
Extend ==
  /\ \/ \E i \in DOMAIN document.operations :
          \E set \in Extended(document.operations[i].set, Additions) :
            document' = [document EXCEPT !.operations[i].set = set]
     \/ \E name \in DOMAIN document.fragments :
          \E set \in Extended(document.fragments[name].set,
                            {new \in Additions : ~IsSpread(new)}) :
            document' = [document EXCEPT !.fragments[name].set = set]
  /\ IsDocument(document') /\ DocumentSize(document') <= MaxSelections
  /\ request' = NoRequest

\* Client::BuildRequest with the default list of transforms, AddTypename alone: the
\* text, and the name of the operation to execute.
Sent == AddTypename(document)
OperationName(doc) == IF doc.operations = <<>> THEN "" ELSE doc.operations[1].name
BuildRequest ==
  /\ request = NoRequest
  /\ \E order \in Orders(Sent) :
       request' = [text |-> PrintDocument(Sent, order), operation |-> OperationName(Sent)]
  /\ UNCHANGED document

Next == Extend \/ BuildRequest

Spec == Init /\ [][Next]_vars

-----------------------------------------------------------------------------
(* Properties *)

Built == request # NoRequest

\* What goes out asks for what the application wrote: __typename is added behind
\* the selections of a set, and nothing else was added, lost or changed, aliases,
\* arguments, directives, variables and fragments included.
SameSelection(sel, sent, inside) ==
  IF IsSpread(sel) THEN sent = sel
  ELSE /\ ~IsSpread(sent) /\ sent = [sel EXCEPT !.set = sent.set]
       /\ inside[sel.set][sent.set]
AsksUpTo[depth \in 0..MaxDepth] ==
  [set \in SetsUpTo[depth] |-> [sent \in SetsUpTo[depth] |->
     /\ Len(set) <= Len(sent)
     /\ \A i \in 1..Len(set) : SameSelection(set[i], sent[i], AsksUpTo[depth - 1])
     /\ \A i \in (Len(set) + 1)..Len(sent) : sent[i] = TypeName]]

\* The server executes the operation that the cache will file the answer under,
\* the first one.
Executed == {i \in DOMAIN Sent.operations : Sent.operations[i].name = request.operation}
RequestAsksTheSame ==
  Built =>
    /\ DOMAIN Sent.operations = DOMAIN document.operations
    /\ \A i \in DOMAIN document.operations :
         SameSelection(document.operations[i], Sent.operations[i], AsksUpTo[MaxDepth])
    /\ DOMAIN Sent.fragments = DOMAIN document.fragments
    /\ \A name \in DOMAIN document.fragments :
         SameSelection(document.fragments[name], Sent.fragments[name], AsksUpTo[MaxDepth])
    /\ document.operations # <<>> => Executed = {1}

\* Transforming what was transformed changes nothing: a text that goes through
\* the client once more names the same document in the cache.
TransformOnce == AddTypename(Sent) = Sent

\* The fields that a server collects for an object of a type, where the
\* conditions of directives hold or not.
Included(sel, holds) == sel.directives = <<>> \/ holds
FieldsFrom(sel, type, fragments, inside) ==
  IF IsField(sel) THEN {sel}
  ELSE IF IsSpread(sel)
  THEN IF sel.spread \in DOMAIN fragments /\ fragments[sel.spread].on = type
       THEN inside[fragments[sel.spread].set] ELSE {}
  ELSE IF sel.on \in {"", type} THEN inside[sel.set] ELSE {}

\* (Enough to go down through an operation and a fragment that spreads no other.)
Descents == 2 * MaxDepth
CollectedWithin(type, fragments, holds) ==
  LET within[fuel \in 0..Descents] ==
        [set \in SelectionSets |->
           IF fuel = 0 THEN {}
           ELSE UNION {FieldsFrom(set[i], type, fragments, within[fuel - 1]) :
                         i \in {j \in DOMAIN set : Included(set[j], holds)}}]
  IN within
Collected(set, type, fragments, holds) ==
  CollectedWithin(type, fragments, holds)[Descents][set]

\* The selection sets that describe an object: those of operations and fields.
ObjectSetsUpTo[depth \in 0..MaxDepth] ==
  [set \in SetsUpTo[depth] |->
     UNION {IF IsSpread(set[i]) THEN {}
            ELSE ObjectSetsUpTo[depth - 1][set[i].set]
                   \cup (IF IsField(set[i]) /\ set[i].set # <<>> THEN {set[i].set} ELSE {}) :
              i \in DOMAIN set}]
ObjectsOf(doc) ==
  {doc.operations[i].set : i \in DOMAIN doc.operations}
    \cup UNION {ObjectSetsUpTo[MaxDepth][set] : set \in SetsOf(doc)}

\* Every object of an answer that has a field says what its type is, whatever
\* fragments the fields come from: without that the cache cannot tell it from
\* another one.
ObjectsIdentifiable ==
  \A set \in ObjectsOf(Sent), type \in Types, holds \in BOOLEAN :
    LET fields == Collected(set, type, Sent.fragments, holds)
    IN fields # {} => TypeName \in fields
=============================================================================
