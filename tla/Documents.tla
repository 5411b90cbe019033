------------------------------- MODULE Documents -------------------------------
(***************************************************************************)
(* The documents of the client: what AddTypename makes of one, and the text *)
(* that Print makes of that, which goes to the server and into the keys of  *)
(* the cache.  A text is a sequence of tokens: of Print's layout, white     *)
(* space between tokens is left out.                                       *)
(*                                                                         *)
(* An absent name, alias, type condition or default value is "", an absent  *)
(* selection set is empty (the grammar has no empty one).                   *)
(***************************************************************************)
EXTENDS Naturals, Sequences, SequencesExt

CONSTANTS
  Names,                \* names, types and values in documents
  MaxDepth,             \* bound: how deep the selections of a document are nested
  ConditionalTypename   \* may a document have a __typename under a condition?

\* The tokens that are not names, types or values.
Punctuators == {"{", "}", "(", ")", ":", ",", "=", "@", "..."}

ASSUME NamesAssumption ==
  {"", "__typename"} \subseteq Names /\ \A token \in Punctuators : token \notin Names
ASSUME DepthAssumption == MaxDepth \in Nat /\ ConditionalTypename \in BOOLEAN

\* A selection is a field, the spread of a named fragment or an inline fragment.
Field(alias, name, args, directives, set) ==
  [alias |-> alias, name |-> name, args |-> args, directives |-> directives, set |-> set]
Spread(name, directives) == [spread |-> name, directives |-> directives]
Inline(type, directives, set) == [on |-> type, directives |-> directives, set |-> set]

IsField(sel) == "name" \in DOMAIN sel
IsSpread(sel) == "spread" \in DOMAIN sel
IsTypename(sel) == IsField(sel) /\ sel.name = "__typename" /\ sel.alias = ""

Argument(name, value) == [name |-> name, value |-> value]
Directive(name, args) == [name |-> name, args |-> args]
Variable(name, type, default) == [name |-> name, type |-> type, default |-> default]

\* A document: its operations, and its fragments by their names.
Operation(type, name, variables, set) ==
  [type |-> type, name |-> name, variables |-> variables, set |-> set]
Fragment(type, set) == [on |-> type, set |-> set]
Document(operations, fragments) == [operations |-> operations, fragments |-> fragments]

Arguments == [name : Names, value : Names]
Directives == [name : Names, args : Seq(Arguments)]
Variables == [name : Names, type : Names, default : Names]

\* The selections whose own selection sets are in a given set.  (GraphQL gives
\* __typename neither arguments nor selections, an inline fragment has some, and no
\* fragment is called "on".)
FieldsOver(inner) ==
  {field \in [alias : Names, name : Names, args : Seq(Arguments),
              directives : Seq(Directives), set : inner] :
     IsTypename(field) => /\ field.args = <<>> /\ field.set = <<>>
                          /\ field.directives = <<>> \/ ConditionalTypename}
Spreads == [spread : Names \ {"on"}, directives : Seq(Directives)]
InlinesOver(inner) == [on : Names, directives : Seq(Directives), set : inner \ {<<>>}]
SelectionsOver(inner) == FieldsOver(inner) \cup Spreads \cup InlinesOver(inner)

\* The selection sets that are nested so deep at most.
SetsUpTo[depth \in 0..MaxDepth] ==
  IF depth = 0 THEN {<<>>} ELSE Seq(SelectionsOver(SetsUpTo[depth - 1]))
SelectionSets == SetsUpTo[MaxDepth]

OperationTypes == {"query", "mutation", "subscription"}

IsDocument(doc) ==
  /\ doc = Document(doc.operations, doc.fragments)
  /\ doc.operations \in Seq([type : OperationTypes, name : Names,
                             variables : Seq(Variables), set : SelectionSets])
  /\ \A i, j \in DOMAIN doc.operations :
       doc.operations[i].name = doc.operations[j].name => i = j
  /\ doc.fragments = [name \in DOMAIN doc.fragments |-> doc.fragments[name]]
  /\ IsFiniteSet(DOMAIN doc.fragments) /\ DOMAIN doc.fragments \subseteq Names
  /\ \A name \in DOMAIN doc.fragments :
       doc.fragments[name] \in [on : Names, set : SelectionSets]

-----------------------------------------------------------------------------
(* AddTypename.  A recursion into the selections of a set is a function for each *)
(* depth: "inside" is what the one for the depth below gives for inner sets.     *)

TypeName == Field("", "__typename", <<>>, <<>>, <<>>)

HasTypename(set) == \E i \in DOMAIN set : IsTypename(set[i])
HasAnyField(set) == \E i \in DOMAIN set : IsField(set[i])

\* Does a selection set get a field __typename of its own?
NeverHasTypename(set) == HasAnyField(set)    \* mutant: without looking for one
Lacks(set) == HasAnyField(set) /\ ~HasTypename(set)

DropsAlias(sel, set) ==    \* mutant: rebuilds a field without its alias
  IF IsField(sel) THEN [sel EXCEPT !.alias = "", !.set = set] ELSE [sel EXCEPT !.set = set]
WithSet(sel, set) == [sel EXCEPT !.set = set]

SkipsInline(sel, inside) ==   \* mutant: not below an inline fragment
  IF IsField(sel) THEN WithSet(sel, inside[sel.set]) ELSE sel
TransformSelection(sel, inside) ==
  IF IsSpread(sel) THEN sel ELSE WithSet(sel, inside[sel.set])

Transform(set, inside) ==
  [i \in DOMAIN set |-> TransformSelection(set[i], inside)]
    \o (IF Lacks(set) THEN <<TypeName>> ELSE <<>>)

TransformUpTo[depth \in 0..MaxDepth] ==
  [set \in SetsUpTo[depth] |->
     IF depth = 0 THEN <<>> ELSE Transform(set, TransformUpTo[depth - 1])]
TransformSelectionSet(set) == TransformUpTo[MaxDepth][set]

AddTypename(doc) ==
  Document([i \in DOMAIN doc.operations |->
              WithSet(doc.operations[i], TransformSelectionSet(doc.operations[i].set))],
           [name \in DOMAIN doc.fragments |->
              WithSet(doc.fragments[name],
                      TransformSelectionSet(doc.fragments[name].set))])

-----------------------------------------------------------------------------
(* Print.  It writes the fragments in the order of an unordered_map, which is    *)
(* no order we know.                                                           *)

Joined(parts, separator) ==
  FlattenSeq([i \in DOMAIN parts |-> IF i = 1 THEN parts[i] ELSE separator \o parts[i]])

InBrackets(parts) ==
  IF parts = <<>> THEN <<>> ELSE <<"(">> \o Joined(parts, <<",">>) \o <<")">>

PrintArguments(args) ==
  InBrackets([i \in DOMAIN args |-> <<args[i].name, ":", args[i].value>>])

PrintDirectives(directives) ==
  FlattenSeq([i \in DOMAIN directives |->
                <<"@", directives[i].name>> \o PrintArguments(directives[i].args)])

PrintAlias(field) == IF field.alias = "" THEN <<>> ELSE <<field.alias, ":">>

PrintNoCondition(fragment) == <<>>   \* mutant: forgets the type condition
PrintCondition(fragment) == IF fragment.on = "" THEN <<>> ELSE <<"on", fragment.on>>

PrintSelection(sel, inside) ==
  LET set == IF sel.set = <<>> THEN <<>> ELSE inside[sel.set]
  IN IF IsSpread(sel) THEN <<"...", sel.spread>> \o PrintDirectives(sel.directives)
     ELSE IF IsField(sel)
     THEN PrintAlias(sel) \o <<sel.name>> \o PrintArguments(sel.args)
            \o PrintDirectives(sel.directives) \o set
     ELSE <<"...">> \o PrintCondition(sel) \o PrintDirectives(sel.directives) \o set

PrintUpTo[depth \in 0..MaxDepth] ==
  [set \in SetsUpTo[depth] |->
     <<"{">> \o FlattenSeq([i \in DOMAIN set |-> PrintSelection(set[i], PrintUpTo[depth - 1])])
       \o <<"}">>]
PrintSelectionSet(set) == PrintUpTo[MaxDepth][set]

PrintVariableDefinitions(vars) ==
  InBrackets([i \in DOMAIN vars |->
    <<vars[i].name, ":", vars[i].type>>
      \o (IF vars[i].default = "" THEN <<>> ELSE <<"=", vars[i].default>>)])

\* A query without a name and variables is its selection set.
Short(op) == op.type = "query" /\ op.name = "" /\ op.variables = <<>>

PrintOperationDefinition(op) ==
  IF Short(op) THEN PrintSelectionSet(op.set)
  ELSE <<op.type>> \o (IF op.name = "" THEN <<>> ELSE <<op.name>>)
         \o PrintVariableDefinitions(op.variables) \o PrintSelectionSet(op.set)

PrintFragmentDefinition(name, fragment) ==
  <<"fragment", name, "on", fragment.on>> \o PrintSelectionSet(fragment.set)

PrintDocument(doc, order) ==
  FlattenSeq([i \in DOMAIN doc.operations |-> PrintOperationDefinition(doc.operations[i])])
    \o FlattenSeq([i \in DOMAIN order |->
                     PrintFragmentDefinition(order[i], doc.fragments[order[i]])])

\* The orders that Print may find the fragments in.
Orders(doc) == SetToSeqs(DOMAIN doc.fragments)
=============================================================================
