----------------------------- MODULE GraphQLServer -----------------------------
(***************************************************************************)
(* A GraphQL server, the reference for what a response is: it resolves a     *)
(* selection by field names, where the cache files values by response keys. *)
(***************************************************************************)
EXTENDS InMemoryCache

\* A field of the server's objects, named with the values of its arguments, has
\* a node of JSON, a link to an object, or a list of these.
Value(node) == [node |-> node]
Link(name) == [link |-> name]
List(values) == [list |-> values]

CompleteOne(v, set, inside) ==
  IF "node" \in DOMAIN v THEN Just(v.node) ELSE inside[<<v.link, set>>]
Complete(v, set, inside) ==
  IF "list" \notin DOMAIN v THEN CompleteOne(v, set, inside)
  ELSE Running(LAMBDA result, i : Put(result, Item(i), CompleteOne(v.list[i], set, inside)),
               Just(AnArray(Len(v.list))), [i \in DOMAIN v.list |-> i])[Len(v.list)]

Resolve(name, set, request, graph, inside) ==
  LET obj == graph[name]
      value(sel) ==
        obj[<<sel.name>> \o [i \in DOMAIN sel.args |->
                               ArgumentValue(sel.args[i], request.variables)]]
      fragment(sel) ==
        IF IsSpread(sel) THEN request.document.fragments[sel.spread] ELSE sel
      step(result, sel) ==
        IF IsField(sel)
        THEN Put(result, Member(<<ResponseKey(sel)>>), Complete(value(sel), sel.set, inside))
        ELSE IF Matches(fragment(sel).on, obj[<<"__typename">>].node.text)
        THEN Over(inside[<<name, fragment(sel).set>>], result)
        ELSE result
  IN Running(step, Just(AnObject), set)[Len(set)]

\* What the server answers to a request, for a state of its data.
Answer(request, graph) ==
  LET within[calls \in 0..MaxCalls] ==
        [place \in (DOMAIN graph) \X SelectionSets |->
           IF calls = 0 THEN Just(ANull)
           ELSE Resolve(place[1], place[2], request, graph, within[calls - 1])]
  IN within[MaxCalls][<<request.type, Selections(request)>>]
=============================================================================
