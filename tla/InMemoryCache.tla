----------------------------- MODULE InMemoryCache -----------------------------
(***************************************************************************)
(* The normalised store: what Write makes of a response, what Read makes of *)
(* the store.  Every operation holds _mutex, Read as a reader and the       *)
(* others as the writer, so each is one step.                              *)
(*                                                                         *)
(* Requests are built by BuildRequest: "document" is what ParseDocument      *)
(* reads in their text "query" (RequestReading!TextReadsBack).               *)
(***************************************************************************)
EXTENDS Documents, JsonValues, RunningFolds

CONSTANTS
  TypePolicies,   \* key fields of the types that have a policy
  MaxCalls        \* bound: how deep the calls of a recursion are nested

ASSUME CallsAssumption == MaxCalls \in Nat
ASSUME PoliciesAssumption ==
  \A type \in DOMAIN TypePolicies : TypePolicies[type] \in Seq(Names)

VARIABLES
  roots,          \* the part of _entityStore under RootKeys ...
  entities        \* ... and the part under EntityIds

cacheVars == <<roots, entities>>

\* The words of keys, ids and texts.
Words == Names \cup {"__ref", "null", "(", ":", ",", ")", "|"}
Paths == PathsOver(Words)

Typename == Member(<<"__typename">>)
Reference == Member(<<"__ref">>)
Ref(id) == Put(Just(AnObject), Reference, Just(AText(id)))

-----------------------------------------------------------------------------
(* Of the object at a path in a value *)

TypeNameOf(v, at) ==
  IF Append(at, Typename) \in DOMAIN v THEN v[Append(at, Typename)].text ELSE <<>>

KeyFieldsFor(type) == IF type \in DOMAIN TypePolicies THEN TypePolicies[type] ELSE <<"id">>

Dump(node) == IF node.is = "null" THEN <<"null">> ELSE node.text

\* An object has an identity if it has the first of its key fields; others that
\* it lacks count as "".
KeyPart(key, v, at) ==
  LET path == Append(at, Member(<<key>>)) IN IF path \in DOMAIN v THEN Dump(v[path]) ELSE <<>>

FirstKeyOnly(type, v, at) ==   \* mutant: of a composite key, takes the first field
  LET key == KeyFieldsFor(type)[1]
  IN IF Append(at, Member(<<key>>)) \in DOMAIN v THEN type \o <<":">> \o KeyPart(key, v, at)
     ELSE <<>>
EntityId(type, v, at) ==
  LET keys == KeyFieldsFor(type)
  IN IF keys # <<>> /\ Append(at, Member(<<keys[1]>>)) \in DOMAIN v
     THEN type \o <<":">> \o Joined([i \in DOMAIN keys |-> KeyPart(keys[i], v, at)], <<"|">>)
     ELSE <<>>

-----------------------------------------------------------------------------
(* Of a selection *)

ResponseKey(field) == IF field.alias = "" THEN field.name ELSE field.alias

\* The key of a field in the store: its response key with the values of its
\* arguments (which the documents here have in the order of their names).
ArgumentValue(arg, variables) ==
  IF arg.value \in DOMAIN variables THEN variables[arg.value] ELSE arg.value

KeyWithoutArguments(key, args, variables) == <<key>>   \* mutant
FieldStoreKey(key, args, variables) ==
  <<key>> \o InBrackets([i \in DOMAIN args |->
                           <<args[i].name, ":", ArgumentValue(args[i], variables)>>])

StoreKey(field, variables) == FieldStoreKey(ResponseKey(field), field.args, variables)

\* Does a fragment apply to an object of this type?  One whose type is not known
\* has them all; a spread whose fragment is missing never applies.
Matches(on, type) == type = <<>> \/ on = "" \/ <<on>> = type
Applies(sel, type, fragments) ==
  IF IsSpread(sel)
  THEN sel.spread \in DOMAIN fragments /\ Matches(fragments[sel.spread].on, type)
  ELSE Matches(sel.on, type)

Inner(sel, fragments) == IF IsSpread(sel) THEN fragments[sel.spread].set ELSE sel.set

\* The operation, its text and its variables identify a response.
RootKey(request) ==
  <<IF request.type = "mutation" THEN "MUTATION_ROOT" ELSE "QUERY_ROOT",
    request.query, request.variables>>

\* The cache looks at the first operation of a document.
HasOperation(request) == request.document.operations # <<>>
Selections(request) == request.document.operations[1].set

-----------------------------------------------------------------------------
(* Normalising takes the entities out of a response: what is left of a value,    *)
(* and the entities in the order in which they are stored.  "inside" is what    *)
(* the calls for the values inside give.                                       *)
Result(value, stored) == [value |-> value, stored |-> stored]
Entity(id, fields) == [id |-> id, fields |-> fields]

NormalizeField(acc, sel, at, response, inside) ==
  LET path == Append(at, Member(<<ResponseKey(sel)>>))
      n == IF sel.set = <<>> THEN Result(Part(response.data, path), <<>>)
           ELSE inside[<<path, sel.set>>]
  IN IF path \notin DOMAIN response.data THEN acc
     ELSE Result(Put(acc.value, Member(StoreKey(sel, response.variables)), n.value),
                 acc.stored \o n.stored)

NormalizeFragment(acc, sel, at, response, inside) ==
  LET n == inside[<<at, Inner(sel, response.fragments)>>]
  IN IF ~Applies(sel, TypeNameOf(response.data, at), response.fragments) THEN acc
     ELSE Result(MergePatch(acc.value, n.value), acc.stored \o n.stored)

NormalizeSelection(acc, sel, at, response, inside) ==
  IF IsField(sel) THEN NormalizeField(acc, sel, at, response, inside)
  ELSE NormalizeFragment(acc, sel, at, response, inside)

NormalizeSelections(at, set, response, inside) ==
  Running(LAMBDA acc, sel : NormalizeSelection(acc, sel, at, response, inside),
          Result(Just(AnObject), <<>>), set)

\* An object with an identity goes to the entities and leaves a reference.
TakeOut(id, value, stored) == Result(Ref(id), Append(stored, Entity(id, value)))

NormalizeObject(at, set, response, inside) ==
  LET all == NormalizeSelections(at, set, response, inside)[Len(set)]
      type == TypeNameOf(response.data, at)
      value == IF type = <<>> THEN all.value ELSE Put(all.value, Typename, Just(AText(type)))
      id == EntityId(type, response.data, at)
  IN IF id = <<>> THEN Result(value, all.stored) ELSE TakeOut(id, value, all.stored)

NormalizeItem(acc, i, at, set, inside) ==
  LET n == inside[<<Append(at, Item(i)), set>>]
  IN Result(Put(acc.value, Item(i), n.value), acc.stored \o n.stored)

NormalizeItems(at, set, items, inside) ==
  Running(LAMBDA acc, i : NormalizeItem(acc, i, at, set, inside),
          Result(Just(AnArray(items)), <<>>), [i \in 1..items |-> i])

NormalizeValue(at, set, response, inside) ==
  LET node == response.data[at]
  IN IF node.is = "object" THEN NormalizeObject(at, set, response, inside)
     ELSE IF node.is = "array" THEN NormalizeItems(at, set, node.items, inside)[node.items]
     ELSE Result(Just(node), <<>>)

NormalizeWithin(response) ==
  LET within[calls \in 0..MaxCalls] ==
        [place \in (DOMAIN response.data) \X SelectionSets |->
           IF calls = 0 THEN Result(Part(response.data, place[1]), <<>>)
           ELSE NormalizeValue(place[1], place[2], response, within[calls - 1])]
  IN within

Normalize(response, set) ==
  IF response.data[<<>>].is = "object" THEN NormalizeWithin(response)[MaxCalls][<< <<>>, set>>]
  ELSE Result(response.data, <<>>)

-----------------------------------------------------------------------------
(* Denormalising puts the entities back.  A reference to an entity that is not   *)
(* there is null, and its field is left out.  A place is an entity, or <<>> for  *)
(* the root, with a path in it and whether a reference is to be followed there.  *)
DenormalizeField(result, sel, in, at, query, inside) ==
  LET path == Append(at, Member(StoreKey(sel, query.variables)))
      v == query.store[in]
      d == IF sel.set = <<>> THEN Part(v, path) ELSE inside[<<TRUE, in, path, sel.set>>]
  IN IF path \in DOMAIN v /\ (sel.set = <<>> \/ d[<<>>].is # "null" \/ v[path].is = "null")
     THEN Put(result, Member(<<ResponseKey(sel)>>), d) ELSE result

DenormalizeFragment(result, sel, in, at, query, inside) ==
  IF Applies(sel, TypeNameOf(query.store[in], at), query.fragments)
  THEN MergePatch(result, inside[<<FALSE, in, at, Inner(sel, query.fragments)>>])
  ELSE result

DenormalizeObject(in, at, set, query, inside) ==
  IF query.store[in][at].is # "object" THEN Part(query.store[in], at)
  ELSE Running(LAMBDA result, sel :
                 IF IsField(sel) THEN DenormalizeField(result, sel, in, at, query, inside)
                 ELSE DenormalizeFragment(result, sel, in, at, query, inside),
               Just(AnObject), set)[Len(set)]

DenormalizeValue(in, at, set, query, inside) ==
  LET v == query.store[in]
      ref == Append(at, Reference)
      items == v[at].items
  IN IF v[at].is = "array"
     THEN Running(LAMBDA result, i :
                    Put(result, Item(i), inside[<<TRUE, in, Append(at, Item(i)), set>>]),
                  Just(AnArray(items)), [i \in 1..items |-> i])[items]
     ELSE IF v[at].is # "object" THEN Just(v[at])
     ELSE IF ref \notin DOMAIN v THEN DenormalizeObject(in, at, set, query, inside)
     ELSE IF v[ref].text \in DOMAIN query.store
     THEN DenormalizeObject(v[ref].text, <<>>, set, query, inside)
     ELSE Just(ANull)

Denormalize(query, set) ==
  LET within[calls \in 0..MaxCalls] ==
        [place \in BOOLEAN \X (DOMAIN query.store) \X Paths \X SelectionSets |->
           IF calls = 0 THEN Just(ANull)
           ELSE IF place[1]
           THEN DenormalizeValue(place[2], place[3], place[4], query, within[calls - 1])
           ELSE DenormalizeObject(place[2], place[3], place[4], query, within[calls - 1])]
  IN within[MaxCalls][<<FALSE, <<>>, <<>>, set>>]

-----------------------------------------------------------------------------
(* The operations *)

CacheInit == roots = <<>> /\ entities = <<>>

Hit(request) ==
  /\ HasOperation(request) /\ RootKey(request) \in DOMAIN roots
  /\ roots[RootKey(request)][<<>>].is # "null"
Read(request) ==
  Denormalize([store |-> [id \in DOMAIN entities \cup {<<>>} |->
                            IF id = <<>> THEN roots[RootKey(request)] ELSE entities[id]],
               fragments |-> request.document.fragments, variables |-> request.variables],
              Selections(request))

\* An entity that was stored before is merged with what came now.
KeepsFirst(old, new) == MergePatch(new, old)   \* mutant: the older value wins
Merge(old, new) == MergePatch(old, new)

KnownOnly(store, id, fields) ==   \* mutant: forgets an entity that is new
  [i \in DOMAIN store |-> IF i = id THEN Merge(store[id], fields) ELSE store[i]]
StoreEntity(store, id, fields) ==
  [i \in DOMAIN store \cup {id} |->
     IF i # id THEN store[i]
     ELSE IF id \in DOMAIN store THEN Merge(store[id], fields) ELSE fields]

StoreAll(store, stored) ==
  Running(LAMBDA s, e : StoreEntity(s, e.id, e.fields), store, stored)

Response(request, data) ==
  [data |-> data, fragments |-> request.document.fragments, variables |-> request.variables]

Write(request, data) ==
  LET n == Normalize(Response(request, data), Selections(request))
      key == RootKey(request)
  IN IF ~HasOperation(request) THEN UNCHANGED cacheVars
     ELSE /\ entities' = StoreAll(entities, n.stored)[Len(n.stored)]
          /\ roots' = [k \in DOMAIN roots \cup {key} |-> IF k = key THEN n.value ELSE roots[k]]

Evict(request) ==
  /\ roots' = [k \in DOMAIN roots \ {RootKey(request)} |-> roots[k]]
  /\ UNCHANGED entities

EvictEntity(id) ==
  /\ entities' = [i \in DOMAIN entities \ {id} |-> entities[i]]
  /\ UNCHANGED roots
=============================================================================
