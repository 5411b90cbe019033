-------------------------- MODULE MCCacheCoherence --------------------------
(* TLC instances of CacheCoherence: two users who are friends, two products     *)
(* with a composite key, a mutation, and requests over them.                   *)
EXTENDS CacheCoherence, GraphQLServer

Policies == [type \in {<<"Product">>} |-> <<"sku", "region">>]
FactSet == {"name"}

ValueSet == {"old", "new"}

Scalar(word) == Value(AText(<<word>>))

MCGraph(d) ==
  LET typename == <<"__typename">>
      user(id, name, friend) ==
        [f \in {typename, <<"id">>, <<"name">>, <<"friend">>, <<"avatar", "small">>,
               <<"avatar", "large">>} |->
           CASE f = typename -> Scalar("User") [] f = <<"id">> -> Scalar(id)
             [] f = <<"name">> -> name         [] f = <<"friend">> -> Link(friend)
             [] OTHER -> Value(AText(<<id, f[2]>>))]
      product(region, price) ==
        [f \in {typename, <<"sku">>, <<"region">>, <<"price">>} |->
           CASE f = typename -> Scalar("Product") [] f = <<"sku">> -> Scalar("7")
             [] f = <<"region">> -> Scalar(region) [] OTHER -> price]
  IN [query |-> [f \in {typename, <<"user", "1">>, <<"user", "2">>, <<"users">>,
                        <<"products">>} |->
         CASE f = typename -> Scalar("Query")
           [] f = <<"user", "1">> -> Link("ann") [] f = <<"user", "2">> -> Link("bob")
           [] f = <<"users">> -> List(<<Link("ann"), Link("bob")>>)
           [] OTHER -> List(<<Link("east"), Link("west")>>)],
      mutation |-> [f \in {typename, <<"rename", "1">>} |->
         IF f = typename THEN Scalar("Mutation") ELSE Link("ann")],
      ann |-> user("1", IF d["name"] = "none" THEN Value(ANull) ELSE Scalar(d["name"]), "bob"),
      bob |-> user("2", Scalar("Bob"), "ann"),
      east |-> product("E", Scalar("4")),
      west |-> product("W", Scalar("5"))]

MCAnswers(requests, values) ==
  [r \in requests |-> [d \in [FactSet -> values] |-> Answer(r, MCGraph(d))]]

-----------------------------------------------------------------------------
\* Requests are built from documents as an application writes them: AddTypename
\* adds the __typename fields.
Plain(name) == Field("", name, <<>>, <<>>, <<>>)
Under(name, set) == Field("", name, <<>>, <<>>, set)
With(name, arg, set) == Field("", name, <<Argument(arg, "$" \o arg)>>, <<>>, set)
Aliased(key, name, set) == Field(key, name, <<>>, <<>>, set)
On(type, set) == Inline(type, <<>>, set)
IdAndName == <<Plain("id"), Plain("name")>>

NoFragments == [name \in {} |-> Fragment("", <<>>)]
Friends ==
  [name \in {"Friends"} |->
     Fragment("User", <<Plain("name"), Under("friend", IdAndName)>>)]

\* What a key of the cache holds of a request: the text in one piece.
Text(tokens) == Running(LAMBDA text, token : text \o " " \o token, "", tokens)[Len(tokens)]

Build(type, name, id, size, set, fragments) ==
  LET declared == <<Variable("$id", "ID!", ""), Variable("$size", "Size", "")>>
      doc == AddTypename(Document(<<Operation(type, name, declared, set)>>, fragments))
      text == PrintDocument(doc, CHOOSE order \in Orders(doc) : TRUE)
  IN [type |-> type, query |-> Text(text),
      variables |-> [v \in {"$id", "$size"} |-> IF v = "$id" THEN id ELSE size],
      document |-> doc]

User(id, size) ==
  Build("query", "User", id, size,
        <<With("user", "id", Append(IdAndName, With("avatar", "size", <<>>)))>>, NoFragments)
FriendOf(id) ==
  Build("query", "FriendOf", id, "small",
        <<With("user", "id", <<Plain("id"), Aliased("pal", "friend", IdAndName)>>)>>, NoFragments)
Lists ==
  Build("query", "Lists", "1", "small",
        <<Under("users", <<Plain("id"), Spread("Friends", <<>>),
                           On("Product", <<Plain("price")>>)>>),
          Under("products", <<Plain("sku"), Plain("region"), Plain("price")>>)>>, Friends)
Rename ==
  Build("mutation", "Rename", "1", "small",
        <<With("rename", "id", <<Plain("id"), On("", <<Plain("name")>>)>>)>>, NoFragments)

Sound == MCAnswers(
  {User("1", "small"), User("1", "large"), FriendOf("2"), Lists, Rename}, ValueSet)

\* A scalar under an alias.
Alias == MCAnswers(
  {User("1", "small"),
   Build("query", "Aliased", "1", "small",
         <<With("user", "id", <<Plain("id"), Aliased("label", "name", <<>>)>>)>>, NoFragments)}, ValueSet)

\* An object selected with its id here and without it there.
Mixed == MCAnswers(
  {FriendOf("2"),
   Build("query", "Anonymous", "2", "small",
         <<With("user", "id", <<Plain("id"), Aliased("pal", "friend", <<Plain("name")>>)>>)>>,
         NoFragments)}, ValueSet)

NullableValues == {"old", "none"}
Nullable == MCAnswers({User("1", "small")}, NullableValues)

\* TLC evaluates what a constant stands for whenever it is used, other definitions
\* once.
SoundAnswers == Sound
AliasAnswers == Alias
MixedAnswers == Mixed
NullableAnswers == Nullable
NameSet == STRING \ Punctuators
=============================================================================
