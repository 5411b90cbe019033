---------------------------- MODULE MCRequestText ----------------------------
(* TLC instances of RequestText: a query for users and their friends, short,    *)
(* named or with variables, a mutation, two operations in one document, and two *)
(* fragments.                                                                  *)
EXTENDS RequestReading

Plain(name) == Field("", name, <<>>, <<>>, <<>>)
Under(name, set) == Field("", name, <<>>, <<>>, set)
IfFlag == <<Directive("include", <<Argument("if", "$flag")>>)>>
Defer == <<Directive("defer", <<>>), Directive("label", <<Argument("as", "1"), Argument("or", "2")>>)>>

UserById == Field("", "user", <<Argument("id", "$id"), Argument("size", "8")>>, <<>>, <<Plain("name")>>)

NoFragments == [name \in {} |-> Fragment("", <<>>)]
OneFragment == [name \in {"Names"} |-> Fragment("User", <<Plain("name")>>)]
TwoFragments ==
  [name \in {"Names", "Prices"} |->
     IF name = "Names" THEN Fragment("User", <<Plain("name")>>)
     ELSE Fragment("Product", <<Plain("price")>>)]

Id == Variable("$id", "ID!", "")
First == Variable("$first", "Int", "10")

MCSketches ==
  {Document(<<Operation("query", "", <<>>, <<Under("node", <<Spread("Names", <<>>)>>)>>)>>, TwoFragments),
   Document(<<Operation("query", "", <<Id, First>>, <<UserById>>)>>, OneFragment),
   Document(<<Operation("query", "Named", <<>>, <<Plain("hello")>>),
              Operation("mutation", "Rename", <<Id>>, <<UserById>>)>>, OneFragment),
   Document(<<Operation("subscription", "", <<>>, <<Under("onMessage", <<Plain("text")>>)>>)>>, OneFragment),
   Document(<<>>, OneFragment)}

SomeAdditions ==
  {Field("", "id", <<>>, IfFlag, <<>>),
   Field("me", "user", <<Argument("id", "7")>>, <<>>, <<Plain("id")>>),
   Field("kind", "__typename", <<>>, <<>>, <<>>), TypeName,
   Inline("User", Defer, <<Plain("name")>>), Inline("", IfFlag, <<Plain("name")>>),
   Inline("Product", <<>>, <<Under("maker", <<Plain("name")>>)>>),
   Spread("Names", IfFlag)}

\* A __typename under a condition.
ConditionalAdditions == {Field("", "__typename", <<>>, IfFlag, <<>>)}

TypeSet == {"User", "Product"}

NameSet == STRING \ Punctuators
=============================================================================
