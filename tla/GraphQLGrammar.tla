---------------------------- MODULE GraphQLGrammar ----------------------------
(***************************************************************************)
(* Reference: the grammar of GraphQL documents, as far as Documents has     *)
(* them, as a reader that takes a text token by token.  This is what a       *)
(* server, and the cache by ParseDocument, make of a printed text.           *)
(***************************************************************************)
EXTENDS Documents, RunningFolds

\* A frame is a selection set that is being read: the selections before the last
\* one, the last one as far as it was read, and the frame around it.
Frame(set, sel, around) == [set |-> set, sel |-> sel, around |-> around]
NoFrame == <<>>
NoSelection == Inline("", <<>>, <<>>)

\* A list in brackets: its parts before the last one, and the last one so far.
List(parts, part) == [parts |-> parts, part |-> part]
NoList == List(<<>>, <<>>)

\* A reader: the definitions it has read, the words and the variables of the next
\* one, the innermost frame, and what it is reading now.
Reader(doc, words, variables, at, list, mode) ==
  [doc |-> doc, words |-> words, variables |-> variables, at |-> at, list |-> list,
   mode |-> mode]

Continue(r, at, mode) == Reader(r.doc, r.words, r.variables, at, r.list, mode)
Selecting(r, sel, mode) == Continue(r, Frame(r.at.set, sel, r.at.around), mode)
Listing(r, parts, part) ==
  Reader(r.doc, r.words, r.variables, r.at, List(parts, part), r.mode)

-----------------------------------------------------------------------------
\* A definition ends with its selection set.
DefineFragment(doc, name, fragment) ==
  Document(doc.operations,
           [n \in DOMAIN doc.fragments \cup {name} |->
              IF n = name THEN fragment ELSE doc.fragments[n]])
DefineOperation(doc, op) == Document(Append(doc.operations, op), doc.fragments)
Define(doc, words, variables, set) ==
  IF words = <<>> THEN DefineOperation(doc, Operation("query", "", <<>>, set))
  ELSE IF words[1] = "fragment" THEN DefineFragment(doc, words[2], Fragment(words[4], set))
  ELSE DefineOperation(doc, Operation(words[1], IF Len(words) = 1 THEN "" ELSE words[2],
                                      variables, set))

OpenSet(r) == Continue(r, Frame(<<>>, NoSelection, r.at), "set")
SoFar(r) == IF r.mode = "set" THEN <<>> ELSE Append(r.at.set, r.at.sel)
WithinFrame(r, frame, set) ==
  Continue(r, Frame(frame.set, [frame.sel EXCEPT !.set = set], frame.around), "selection")
CloseSet(r) ==
  LET set == SoFar(r)
  IN IF r.at.around # NoFrame THEN WithinFrame(r, r.at.around, set)
     ELSE Reader(Define(r.doc, r.words, r.variables, set), <<>>, <<>>, NoFrame, NoList,
                 "definition")

\* A selection begins.
Begin(r, token) ==
  IF token = "..." THEN Continue(r, Frame(SoFar(r), NoSelection, r.at.around), "spread")
  ELSE Continue(r, Frame(SoFar(r), Field("", token, <<>>, <<>>, <<>>), r.at.around),
                "selection")

\* Arguments belong to the last directive, if there is one.
WithArguments(sel, args) ==
  IF sel.directives = <<>> THEN [sel EXCEPT !.args = args]
  ELSE [sel EXCEPT !.directives[Len(sel.directives)] = Directive(@.name, args)]

ReadVariable(part) ==
  Variable(part[1], part[3], IF Len(part) = 3 THEN "" ELSE part[5])
EndList(r, parts) ==
  IF r.mode = "variables"
  THEN Reader(r.doc, r.words, [i \in DOMAIN parts |-> ReadVariable(parts[i])], r.at,
              NoList, "definition")
  ELSE Selecting(Listing(r, <<>>, <<>>),
                 WithArguments(r.at.sel,
                               [i \in DOMAIN parts |-> Argument(parts[i][1], parts[i][3])]),
                 "selection")

-----------------------------------------------------------------------------
(* What a token is where it comes *)

InDefinition(r, token) ==
  IF token = "{" THEN OpenSet(r)
  ELSE IF token = "(" THEN Continue(r, r.at, "variables")
  ELSE Reader(r.doc, Append(r.words, token), r.variables, r.at, r.list, r.mode)

InList(r, token) ==
  LET parts == Append(r.list.parts, r.list.part)
  IN IF token = "," THEN Listing(r, parts, <<>>)
     ELSE IF token = ")" THEN EndList(r, parts)
     ELSE Listing(r, r.list.parts, Append(r.list.part, token))

InSet(r, token) ==
  CASE token = "}" -> CloseSet(r)
    [] token = "{" -> OpenSet(r)
    [] token = "(" -> Continue(r, r.at, "arguments")
    [] token = "@" -> Continue(r, r.at, "directive")
    [] token = ":" -> Continue(r, r.at, "name")
    [] OTHER -> Begin(r, token)

InSpread(r, token) ==
  IF token = "on" THEN Continue(r, r.at, "condition")
  ELSE IF token \in {"@", "{"} THEN InSet(r, token)
  ELSE Selecting(r, Spread(token, <<>>), "selection")

InName(r, token) ==
  Selecting(r, Field(r.at.sel.name, token, <<>>, <<>>, <<>>), "selection")
InCondition(r, token) == Selecting(r, Inline(token, <<>>, <<>>), "selection")
InDirective(r, token) ==
  Selecting(r, [r.at.sel EXCEPT !.directives = Append(@, Directive(token, <<>>))], "selection")

Take(r, token) ==
  CASE r.mode = "definition" -> InDefinition(r, token)
    [] r.mode \in {"variables", "arguments"} -> InList(r, token)
    [] r.mode \in {"set", "selection"} -> InSet(r, token)
    [] r.mode = "spread" -> InSpread(r, token)
    [] r.mode = "name" -> InName(r, token)
    [] r.mode = "condition" -> InCondition(r, token)
    [] r.mode = "directive" -> InDirective(r, token)

Read(r, text) == Running(Take, r, text)[Len(text)]

Start ==
  Reader(Document(<<>>, [name \in {} |-> Fragment("", <<>>)]), <<>>, <<>>, NoFrame, NoList,
         "definition")
ParseDocument(text) == Read(Start, text).doc
=============================================================================
