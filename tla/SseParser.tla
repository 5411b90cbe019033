------------------------------ MODULE SseParser ------------------------------
(***************************************************************************)
(* ParseSseEvents: what an HttpLink makes of the text of an event stream.   *)
(*                                                                         *)
(* A text is a sequence of tokens: the content of a line, "\r" or "\n".     *)
(* Texts are cut between tokens only: the parser looks at nothing after    *)
(* the last empty line, so a cut inside a line is a cut in front of it.    *)
(***************************************************************************)
EXTENDS Naturals, Sequences, RunningFolds

Token(kind, is, spaced) == [kind |-> kind, is |-> is, spaced |-> spaced]
NL == Token("newline", "", FALSE)
CR == Token("return", "", FALSE)
Event(name) == Token("event", name, FALSE)         \* event:name
SpacedEvent(name) == Token("event", name, TRUE)    \* event: name
Data(value) == Token("data", value, FALSE)

\* A value that is not JSON: nlohmann's parser throws.
Junk == "junk"

-----------------------------------------------------------------------------
(* chunk_by_blank(split(text, '\n')): the lines between empty lines.  "ended"  *)
(* says that the last line is complete, so that a further newline is an empty  *)
(* line.                                                                       *)
AddToken(acc, token) ==
  IF token # NL
  THEN [acc EXCEPT !.block = Append(@, token), !.ended = FALSE]
  ELSE IF ~acc.ended THEN [acc EXCEPT !.ended = TRUE]
  ELSE IF acc.block = <<>> THEN acc
  ELSE [blocks |-> Append(acc.blocks, acc.block), block |-> <<>>, ended |-> TRUE]

NoBlocks == [blocks |-> <<>>, block |-> <<>>, ended |-> TRUE]
Scan(text) == Running(AddToken, NoBlocks, text)
Blocks(text) == Scan(text)[Len(text)].blocks

First(places) == CHOOSE i \in places : \A j \in places : i <= j
Last(places) == CHOOSE i \in places : \A j \in places : j <= i

FirstOf(kind, block) ==
  LET lines == {i \in DOMAIN block : block[i].kind = kind}
  IN IF lines = {} THEN NL ELSE block[First(lines)]

\* Only the event's name is trimmed before it is compared with "next" ...
ParseSseBlock(block) ==
  IF FirstOf("event", block).is = "next" /\ FirstOf("data", block) # NL
  THEN <<FirstOf("data", block).is>>
  ELSE <<>>

\* ... the name compared with "complete" is not.
IsComplete(block) == FirstOf("event", block) = Event("complete")

-----------------------------------------------------------------------------
(* All that ends with an empty line is parsed, up to the event "complete"; the  *)
(* rest waits for more text.  A value that is not JSON makes the call throw,    *)
(* and the results of the whole call are lost.                                 *)
EmptyLines(text) == {i \in 2..Len(text) : text[i] = NL /\ text[i - 1] = NL}

FirstEmptyLine(text) == First(EmptyLines(text))   \* mutant: find() for find_end()
LastEmptyLine(text) == Last(EmptyLines(text))

\* erase(normalized, '\r')
KeepToken(kept, token) == IF token = CR THEN kept ELSE Append(kept, token)
Kept(payload) == Running(KeepToken, <<>>, payload)
Normalized(payload) == Kept(payload)[Len(payload)]

\* Where the first event "complete" is: behind all others if there is none.
Complete(blocks) ==
  LET ends == {i \in DOMAIN blocks : IsComplete(blocks[i])}
  IN IF ends = {} THEN Len(blocks) + 1 ELSE First(ends)

\* flat_map(blocks, ParseSseBlock), and that of the blocks before each.
AddValues(values, block) == values \o ParseSseBlock(block)
Values(blocks) == Running(AddValues, <<>>, blocks)

ParseSseEvents(payload) ==
  LET text == Normalized(payload)
      last == LastEmptyLine(text)
      blocks == Blocks(SubSeq(text, 1, last))
      results == Values(blocks)[Complete(blocks) - 1]
  IN IF EmptyLines(text) = {}
     THEN [results |-> <<>>, remaining |-> text, completed |-> FALSE, threw |-> FALSE]
     ELSE [results |-> results,
           remaining |-> SubSeq(text, last + 1, Len(text)),
           completed |-> Complete(blocks) <= Len(blocks),
           threw |-> \E i \in DOMAIN results : results[i] = Junk]
=============================================================================
