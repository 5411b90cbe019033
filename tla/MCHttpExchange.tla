--------------------------- MODULE MCHttpExchange ---------------------------
(* TLC instances of HttpExchange. *)
EXTENDS HttpExchange

Reply(status, framed, body) == [status |-> status, framed |-> framed, body |-> body]
Next1 == <<Event("next"), NL, Data("one"), NL>>
Next2 == <<SpacedEvent("next"), CR, NL, Data("two"), CR, NL>>

\* Texts of an event stream: line ends of both kinds, events that are complete,
\* incomplete, of another kind, without data, after the end, and not JSON.
Streams == {
  Next1 \o <<NL>> \o Next2 \o <<CR, NL, Event("complete"), NL, NL>>,
  Next1 \o <<NL, NL>> \o <<Event("complete"), NL, NL>> \o Next2 \o <<NL>>,
  <<NL>> \o Next1 \o <<NL, Event("next"), NL, NL>> \o Next2,
  <<Data("one"), NL, SpacedEvent("complete"), NL, NL>> \o Next1 \o <<NL>>,
  Next1 \o <<NL, Event("next"), NL, Data(Junk), NL, NL>> \o Next2 \o <<NL>>,
  <<Event("ping"), NL, Event("next"), NL, Data("one"), NL, NL>> \o Next2 \o <<NL>>,
  <<>> }
MCSseReplies ==
  [status : {"success"}, framed : BOOLEAN, body : Streams]
    \cup {Reply("failure", TRUE, <<Data("one")>>)}

MCPlainReplies ==
  [status : {"success"}, framed : BOOLEAN,
   body : {<<>>, <<Data(Junk)>>, <<Data("one")>>,
           <<Data("one"), Data("two"), Data("three")>>}]
    \cup {Reply("failure", f, <<Data("one")>>) : f \in BOOLEAN}
=============================================================================
