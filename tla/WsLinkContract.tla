---------------------------- MODULE WsLinkContract ----------------------------
(***************************************************************************)
(* What a WsLink promises its subscribers, whatever connections come and go  *)
(* behind it: each of them listens until one end; an end that nobody asked   *)
(* for is an error only while no server ever accepted the link, and a        *)
(* completion only after the server's last word on this very subscription or *)
(* because the link is going away.                                          *)
(*                                                                         *)
(* This is the code's promise, and docs/transports/links.md:118's: once      *)
(* accepted, a link reconnects for as long as it takes.                     *)
(* docs/core/subscriptions.md:133-135 has an error reach the subscription    *)
(* when "the retry budget is exhausted"; the code keeps no such budget       *)
(* (WsConnection!RetriesAreBounded).                                        *)
(***************************************************************************)
CONSTANT Subs

VARIABLES
  phase,      \* "new", "live", "completed", "failed" or "cancelled", for each one
  accepted,   \* did a server ever acknowledge the link?
  closing,    \* is the link being destroyed?
  lastWords   \* the subscriptions whose end the server announced to this link

contractVars == <<phase, accepted, closing, lastWords>>

Init ==
  /\ phase = [s \in Subs |-> "new"]
  /\ accepted = FALSE /\ closing = FALSE /\ lastWords = {}

\* Subscribers that no longer listen get nothing.
End(S, how) ==
  phase' = [s \in Subs |-> IF s \in S /\ phase[s] = "live" THEN how ELSE phase[s]]

\* What the server said is acted upon, or lost with the connection.
Used == lastWords' \subseteq lastWords

-----------------------------------------------------------------------------
(* The application *)
Subscribe(s) ==
  /\ phase[s] = "new" /\ phase' = [phase EXCEPT ![s] = "live"]
  /\ UNCHANGED <<accepted, closing, lastWords>>

Unsubscribe(s) ==
  /\ phase[s] = "live" /\ phase' = [phase EXCEPT ![s] = "cancelled"]
  /\ UNCHANGED <<accepted, closing, lastWords>>

\* Destroying the link, in a callback also completes subscribers there and then.
Close(S) ==
  /\ closing' = TRUE /\ End(S, "completed") /\ Used
  /\ UNCHANGED accepted

-----------------------------------------------------------------------------
(* The server and the link *)
Accept ==
  /\ accepted' = TRUE /\ Used
  /\ UNCHANGED <<phase, closing>>

LastWord(s) ==
  /\ lastWords' = lastWords \cup {s}
  /\ UNCHANGED <<phase, accepted, closing>>

Lose == Used /\ UNCHANGED <<phase, accepted, closing>>

Complete(S) ==
  /\ closing \/ S \subseteq lastWords
  /\ End(S, "completed") /\ Used
  /\ UNCHANGED <<accepted, closing>>

Fail(S) ==
  /\ ~accepted
  /\ End(S, "failed") /\ Used
  /\ UNCHANGED <<accepted, closing>>

-----------------------------------------------------------------------------
Next ==
  \/ Lose \/ Accept
  \/ \E s \in Subs : Subscribe(s) \/ Unsubscribe(s) \/ LastWord(s)
  \/ \E S \in SUBSET Subs : Close(S) \/ Complete(S) \/ Fail(S)

Spec == Init /\ [][Next]_contractVars
=============================================================================
