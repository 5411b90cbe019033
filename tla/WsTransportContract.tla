------------------------- MODULE WsTransportContract -------------------------
(***************************************************************************)
(* What a WsTransport promises the WsConnectionContext that owns it, told  *)
(* through its callbacks and the messages that pass: it connects at most   *)
(* once and is lost at most once, it transmits what Send() accepted in     *)
(* order and without gaps, and it hands over every message it received     *)
(* once, in order and whole.                                               *)
(***************************************************************************)
EXTENDS Naturals, Sequences

VARIABLES
  status,      \* "new", "trying", "connected" or "lost"
  told,        \* how often onDisconnected was called
  accepted,    \* how many messages Send() took; the n-th one is called n
  wire,        \* the messages transmitted
  delivered    \* what onMessage was called with, each a sequence of messages

contractVars == <<status, told, accepted, wire, delivered>>

Init ==
  /\ status = "new" /\ told = 0
  /\ accepted = 0 /\ wire = <<>> /\ delivered = <<>>

Connect ==
  /\ status = "new" /\ status' = "trying"
  /\ UNCHANGED <<told, accepted, wire, delivered>>

\* onConnected; the owner may send messages in it.
ReportConnected ==
  /\ status = "trying" /\ status' = "connected"
  /\ accepted' >= accepted
  /\ UNCHANGED <<told, wire, delivered>>

Send ==
  /\ status = "connected"
  /\ accepted' = accepted + 1
  /\ UNCHANGED <<status, told, wire, delivered>>

Transmit ==
  /\ status = "connected" /\ Len(wire) < accepted
  /\ wire' = Append(wire, Len(wire) + 1)
  /\ UNCHANGED <<status, told, accepted, delivered>>

\* onMessage.  It may come once more after onDisconnected: a read that had
\* finished when a failed write was reported still hands over its message, and
\* an owner that is stopping may answer it in vain.
Deliver ==
  /\ status \in {"connected", "lost"}
  /\ delivered' = Append(delivered, <<Len(delivered) + 1>>)
  /\ accepted' >= accepted
  /\ UNCHANGED <<status, told, wire>>

\* onDisconnected
ReportDisconnected ==
  /\ status \in {"trying", "connected"} /\ status' = "lost"
  /\ told' = told + 1
  /\ UNCHANGED <<accepted, wire, delivered>>

Next ==
  \/ Connect \/ ReportConnected \/ Send \/ Transmit \/ Deliver
  \/ ReportDisconnected

Spec == Init /\ [][Next]_contractVars
=============================================================================
