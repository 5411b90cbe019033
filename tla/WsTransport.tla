----------------------------- MODULE WsTransport -----------------------------
(***************************************************************************)
(* One WsTransport with its stream: the chain resolve, connect, handshake, *)
(* read, read ... and, beside it, the queue of writes of which one is in   *)
(* flight.  Every action but those of the network is one handler on the    *)
(* Asio thread.  An operation that finished waits as "ok" or "error" until *)
(* its handler runs; other handlers and Close() may run in between.        *)
(*                                                                         *)
(* The owner (WsConnectionContext) does not send before onConnected:       *)
(* WsConnection!SendsAreTimely.  Messages have numbers, in either          *)
(* direction from 1.                                                       *)
(***************************************************************************)
EXTENDS Naturals, Sequences

CONSTANTS
  Tls,           \* is the stream a WssStream?
  MaxSends,      \* bound: messages the owner sends
  MaxArrivals    \* bound: messages the server sends

ASSUME TlsAssumption == Tls \in BOOLEAN
ASSUME BoundsAssumption == MaxSends \in Nat /\ MaxArrivals \in Nat

VARIABLES
  phase,         \* where connecting stands
  sock,          \* the TCP socket
  \* members of WsTransport
  writeQueue, writing, disconnected,
  readBuf,       \* the messages in _readBuf; async_read appends to it
  \* operations of the stream
  read, write,   \* "none", "pending" or how it ended
  flight,        \* the message whose bytes the last async_write was given
  \* what the owner and the server see
  accepted, wire, delivered,
  told           \* how often onDisconnected was called

connectVars == <<phase, sock>>
writeVars == <<writeQueue, writing, write, flight, accepted>>
readVars == <<readBuf, read, delivered>>
lossVars == <<disconnected, told>>
vars == <<connectVars, writeVars, readVars, lossVars, wire>>

Phases == {"new", "resolving", "connecting", "securing", "upgrading", "open",
           "failed"}
Operation == {"none", "pending", "ok", "error", "overlapping"}

TypeOK ==
  /\ phase \in Phases
  /\ sock \in {"none", "open", "closed"}
  /\ writeQueue \in Seq(Nat)
  /\ writing \in BOOLEAN
  /\ disconnected \in BOOLEAN
  /\ readBuf \in Seq(Nat)
  /\ read \in Operation
  /\ write \in Operation
  /\ flight \in Nat
  /\ accepted \in Nat
  /\ wire \in Seq(Nat)
  /\ delivered \in Seq(Seq(Nat))
  /\ told \in 0..1

Init ==
  /\ phase = "new" /\ sock = "none"
  /\ writeQueue = <<>> /\ writing = FALSE /\ disconnected = FALSE
  /\ readBuf = <<>> /\ read = "none"
  /\ write = "none" /\ flight = 0
  /\ accepted = 0 /\ wire = <<>> /\ delivered = <<>> /\ told = 0

-----------------------------------------------------------------------------
(* Write(): async_write gets the bytes of the front of the queue.  Two writes  *)
(* at once are undefined behaviour in Beast.                                  *)
Started(op) == IF op = "pending" THEN "overlapping" ELSE "pending"

WriteBack(queue) ==         \* mutant: takes back() for front()
  write' = Started(write) /\ flight' = queue[Len(queue)]
Write(queue) == write' = Started(write) /\ flight' = Head(queue)

\* Send(), n times in a row: the messages queue up and, if no write is in
\* flight, the first one starts.
WritesAlways == TRUE        \* mutant: does not test _writing
MayWrite == ~writing

SendMany(n) ==
  /\ accepted + n <= MaxSends
  /\ accepted' = accepted + n
  /\ writeQueue' = writeQueue \o [i \in 1..n |-> accepted + i]
  /\ IF n > 0 /\ MayWrite
     THEN writing' = TRUE /\ Write(writeQueue')
     ELSE UNCHANGED <<writing, write, flight>>

\* FireDisconnected: the owner hears of the end once.
FireIfOpen ==               \* mutant: no report of a failure to connect
  IF disconnected \/ phase # "open" THEN UNCHANGED lossVars
  ELSE disconnected' = TRUE /\ told' = told + 1
FireDisconnected ==
  IF disconnected THEN UNCHANGED lossVars
  ELSE disconnected' = TRUE /\ told' = told + 1

\* Read(): an empty buffer for the next message.
Read == read' = "pending" /\ readBuf' = <<>>

-----------------------------------------------------------------------------
(* Calls of the owner *)

Connect ==
  /\ phase = "new" /\ phase' = "resolving"
  /\ UNCHANGED <<sock, writeVars, readVars, lossVars, wire>>

Send ==
  /\ phase = "open" /\ ~disconnected
  /\ SendMany(1)
  /\ UNCHANGED <<connectVars, readVars, lossVars, wire>>

\* Close() closes the socket under whatever is pending; before OnResolved there
\* is nothing to close.
Close ==
  /\ sock = "open" /\ sock' = "closed"
  /\ UNCHANGED <<phase, writeVars, readVars, lossVars, wire>>

-----------------------------------------------------------------------------
(* Connecting *)

OnResolved ==
  /\ phase = "resolving" /\ phase' = "connecting"
  /\ sock' = "open"
  /\ UNCHANGED <<writeVars, readVars, lossVars, wire>>

\* async_connect succeeded; WssStream puts the TLS handshake first.
OnTcpConnected ==
  /\ phase = "connecting" /\ sock = "open"
  /\ phase' = IF Tls THEN "securing" ELSE "upgrading"
  /\ UNCHANGED <<sock, writeVars, readVars, lossVars, wire>>

OnSecured ==
  /\ phase = "securing" /\ sock = "open"
  /\ phase' = "upgrading"
  /\ UNCHANGED <<sock, writeVars, readVars, lossVars, wire>>

\* The WebSocket handshake succeeded: onConnected, in which the owner may send,
\* then Read.
OnConnected ==
  /\ phase = "upgrading" /\ sock = "open" /\ phase' = "open"
  /\ \E n \in 0..MaxSends : SendMany(n)
  /\ Read
  /\ UNCHANGED <<sock, delivered, lossVars, wire>>

\* Resolving, connecting or a handshake failed.
OnConnectFailed ==
  /\ phase \in {"resolving", "connecting", "securing", "upgrading"}
  /\ phase' = "failed"
  /\ sock' = IF sock = "none" THEN "none" ELSE "closed"
  /\ FireDisconnected
  /\ UNCHANGED <<writeVars, readVars, wire>>

-----------------------------------------------------------------------------
(* Reading and writing *)

\* OnRead: onMessage with all of the buffer, then Read again.  The owner may
\* answer in the callback (ReplaySubs sends several messages), and one that is stopping
\* even after onDisconnected.
OnMessage ==
  /\ read = "ok"
  /\ delivered' = Append(delivered, readBuf)
  /\ \E n \in 0..MaxSends : SendMany(n)
  /\ Read
  /\ UNCHANGED <<connectVars, lossVars, wire>>

OnReadFailed ==
  /\ read = "error" /\ read' = "none"
  /\ FireDisconnected
  /\ UNCHANGED <<connectVars, writeVars, readBuf, delivered, wire>>

\* OnWrite without an error: the next message, if there is one.
StopWriting(queue) == writing' = FALSE /\ write' = "none" /\ UNCHANGED flight
   \* mutant: never goes on with the queue
GoOn(queue) ==
  IF queue = <<>>
  THEN writing' = FALSE /\ write' = "none" /\ UNCHANGED flight
  ELSE Write(queue) /\ UNCHANGED writing

KeepFront == UNCHANGED writeQueue   \* mutant: forgets pop_front()
PopFront == writeQueue' = Tail(writeQueue)

OnWritten ==
  /\ write = "ok"
  /\ PopFront
  /\ GoOn(writeQueue')
  /\ UNCHANGED <<connectVars, readVars, accepted, lossVars, wire>>

\* OnWrite with an error: the queue is dropped.
OnWriteFailed ==
  /\ write = "error"
  /\ writeQueue' = <<>>
  /\ writing' = FALSE /\ write' = "none"
  /\ FireDisconnected
  /\ UNCHANGED <<connectVars, readVars, flight, accepted, wire>>

-----------------------------------------------------------------------------
(* The network *)

\* The peer closes, resets or violates the protocol: the stream is dead.
Drops ==
  /\ sock = "open" /\ sock' = "closed"
  /\ UNCHANGED <<phase, writeVars, readVars, lossVars, wire>>

WriteSucceeds ==
  /\ write = "pending" /\ sock = "open"
  /\ write' = "ok"
  /\ wire' = Append(wire, flight)
  /\ UNCHANGED <<connectVars, readVars, lossVars, writeQueue, writing,
                 flight, accepted>>

WriteFails ==
  /\ write = "pending" /\ sock # "open"
  /\ write' = "error"
  /\ UNCHANGED <<connectVars, readVars, lossVars, writeQueue, writing,
                 flight, accepted, wire>>

MessageArrives ==
  /\ read = "pending" /\ sock = "open"
  /\ Len(delivered) < MaxArrivals
  /\ read' = "ok"
  /\ readBuf' = Append(readBuf, Len(delivered) + 1)
  /\ UNCHANGED <<connectVars, writeVars, delivered, lossVars, wire>>

ReadFails ==
  /\ read = "pending" /\ sock # "open"
  /\ read' = "error"
  /\ UNCHANGED <<connectVars, writeVars, readBuf, delivered, lossVars, wire>>

-----------------------------------------------------------------------------
Owner == Connect \/ Send \/ Close

Handlers ==
  \/ OnResolved \/ OnTcpConnected \/ OnSecured \/ OnConnected \/ OnConnectFailed
  \/ OnMessage \/ OnReadFailed \/ OnWritten \/ OnWriteFailed

Network ==
  Drops \/ WriteSucceeds \/ WriteFails \/ MessageArrives \/ ReadFails

Next == Owner \/ Handlers \/ Network

Spec == Init /\ [][Next]_vars

\* Handlers that are ready run, and operations end: reads and writes of a dead
\* stream at once, writes of a live one when the peer takes the bytes.  The
\* resolver answers; TCP and TLS are up or given up 30 s later (expires_after).  A
\* server may leave the WebSocket handshake unanswered for ever (expires_never),
\* but closing the socket aborts it.
ConnectEnds ==
  phase # "upgrading" /\ (OnResolved \/ OnTcpConnected \/ OnSecured \/ OnConnectFailed)
UpgradeAborts == phase = "upgrading" /\ sock = "closed" /\ OnConnectFailed
Fairness ==
  /\ WF_vars(ConnectEnds) /\ WF_vars(UpgradeAborts)
  /\ WF_vars(OnMessage \/ OnReadFailed) /\ WF_vars(OnWritten \/ OnWriteFailed)
  /\ WF_vars(WriteSucceeds \/ WriteFails) /\ WF_vars(ReadFails)

FairSpec == Spec /\ Fairness

-----------------------------------------------------------------------------
(* Properties *)

\* Beast allows one async_write at a time, and its bytes must stay where they
\* are: a write is outstanding exactly while _writing is set, and what it sends
\* is the front of _writeQueue.
WriteOwnsBuffer ==
  /\ write # "overlapping"
  /\ writing <=> write # "none"
  /\ writing <=> writeQueue # <<>>
  /\ writing => flight = Head(writeQueue)

\* Nothing is lost in between: a message Send() accepted is on the wire, being
\* written or queued, in that order, unless the connection is gone.
InFlight == IF write = "ok" THEN 1 ELSE 0
NothingSkipped ==
  ~disconnected =>
    /\ Len(wire) + Len(writeQueue) = accepted + InFlight
    /\ \A i \in DOMAIN writeQueue :
         writeQueue[i] + InFlight = Len(wire) + i

\* _readBuf holds the one message its owner is about to see, nothing of the
\* message before.
OneMessageBuffered ==
  /\ read = "pending" => readBuf = <<>>
  /\ read = "ok" => readBuf = <<Len(delivered) + 1>>

\* A transport that gave up has told its owner, and one that did not tell still
\* has an operation that will notice the end.
EndWillBeNoticed ==
  /\ phase = "failed" => disconnected
  /\ phase = "open" /\ ~disconnected => read # "none"

\* The transport keeps the contract its owner relies on.
Status ==
  CASE disconnected -> "lost"
    [] ~disconnected /\ phase = "open" -> "connected"
    [] ~disconnected /\ phase = "new" -> "new"
    [] OTHER -> "trying"
Contract == INSTANCE WsTransportContract WITH
  status <- Status, told <- told, accepted <- accepted, wire <- wire,
  delivered <- delivered
KeepsContract == Contract!Spec

\* A message is transmitted or the owner learns that the connection is gone.
MessagesSettle ==
  \A n \in 1..MaxSends : accepted >= n ~> Len(wire) >= n \/ disconnected

\* Closing an open socket ends in onDisconnected: the reconnect logic never
\* waits for a transport that was closed under it.
CloseSettles == sock = "closed" ~> disconnected
=============================================================================
