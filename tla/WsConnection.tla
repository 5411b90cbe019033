---------------------------- MODULE WsConnection ----------------------------
(***************************************************************************)
(* The WebSocket link of the client: WsLink, WsConnectionContext and what  *)
(* it sees of its WsTransports, on the single Asio thread that runs every  *)
(* handler.  Application threads, the network, the reconnect timer and the *)
(* server only append to the FIFO of ready handlers; one action runs one   *)
(* handler from its first line to its last.                                *)
(*                                                                         *)
(* A subscription id (a fresh UUID per rpp subscription) is a member of    *)
(* Subs; a WsTransport is numbered in the order of creation.  Payloads,    *)
(* URLs and requests are abstracted away.                                  *)
(***************************************************************************)
EXTENDS Naturals, FiniteSets, Sequences, SequencesExt

CONSTANTS
  Subs,         \* the operations the application ever subscribes to
  NoId,         \* the id of a message that has none: msg.value("id", "")
  MaxConns,     \* bound: WsTransports created in a behaviour
  MaxReady,     \* bound: others post only while fewer handlers are ready
  MaxHeld,      \* bound: messages that the connections hold unread
  LateTimer,    \* may an expired timer's handler come after others, or before
                \* a broken connection has been read to its end?
  DestroyedIn   \* where the application may destroy the link: on a thread of
                \* its own, inside on_next, inside on_completed or on_error

ASSUME SubsAssumption == IsFiniteSet(Subs) /\ NoId \notin Subs
ASSUME BoundsAssumption ==
  MaxConns \in Nat \ {0} /\ MaxReady \in Nat \ {0} /\ MaxHeld \in Nat \ {0}
ASSUME LateTimerAssumption == LateTimer \in BOOLEAN
ASSUME DestroyedInAssumption == DestroyedIn \subseteq {"thread", "next", "terminal"}

None == 0
Conns == 1..MaxConns

ConnectionStates == {"Idle", "Connecting", "Connected", "Reconnecting"}

ClientMsgs == [type : {"connection_init"}, id : {NoId}]
                \cup [type : {"subscribe", "complete"}, id : Subs]
ServerMsgs == [type : {"connection_ack", "ping"}, id : {NoId}]
                \cup [type : {"next", "error", "complete"}, id : Subs]

Bare(type) == [type |-> type, id |-> NoId]
Msg(type, s) == [type |-> type, id |-> s]

\* The handlers that can be on Asio's ready queue.
SubTask(op, s) == [op |-> op, sub |-> s]        \* "subscribe", "unsubscribe"
ConnTask(op, t) == [op |-> op, conn |-> t]      \* completions of transport t
MessageTask(t, m) == [op |-> "message", conn |-> t, msg |-> m]
Plain(op) == [op |-> op]                        \* "stop", "stopped", "timer"

\* All of them while the transports 1..n exist.
Tasks(n) ==
  [op : {"subscribe", "unsubscribe"}, sub : Subs]
    \cup [op : {"resolved", "connected", "failed", "writeFailed"}, conn : 1..n]
    \cup [op : {"message"}, conn : 1..n, msg : ServerMsgs]
    \cup [op : {"stop", "stopped", "timer"}]

VARIABLES
  ready,          \* FIFO of handlers that wait for the Asio thread
  \* members of WsConnectionContext
  state, subs, transport, everConnected, attempt,
  timer,          \* is a wait armed on _reconnectTimer?
  initError,      \* did ParseWsUrl throw in the constructor?
  stopper,        \* how far ~WsLink has come
  alive,          \* does weak_from_this().lock() still succeed?
  dangling,       \* was an iterator used that a callback invalidated?
  \* the WsTransports
  created,        \* how many exist so far
  chain,          \* where the connect / read chain of each one stands
  sock,           \* its TCP socket
  fired,          \* its _disconnected flag
  sent,           \* what went out on its open WebSocket, in order
  \* the server's side of each connection
  acked, over,    \* connection_ack sent; ids it ended with complete / error
  held,           \* what it sent and the socket or the stream still buffers
  \* the application's observers
  observer        \* their rpp life cycle

ctxVars == <<state, subs, transport, everConnected, attempt, timer>>
lifeVars == <<initError, stopper, alive, dangling>>
connVars == <<created, chain, sock, fired, sent>>
serverVars == <<acked, over, held>>
vars == <<ready, ctxVars, lifeVars, connVars, serverVars, observer>>

Chains == {"unused", "resolving", "resolved", "connecting", "upgrading",
           "connected", "reading", "delivered", "failing", "ended"}
Observers == {"new", "live", "completed", "failed", "cancelled"}
Stoppers == {"none", "flagged", "posted", "ran", "returned"}

TypeOK ==
  /\ created \in 0..MaxConns
  /\ ready \in Seq(Tasks(created))
  /\ state \in ConnectionStates
  /\ subs \in SUBSET Subs
  /\ transport \in 0..created
  /\ everConnected \in BOOLEAN
  /\ attempt \in 0..5
  /\ timer \in BOOLEAN
  /\ initError \in BOOLEAN
  /\ stopper \in Stoppers
  /\ alive \in BOOLEAN
  /\ dangling \in BOOLEAN
  /\ chain \in [Conns -> Chains]
  /\ \A t \in Conns : chain[t] = "unused" <=> t > created
  /\ sock \in [Conns -> {"none", "open", "closed"}]
  /\ fired \in [Conns -> BOOLEAN]
  /\ sent \in [Conns -> Seq(ClientMsgs)]
  /\ acked \in [Conns -> BOOLEAN]
  /\ over \in [Conns -> SUBSET Subs]
  /\ held \in [Conns -> Seq(ServerMsgs)]
  /\ observer \in [Subs -> Observers]

Init ==
  /\ ready = <<>>
  /\ state = "Idle" /\ subs = {} /\ transport = None
  /\ everConnected = FALSE /\ attempt = 0 /\ timer = FALSE
  /\ initError \in BOOLEAN
  /\ stopper = "none" /\ alive = TRUE /\ dangling = FALSE
  /\ created = 0
  /\ chain = [t \in Conns |-> "unused"]
  /\ sock = [t \in Conns |-> "none"]
  /\ fired = [t \in Conns |-> FALSE]
  /\ sent = [t \in Conns |-> <<>>]
  /\ acked = [t \in Conns |-> FALSE]
  /\ over = [t \in Conns |-> {}]
  /\ held = [t \in Conns |-> <<>>]
  /\ observer = [s \in Subs |-> "new"]

-----------------------------------------------------------------------------
(* Helpers *)

Stopping == stopper # "none"
Queued(task) == task \in ToSet(ready)
HasSubs == subs # {}
Live(S) == {s \in S : observer[s] = "live"}

\* The Asio thread takes the next handler, which is "task"; the handlers it
\* posts or whose operations end at once go behind everything queued.
Runs(task, posts) ==
  /\ ~dangling /\ ready # <<>>
  /\ Head(ready) = task
  /\ ready' = Tail(ready) \o posts

\* Another thread, the network or the timer queues a handler.
Posts(task) == Len(ready) < MaxReady /\ ready' = Append(ready, task)

\* WebSocket handshake done and TCP connection still up.
Open(t) == sock[t] = "open" /\ chain[t] \in {"connected", "reading", "delivered"}

\* WsTransport::Send: what reaches the connection, and the failed write that a
\* connection which is not open reports later (one write is in flight at a time).
Wire(t, msgs) ==
  IF msgs # <<>> /\ Open(t) THEN [sent EXCEPT ![t] = @ \o msgs] ELSE sent
WriteErrors(t, msgs) ==
  IF msgs # <<>> /\ ~Open(t) /\ ~Queued(ConnTask("writeFailed", t))
  THEN <<ConnTask("writeFailed", t)>> ELSE <<>>

\* A terminal signal reaches the observers in S that still listen, one after
\* the other; each disposes of its upstream, which posts an Unsubscribe.
Orders(S) == SetToSeqs(Live(S))
Signal(S, end) ==
  [s \in Subs |-> IF s \in S /\ observer[s] = "live" THEN end ELSE observer[s]]
Disposals(order) ==
  [i \in DOMAIN order |-> SubTask("unsubscribe", order[i])]

\* The TCP connection of t is gone, and with it all that was said on it but for
\* what the server's messages that are still held make of it.
Breaks(t) ==
  /\ sock' = [sock EXCEPT ![t] = "closed"]
  /\ sent' = [sent EXCEPT ![t] = <<>>]
  /\ acked' = [acked EXCEPT ![t] = FALSE]
  /\ over' = [over EXCEPT ![t] = {}]

\* ConnectTransport: a new WsTransport starts to resolve the host.
ConnectTransport ==
  /\ created < MaxConns
  /\ created' = created + 1
  /\ transport' = created + 1
  /\ chain' = [chain EXCEPT ![created + 1] = "resolving"]

-----------------------------------------------------------------------------
(* Calls on application threads *)

\* Subscribing to link.Execute(request).  The lambda keeps the context alive,
\* so a call that raced with ~WsLink may still post after Stop().
Subscribe(s) ==
  /\ alive /\ observer[s] = "new"
  /\ observer' = [observer EXCEPT ![s] = "live"]
  /\ Posts(SubTask("subscribe", s))
  /\ UNCHANGED <<ctxVars, lifeVars, connVars, serverVars>>

\* Subscription::Unsubscribe on the handle that subscribe() returned.
Unsubscribe(s) ==
  /\ observer[s] = "live"
  /\ observer' = [observer EXCEPT ![s] = "cancelled"]
  /\ Posts(SubTask("unsubscribe", s))
  /\ UNCHANGED <<ctxVars, lifeVars, connVars, serverVars>>

\* ~WsLink on an application thread: raise _stopping, ...
BeginStop ==
  /\ "thread" \in DestroyedIn /\ stopper = "none"
  /\ stopper' = "flagged"
  /\ UNCHANGED <<ready, ctxVars, initError, alive, dangling, connVars,
                 serverVars, observer>>

\* ... then post StopOnContext and wait for the promise.
PostStop ==
  /\ stopper = "flagged"
  /\ stopper' = "posted"
  /\ Posts(Plain("stop"))
  /\ UNCHANGED <<ctxVars, initError, alive, dangling, connVars, serverVars,
                 observer>>

\* The last shared_ptr to the context goes away once the link is gone and no
\* posted handler holds one.
Release ==
  /\ alive /\ stopper = "returned"
  /\ \A s \in Subs : ~Queued(SubTask("subscribe", s))
                       /\ ~Queued(SubTask("unsubscribe", s))
  /\ alive' = FALSE
  /\ UNCHANGED <<ready, ctxVars, initError, stopper, dangling, connVars,
                 serverVars, observer>>

-----------------------------------------------------------------------------
(* Handlers of WsConnectionContext, on the Asio thread *)

\* The lambda of WsConnectionContext::Subscribe before it gets to OnSubscribe.
RefusesBadUrl == initError   \* mutant: does not test _stopping
Refuses == initError \/ Stopping

RejectSubscribe(s) ==
  /\ Refuses
  /\ \E order \in Orders({s}) : Runs(SubTask("subscribe", s), Disposals(order))
  /\ observer' = Signal({s}, IF initError THEN "failed" ELSE "completed")
  /\ UNCHANGED <<ctxVars, lifeVars, connVars, serverVars>>

SendsEarly == state \in {"Connecting", "Connected"}   \* mutant: before the ack
SendsNever == FALSE                                   \* mutant: only on replay
SendsNow == state = "Connected"

OnSubscribe(s) ==
  /\ ~Refuses
  /\ subs' = subs \cup {s}
  /\ LET out == IF SendsNow THEN <<Msg("subscribe", s)>> ELSE <<>> IN
     /\ sent' = Wire(transport, out)
     /\ Runs(SubTask("subscribe", s), WriteErrors(transport, out))
  /\ \/ state = "Idle" /\ state' = "Connecting" /\ ConnectTransport
     \/ state # "Idle" /\ UNCHANGED <<state, transport, created, chain>>
  /\ UNCHANGED <<everConnected, attempt, timer, lifeVars, sock, fired,
                 serverVars, observer>>

TellsNobody == FALSE   \* mutant: no "complete" message
TellsServer == state = "Connected" /\ ~Stopping

RemoveSubIfConnected(s) ==   \* mutant: leaves it while there is no connection
  subs' = IF state = "Connected" THEN subs \ {s} ELSE subs
RemoveSub(s) == subs' = subs \ {s}

\* The last subscription left while waiting to reconnect.
LeaveTimerRunning ==   \* mutant: forgets CancelReconnect
  IF state = "Reconnecting" /\ subs' = {}
  THEN state' = "Idle" /\ UNCHANGED timer
  ELSE UNCHANGED <<timer, state>>
GoIdle ==
  IF state = "Reconnecting" /\ subs' = {}
  THEN timer' = FALSE /\ state' = "Idle"
  ELSE UNCHANGED <<timer, state>>

OnUnsubscribe(s) ==
  /\ LET out == IF TellsServer THEN <<Msg("complete", s)>> ELSE <<>> IN
     /\ sent' = Wire(transport, out)
     /\ Runs(SubTask("unsubscribe", s), WriteErrors(transport, out))
  /\ RemoveSub(s)
  /\ GoIdle
  /\ UNCHANGED <<transport, everConnected, attempt, lifeVars, created, chain,
                 sock, fired, serverVars, observer>>

\* _transport->Close() aborts what is pending on the socket later (see
\* OperationAborts); before there is a socket it does nothing.
LeaveOpen == UNCHANGED sock   \* mutant: forgets to close
CloseTransport ==
  sock' = [t \in Conns |-> IF t = transport /\ sock[t] = "open"
                           THEN "closed" ELSE sock[t]]

StopSilently ==   \* mutant: forgets on_completed
  /\ timer' = FALSE
  /\ UNCHANGED observer
  /\ subs' = {}
  /\ CloseTransport
StopOnContext ==
  /\ timer' = FALSE
  /\ observer' = Signal(subs, "completed")
  /\ subs' = {}
  /\ CloseTransport

\* The handler that Stop() posted: it posts the one that sets the promise.
StoppedNever == <<>>   \* mutant: the promise is never set
StoppedNext == <<Plain("stopped")>>

RunStop ==
  /\ \E order \in Orders(subs) :
       Runs(Plain("stop"), Disposals(order) \o StoppedNext)
  /\ StopOnContext
  /\ stopper' = "ran"
  /\ UNCHANGED <<state, transport, everConnected, attempt, initError, alive,
                 dangling, created, chain, fired, sent, serverVars>>

RunStopped ==
  /\ Runs(Plain("stopped"), <<>>)
  /\ stopper' = "returned"
  /\ UNCHANGED <<ctxVars, initError, alive, dangling, connVars, serverVars,
                 observer>>

\* TransitionTo(Reconnecting); only min(_reconnectAttempt, 5) is ever read.
ScheduleNothing ==   \* mutant: forgets async_wait
  /\ state' = "Reconnecting"
  /\ attempt' = IF attempt < 5 THEN attempt + 1 ELSE 5
  /\ UNCHANGED timer
ScheduleReconnect ==
  /\ state' = "Reconnecting"
  /\ attempt' = IF attempt < 5 THEN attempt + 1 ELSE 5
  /\ timer' = TRUE

\* The timer's handler reconnects whatever the state is by now.
MayReconnect == ~Stopping

OnTimer ==
  /\ Runs(Plain("timer"), <<>>)
  /\ IF MayReconnect
     THEN state' = "Connecting" /\ ConnectTransport
     ELSE UNCHANGED <<state, transport, created, chain>>
  /\ UNCHANGED <<subs, everConnected, attempt, timer, lifeVars, sock, fired,
                 sent, serverVars, observer>>

\* WsTransport::OnResolved: async_connect opens the socket.
OnResolved(t) ==
  /\ Runs(ConnTask("resolved", t), <<>>)
  /\ chain' = [chain EXCEPT ![t] = "connecting"]
  /\ sock' = [sock EXCEPT ![t] = "open"]
  /\ UNCHANGED <<ctxVars, lifeVars, created, fired, sent, serverVars,
                 observer>>

\* The connect callback of transport t: OnTransportConnected, which sends on
\* the current transport, then Read.
OnTransportConnected(t) ==
  /\ LET out == IF alive /\ state = "Connecting"
                THEN <<Bare("connection_init")>> ELSE <<>>
     IN /\ sent' = Wire(transport, out)
        /\ Runs(ConnTask("connected", t), WriteErrors(transport, out))
  /\ chain' = [chain EXCEPT ![t] = "reading"]
  /\ UNCHANGED <<ctxVars, lifeVars, created, sock, fired, serverVars,
                 observer>>

FiresAgain(t) == ~Stopping   \* mutant: no _disconnected flag
MayFireDisconnected(t) == ~fired[t] /\ ~Stopping

KeepTransport == UNCHANGED transport   \* mutant: forgets _transport.reset()
ResetTransport == transport' = None

\* No server was ever reached: the observers are told, nothing is retried.
GivesUpAnyTime == state = "Connecting" /\ HasSubs   \* mutant: ignores _everConnected
GivesUp == state = "Connecting" /\ HasSubs /\ ~everConnected

\* OnTransportDisconnected, run as "task"; it does not know which transport
\* reports and drops the current one.
OnTransportDisconnected(task) ==
  /\ ResetTransport
  /\ \/ /\ state = "Connecting" /\ ~HasSubs
        /\ Runs(task, <<>>)
        /\ state' = "Idle"
        /\ UNCHANGED <<subs, attempt, timer, observer>>
     \/ /\ GivesUp
        /\ \E order \in Orders(subs) : Runs(task, Disposals(order))
        /\ observer' = Signal(subs, "failed")
        /\ subs' = {}
        /\ state' = "Idle"
        /\ UNCHANGED <<attempt, timer>>
     \/ /\ \/ state = "Connecting" /\ HasSubs /\ everConnected
           \/ state = "Connected"
        /\ Runs(task, <<>>)
        /\ ScheduleReconnect
        /\ UNCHANGED <<subs, observer>>
     \/ /\ state \in {"Idle", "Reconnecting"}
        /\ Runs(task, <<>>)
        /\ UNCHANGED <<state, subs, attempt, timer, observer>>

\* FireDisconnected: the callback at most once per transport, never when
\* stopping.
FireDisconnected(t, task) ==
  /\ fired' = [fired EXCEPT ![t] = TRUE]
  /\ \/ MayFireDisconnected(t) /\ OnTransportDisconnected(task)
     \/ /\ ~MayFireDisconnected(t)
        /\ Runs(task, <<>>)
        /\ UNCHANGED <<transport, state, subs, attempt, timer, observer>>
  /\ UNCHANGED <<everConnected, lifeVars, created>>

\* A resolve, connect, handshake or read of t failed: the chain ends here.
OnFailed(t) ==
  /\ FireDisconnected(t, ConnTask("failed", t))
  /\ chain' = [chain EXCEPT ![t] = "ended"]
  /\ Breaks(t)
  /\ UNCHANGED held

\* OnWrite with an error; the connect / read chain goes on.
OnWriteFailed(t) ==
  /\ FireDisconnected(t, ConnTask("writeFailed", t))
  /\ UNCHANGED <<chain, sock, sent, serverVars>>

-----------------------------------------------------------------------------
(* WsConnectionContext::OnTransportMessage, then WsTransport::Read again *)

\* OnRead of transport t hands over m.
Receives(t, m, posts) ==
  /\ Runs(MessageTask(t, m), posts)
  /\ chain' = [chain EXCEPT ![t] = "reading"]

Connected == everConnected' = TRUE /\ attempt' = 0 /\ state' = "Connected"

\* Connecting: only connection_ack counts, from whichever transport it comes.
\* ReplaySubs sends every request in map order, which is no order we know.
OnAck(t) ==
  /\ alive /\ state = "Connecting"
  /\ \E order \in SetToSeqs(subs) :
       LET out == [i \in DOMAIN order |-> Msg("subscribe", order[i])] IN
       /\ sent' = Wire(transport, out)
       /\ Receives(t, Bare("connection_ack"), WriteErrors(transport, out))
  /\ Connected
  /\ UNCHANGED <<subs, transport, timer, lifeVars, created, sock, fired,
                 serverVars, observer>>

\* Dispatch answers a ping on the current transport (sent does not record the
\* pong, so that pings do not have to be counted).
OnPing(t) ==
  /\ alive /\ state = "Connected"
  /\ Receives(t, Bare("ping"), WriteErrors(transport, <<Bare("pong")>>))
  /\ UNCHANGED <<ctxVars, lifeVars, created, sock, fired, sent, serverVars,
                 observer>>

\* Messages that change nothing: the context is gone, nobody expects them in
\* this state, or Dispatch finds no subscription under their id.
Ignored(m) ==
  \/ ~alive
  \/ state \in {"Idle", "Reconnecting"}
  \/ state = "Connecting" /\ m.type # "connection_ack"
  \/ state = "Connected" /\ m.type # "ping" /\ m.id \notin subs

IgnoreMessage(t, m) ==
  /\ Ignored(m)
  /\ Receives(t, m, <<>>)
  /\ UNCHANGED <<ctxVars, lifeVars, created, sock, fired, sent, serverVars,
                 observer>>

\* Dispatch finds s: on_next for "next" and "error", CompleteSub for
\* "complete" and, after on_next, for "error".  No variable records an on_next.
Dispatches(s) == alive /\ state = "Connected" /\ s \in subs

OnNext(t, s) ==
  /\ Dispatches(s)
  /\ Receives(t, Msg("next", s), <<>>)
  /\ UNCHANGED <<ctxVars, lifeVars, created, sock, fired, sent, serverVars,
                 observer>>

EndedBy == {"error", "complete"}

OnEnd(t, s, type) ==
  /\ type \in EndedBy
  /\ Dispatches(s)
  /\ \E order \in Orders({s}) : Receives(t, Msg(type, s), Disposals(order))
  /\ observer' = Signal({s}, "completed")
  /\ subs' = subs \ {s}
  /\ UNCHANGED <<state, transport, everConnected, attempt, timer, lifeVars,
                 created, sock, fired, sent, serverVars>>

\* The application destroys the link inside on_next: Stop() runs StopOnContext
\* in place.  on_next was called on a copy of the observer, so nothing dangles;
\* the CompleteSub that follows an "error" finds no subscription any more.
DestroyInOnNext(t, s, type) ==
  /\ "next" \in DestroyedIn /\ stopper = "none"
  /\ Dispatches(s) /\ observer[s] = "live"
  /\ \E order \in Orders(subs) : Receives(t, Msg(type, s), Disposals(order))
  /\ StopOnContext
  /\ stopper' = "returned"
  /\ UNCHANGED <<state, transport, everConnected, attempt, initError, alive,
                 dangling, created, fired, sent, serverVars>>

\* The application destroys the link inside on_completed called by CompleteSub,
\* or inside on_error called by FailAll: StopOnContext clears _subs under their
\* iterator.  Behaviour is undefined from here on: the Asio thread stops.
EndsOne == \E t \in Conns, s \in Subs, type \in EndedBy :
  /\ Head(ready) = MessageTask(t, Msg(type, s))
  /\ Dispatches(s) /\ observer[s] = "live"
FailsAll == \E t \in Conns, op \in {"failed", "writeFailed"} :
  /\ Head(ready) = ConnTask(op, t)
  /\ MayFireDisconnected(t)
  /\ GivesUp /\ Live(subs) # {}

DestroyInTerminalCallback ==
  /\ "terminal" \in DestroyedIn /\ stopper = "none"
  /\ ~dangling /\ ready # <<>> /\ (EndsOne \/ FailsAll)
  /\ dangling' = TRUE
  /\ stopper' = "returned"
  /\ UNCHANGED <<ready, ctxVars, initError, alive, connVars, serverVars,
                 observer>>

-----------------------------------------------------------------------------
(* The network, the timer and the server *)

\* Bound: connections fail only while another can be made, so that no handler
\* ever waits for MaxConns.
MayFail == created < MaxConns

\* The operation that transport t waits for ends as "op".
Ends(t, from, to, op) ==
  /\ chain[t] = from
  /\ chain' = [chain EXCEPT ![t] = to]
  /\ Posts(ConnTask(op, t))
  /\ UNCHANGED <<ctxVars, lifeVars, created, sock, fired, sent, serverVars,
                 observer>>

Resolves(t) == Ends(t, "resolving", "resolved", "resolved")
ResolveFails(t) == MayFail /\ Ends(t, "resolving", "failing", "failed")

\* TCP and TLS are up: the stream's own handler goes on to the WebSocket upgrade.
Connects(t) ==
  /\ chain[t] = "connecting" /\ sock[t] = "open"
  /\ chain' = [chain EXCEPT ![t] = "upgrading"]
  /\ UNCHANGED <<ready, ctxVars, lifeVars, created, sock, fired, sent,
                 serverVars, observer>>
ConnectFails(t) == MayFail /\ Ends(t, "connecting", "failing", "failed")

Upgrades(t) ==
  sock[t] = "open" /\ Ends(t, "upgrading", "connected", "connected")
UpgradeFails(t) == MayFail /\ Ends(t, "upgrading", "failing", "failed")

\* The pending read completes with the next message: also on a connection that
\* broke or was closed meanwhile, and behind the failed write that said so.
Reads(t) ==
  /\ chain[t] = "reading" /\ held[t] # <<>>
  /\ chain' = [chain EXCEPT ![t] = "delivered"]
  /\ held' = [held EXCEPT ![t] = Tail(@)]
  /\ Posts(MessageTask(t, Head(held[t])))
  /\ UNCHANGED <<ctxVars, lifeVars, created, sock, fired, sent, acked, over,
                 observer>>

\* What is pending on a closed socket is aborted; what was not read is lost.
OperationAborts(t) ==
  /\ sock[t] = "closed" /\ chain[t] \in {"connecting", "upgrading", "reading"}
  /\ chain' = [chain EXCEPT ![t] = "failing"]
  /\ held' = [held EXCEPT ![t] = <<>>]
  /\ Posts(ConnTask("failed", t))
  /\ UNCHANGED <<ctxVars, lifeVars, created, sock, fired, sent, acked, over,
                 observer>>

\* A write is outstanding: connection_init, or one that followed the ack.
WriteOutstanding(t) == IF acked[t] THEN Len(sent[t]) > 1 ELSE sent[t] # <<>>

\* The TCP connection breaks; an outstanding write may notice it at once, the
\* read notices it later.
Drops(t) ==
  /\ MayFail /\ Open(t)
  /\ Breaks(t)
  /\ \/ UNCHANGED ready
     \/ /\ WriteOutstanding(t) /\ ~Queued(ConnTask("writeFailed", t))
        /\ Posts(ConnTask("writeFailed", t))
  /\ UNCHANGED <<ctxVars, lifeVars, created, chain, fired, held, observer>>

\* With LateTimer, an expired timer's handler queues behind whatever is ready;
\* without, it is only queued on an idle Asio thread, when every broken
\* connection has been read to its end (the timer runs for a second or more).
Drained ==
  \A t \in Conns : sock[t] = "closed" => chain[t] \notin {"reading", "delivered"}
TimerExpires ==
  /\ timer /\ (LateTimer \/ (ready = <<>> /\ Drained))
  /\ timer' = FALSE
  /\ Posts(Plain("timer"))
  /\ UNCHANGED <<state, subs, transport, everConnected, attempt, lifeVars,
                 connVars, serverVars, observer>>

\* A graphql-transport-ws server: one ack per connection, events only for
\* operations it received and did not end, pings at any time.
SubscribedOn(t) == {s \in Subs : Msg("subscribe", s) \in ToSet(sent[t])}
CompletedOn(t) == {s \in Subs : Msg("complete", s) \in ToSet(sent[t])}
ServerMay(t, m) ==
  CASE m.type = "connection_ack" ->
         Bare("connection_init") \in ToSet(sent[t]) /\ ~acked[t]
    [] m.type = "ping" -> TRUE
    [] OTHER -> m.id \in SubscribedOn(t) \ over[t]

\* Bound: the server speaks only while two more handlers would find room and
\* fewer messages are held unread.
Unread == UNION {{u} \X DOMAIN held[u] : u \in Conns}
MayHold == Len(ready) + 1 < MaxReady /\ Cardinality(Unread) < MaxHeld

ServerSends(t, m) ==
  /\ Open(t) /\ MayHold
  /\ ServerMay(t, m)
  /\ acked' = [acked EXCEPT ![t] = @ \/ m.type = "connection_ack"]
  /\ over' = [over EXCEPT ![t] =
                IF m.type \in {"error", "complete"} THEN @ \cup {m.id} ELSE @]
  /\ held' = [held EXCEPT ![t] = Append(@, m)]
  /\ UNCHANGED <<ready, ctxVars, lifeVars, connVars, observer>>

-----------------------------------------------------------------------------
Application ==
  \/ \E s \in Subs : Subscribe(s) \/ Unsubscribe(s)
  \/ BeginStop \/ PostStop \/ Release

Messages(t) ==
  \/ OnAck(t) \/ OnPing(t)
  \/ \E m \in ServerMsgs : IgnoreMessage(t, m)
  \/ \E s \in Subs : OnNext(t, s)
  \/ \E s \in Subs, type \in {"next", "error", "complete"} : OnEnd(t, s, type)
  \/ \E s \in Subs, type \in {"next", "error"} : DestroyInOnNext(t, s, type)

Completions(t) ==
  OnResolved(t) \/ OnTransportConnected(t) \/ OnFailed(t) \/ OnWriteFailed(t)

AsioThread ==
  \/ \E s \in Subs : RejectSubscribe(s) \/ OnSubscribe(s) \/ OnUnsubscribe(s)
  \/ RunStop \/ RunStopped \/ OnTimer
  \/ \E t \in Conns : Completions(t) \/ Messages(t)
  \/ DestroyInTerminalCallback

Network(t) ==
  \/ Resolves(t) \/ ResolveFails(t) \/ Connects(t) \/ ConnectFails(t)
  \/ Upgrades(t) \/ UpgradeFails(t) \/ Reads(t) \/ OperationAborts(t) \/ Drops(t)

Environment ==
  \/ TimerExpires
  \/ \E t \in Conns : Network(t) \/ \E m \in ServerMsgs : ServerSends(t, m)

Next == Application \/ AsioThread \/ Environment

Spec == Init /\ [][Next]_vars

\* io_context::run() keeps running handlers, the destroying thread goes on,
\* armed timers expire, the resolver answers, TCP and TLS are up or given up in
\* the 30 s that Stream::Connect allows them, a read with data completes and one
\* on a closed socket is aborted.  Nothing ends the WebSocket upgrade (see
\* expires_never) or makes a server acknowledge: nothing is assumed of those.
Fairness ==
  /\ WF_vars(AsioThread) /\ WF_vars(PostStop) /\ WF_vars(TimerExpires)
  /\ \A t \in Conns :
       /\ WF_vars(Resolves(t) \/ ResolveFails(t))
       /\ WF_vars(Connects(t) \/ ConnectFails(t))
       /\ WF_vars(Reads(t))
       /\ WF_vars(OperationAborts(t))

FairSpec == Spec /\ Fairness

-----------------------------------------------------------------------------
(* What must hold however the timer and the application behave *)

\* Send() dereferences _transport: there is one exactly when the state machine
\* believes to be connecting or connected (OnUnsubscribe, OnTransportConnected,
\* ReplaySubs and Dispatch rely on it and do not test it).
TransportMatchesState ==
  (transport # None) <=> state \in {"Connecting", "Connected"}

\* Nobody waits on a connection nobody works on: an Idle context has no
\* subscription, a Reconnecting one has its timer running or just expired.
NobodyStranded ==
  /\ state = "Idle" => subs = {}
  /\ state = "Reconnecting" /\ ~Stopping => timer \/ Queued(Plain("timer"))

\* The back-off starts over after every successful connection, and only a
\* server that acknowledged makes later losses recoverable.
BackoffRestarts == state = "Connected" => attempt = 0 /\ everConnected

\* An observer that still listens is in _subs, or the handler that will put it
\* there is queued: no path of Stop, FailAll, CompleteSub or reconnecting drops
\* a subscriber without a terminal signal.
NoLostSubscriber ==
  \A s \in Subs : observer[s] = "live" =>
    s \in subs \/ Queued(SubTask("subscribe", s))

\* A subscription whose observer is done does not stay in _subs, to be replayed
\* on every reconnect: the Unsubscribe that removes it is on its way.
NoZombieSubscription ==
  \A s \in subs : observer[s] # "live" => Queued(SubTask("unsubscribe", s))

\* "When it is destroyed ... all active subscribers receive on_completed": once
\* ~WsLink is past StopOnContext only calls that raced with it are pending.
StopSettlesAll ==
  stopper \in {"ran", "returned"} /\ ~dangling =>
    /\ subs = {}
    /\ \A s \in Subs : observer[s] = "live" => Queued(SubTask("subscribe", s))

\* Once a server has accepted the link, losing the connection never surfaces
\* as an error (OnTransportDisconnected fails observers only before that).
NoErrorOnceConnected ==
  [][\A s \in Subs : observer'[s] = "failed" /\ observer[s] # "failed" =>
       ~everConnected]_vars

\* The link keeps what it promises its subscribers: one end each, errors only
\* before the first connection_ack, completions only with a cause, over every
\* interleaving of disconnects, replays, Unsubscribe and destruction.
\* (subscriptions.md:135 would have an error later, too: see RetriesAreBounded.)
Coming(t, m) == m \in ToSet(held[t]) \/ Queued(MessageTask(t, m))
LastWords ==
  {s \in Subs : \E t \in Conns, type \in {"complete", "error"} :
                  Coming(t, Msg(type, s))}
Contract == INSTANCE WsLinkContract WITH
  phase <- observer, accepted <- everConnected, closing <- Stopping,
  lastWords <- LastWords
KeepsContract == Contract!Spec

\* No handler starts a connection once the destructor has raised _stopping.
NoConnectWhenStopping == [][Stopping => created' = created]_vars

-----------------------------------------------------------------------------
(* What holds when an expired timer's handler runs before anything else that  *)
(* was queued later                                                           *)

\* One persistent connection per link.
SingleConnection == Cardinality({t \in Conns : sock[t] = "open"}) <= 1

\* The graphql-transport-ws protocol on each connection: connection_init once
\* and first, a subscribe only after the ack and once per id.
WireProtocol ==
  \A t \in Conns : \A i, j \in DOMAIN sent[t] :
    /\ sent[t][i].type = "connection_init" <=> i = 1
    /\ sent[t][i].type = "subscribe" => acked[t]
    /\ sent[t][i].type = "subscribe" /\ sent[t][i] = sent[t][j] => i = j

\* The server runs what the client wants: on the connection of a Connected
\* context every subscription of _subs has been sent ...
AllSubscribed ==
  state = "Connected" /\ Open(transport) => subs \subseteq SubscribedOn(transport)

\* ... and an operation that runs on some connection is wanted, or its
\* "complete" is on the way: a cancelled operation does not keep streaming.
NoOrphanOperation ==
  ~Stopping => \A t \in Conns : Open(t) =>
    \A s \in SubscribedOn(t) \ (CompletedOn(t) \cup over[t]) :
      s \in subs \/ Queued(SubTask("unsubscribe", s))

\* "When it is destroyed, the connection is closed": StopOnContext leaves no
\* socket open.  (One that is opened later is another matter: the run
\* ws_stop_resolving.)
StopClosesSockets ==
  [][ stopper \notin {"ran", "returned"} /\ stopper' \in {"ran", "returned"}
        /\ ~dangling' => \A t \in Conns : sock'[t] # "open"]_vars

\* While a connection has not reported its loss, each of its events for a
\* listening observer is dispatched to it.  What a lost one still hands over is
\* dropped or answered, but never mistaken: it does not acknowledge a later
\* connection, nor reach an observer between the events of a later one.
EventsReachSubscribers ==
  \A t \in Conns, m \in ServerMsgs :
    ready # <<>> /\ ~Stopping /\ Head(ready) = MessageTask(t, m) =>
      /\ ~fired[t] /\ m.id \in Live(Subs) => Dispatches(m.id)
      /\ t # transport /\ state = "Connecting" => m.type # "connection_ack"
      /\ t # transport /\ state = "Connected" => m.id \notin subs

\* What WsTransport relies on: the context sends only on a transport that has
\* reported onConnected, and not after its onDisconnected unless it is stopping
\* (subscribe, complete, pong and the replay go out in state Connected,
\* connection_init in the callback itself).
SendsAreTimely ==
  /\ state = "Connected" =>
       /\ chain[transport] \in {"reading", "delivered", "failing", "ended"}
       /\ fired[transport] \/ chain[transport] = "ended" => Stopping
  /\ \A t \in Conns :
       ready # <<>> /\ Head(ready) = ConnTask("connected", t)
         /\ alive /\ state = "Connecting" => t = transport

-----------------------------------------------------------------------------
(* What the link brings about *)

\* "automatically reconnects ... and replays all active subscriptions": a live
\* subscription ends or gets to run on the current connection, however often
\* connections failed before, unless a server stays silent where no timeout
\* bounds the wait: in the WebSocket upgrade or after connection_init.
RunsOnServer(s) == transport # None /\ s \in SubscribedOn(transport)
AwaitsServer(t) ==
  /\ sock[t] = "open"
  /\ \/ chain[t] = "upgrading"
     \/ Bare("connection_init") \in ToSet(sent[t]) /\ ~acked[t]
EverySubscriptionRuns ==
  (\A t \in Conns : []<>~AwaitsServer(t)) =>
    \A s \in Subs : observer[s] = "live" ~> (observer[s] # "live" \/ RunsOnServer(s))

\* The server stops streaming a cancelled operation: it is told, it ended the
\* operation itself, or the connection is gone.  This needs nothing of the server.
CancelReachesServer ==
  \A s \in Subs, t \in Conns :
    observer[s] = "cancelled" /\ s \in SubscribedOn(t)
      ~> (s \in CompletedOn(t) \cup over[t] \/ ~Open(t))

\* ~WsLink returns: its thread waits for a promise that StopOnContext's
\* successor sets, also while a silent server keeps the link Connecting.
StopReturns == stopper = "flagged" ~> stopper = "returned"

-----------------------------------------------------------------------------
(* What the documentation promises and the code does not keep *)

\* "the connection is closed cleanly" (docs/transports/links.md:130).
NothingOpensAfterStop ==
  [][stopper = "returned" => \A t \in Conns : sock[t] # "open" => sock'[t] # "open"]_vars

\* Destroying the link completes the active subscribers (same line), also when
\* the application does it in a callback: no container is changed under the
\* loop that iterates it.
NoDanglingIterator == ~dangling

\* A disconnect does not reach on_error "unless the retry budget is exhausted"
\* (docs/core/subscriptions.md:135).  The one count of retries there is chooses
\* the delay and means nothing beyond 5: a connection that fails then is retried
\* like all others before it.
RetriesAreBounded ==
  [][state = "Connecting" /\ state' = "Reconnecting" => attempt < 5]_vars
=============================================================================
