-------------------------- MODULE WsTransportProofs --------------------------
(***************************************************************************)
(* WsTransport keeps WsTransportContract, whatever the bounds and with or  *)
(* without TLS.  The contract's steps are recognised with the invariants   *)
(* about the write queue and the read buffer, and Lifecycle says which     *)
(* operations can be outstanding in which phase.                           *)
(***************************************************************************)
EXTENDS WsTransport, TLAPS

Connecting == {"new", "resolving", "connecting", "securing", "upgrading"}

\* No operation before the transport is open and no live socket after its loss.
Lifecycle ==
  /\ phase \in {"new", "resolving"} => sock = "none"
  /\ phase \in Connecting => ~disconnected
  /\ phase # "open" => read = "none" /\ write = "none"
  /\ phase = "open" => sock # "none"
  /\ read = "error" \/ write = "error" \/ disconnected => sock # "open"
  /\ disconnected <=> told = 1

IInv ==
  /\ TypeOK /\ WriteOwnsBuffer /\ NothingSkipped /\ OneMessageBuffered
  /\ EndWillBeNoticed /\ Lifecycle

LEMMA InitIInv == ASSUME Init PROVE IInv
<1>1. TypeOK
  <2>1. phase \in Phases /\ sock \in {"none", "open", "closed"}
    BY DEF Init, Phases
  <2>2. writeQueue \in Seq(Nat) /\ readBuf \in Seq(Nat) /\ wire \in Seq(Nat)
    BY DEF Init
  <2>3. delivered \in Seq(Seq(Nat))
    BY DEF Init
  <2>4. writing \in BOOLEAN /\ disconnected \in BOOLEAN
    BY DEF Init
  <2>5. read \in Operation /\ write \in Operation
    BY DEF Init, Operation
  <2>6. flight \in Nat /\ accepted \in Nat /\ told \in 0..1
    BY DEF Init
  <2> QED
    BY <2>1, <2>2, <2>3, <2>4, <2>5, <2>6 DEF TypeOK
<1>2. WriteOwnsBuffer /\ OneMessageBuffered /\ EndWillBeNoticed /\ Lifecycle
  BY DEF Init, WriteOwnsBuffer, OneMessageBuffered, EndWillBeNoticed, Lifecycle,
     Connecting
<1>3. NothingSkipped
  BY DEF Init, NothingSkipped, InFlight
<1> QED
  BY <1>1, <1>2, <1>3 DEF IInv

LEMMA FireDisconnectedFacts ==
  ASSUME IInv, FireDisconnected
  PROVE  disconnected' = TRUE /\ told' = 1
BY DEF FireDisconnected, lossVars, IInv, TypeOK, Lifecycle

-----------------------------------------------------------------------------
(* The write queue *)

\* The part of the invariant that only writes can disturb.
WInv == WriteOwnsBuffer /\ NothingSkipped

LEMMA WritesUntouched ==
  ASSUME WInv, UNCHANGED <<writeVars, wire>>, disconnected => disconnected'
  PROVE  WInv'
BY DEF WInv, WriteOwnsBuffer, NothingSkipped, InFlight, writeVars

LEMMA AppendNumbers ==
  ASSUME NEW q \in Seq(Nat), NEW a \in Nat, NEW n \in Nat,
         NEW r, r = q \o [i \in 1..n |-> a + i]
  PROVE  /\ r \in Seq(Nat) /\ Len(r) = Len(q) + n /\ Len(q) \in Nat
         /\ \A i \in 1..Len(q) : r[i] = q[i]
         /\ \A i \in 1..Len(r) : i > Len(q) => r[i] = a + i - Len(q)
<1> DEFINE more == [i \in 1..n |-> a + i]
<1>1. more \in Seq(Nat) /\ Len(more) = n /\ \A i \in 1..n : more[i] = a + i
  OBVIOUS
<1> HIDE DEF more
<1>2. r = q \o more
  BY DEF more
<1>3. r \in Seq(Nat) /\ Len(r) = Len(q) + n /\ Len(q) \in Nat
  BY <1>1, <1>2
<1>4. \A i \in 1..Len(q) : r[i] = q[i]
  BY <1>1, <1>2
<1>5. ASSUME NEW i \in 1..Len(r), i > Len(q) PROVE r[i] = a + i - Len(q)
  <2>1. i - Len(q) \in 1..n
    BY <1>3, <1>5
  <2>2. r[i] = more[i - Len(q)]
    BY <1>1, <1>2, <1>3, <1>5
  <2> QED
    BY <1>1, <1>3, <2>1, <2>2
<1> QED
  BY <1>3, <1>4, <1>5

QueueTypes ==
  /\ writeQueue \in Seq(Nat) /\ wire \in Seq(Nat) /\ accepted \in Nat
  /\ Len(writeQueue) \in Nat /\ Len(wire) \in Nat

LEMMA QueueFacts == ASSUME IInv PROVE QueueTypes /\ InFlight \in {0, 1}
<1>1. writeQueue \in Seq(Nat) /\ wire \in Seq(Nat) /\ accepted \in Nat
  BY DEF IInv, TypeOK
<1>2. Len(writeQueue) \in Nat /\ Len(wire) \in Nat
  BY <1>1
<1> QED
  BY <1>1, <1>2 DEF QueueTypes, InFlight

\* Send() appends the next numbers.
LEMMA SendManyKeeps ==
  ASSUME IInv, NEW n \in Nat, SendMany(n), UNCHANGED <<wire, disconnected>>
  PROVE  /\ WInv'
         /\ writeQueue' \in Seq(Nat) /\ flight' \in Nat /\ writing' \in BOOLEAN
         /\ accepted' \in Nat /\ accepted' >= accepted
         /\ (write' = write \/ (write = "none" /\ write' = "pending"))
<1>1. QueueTypes
  BY QueueFacts
<1>2. accepted' = accepted + n /\ accepted' \in Nat /\ accepted' >= accepted
  BY <1>1 DEF SendMany, QueueTypes
<1>3. writeQueue' = writeQueue \o [i \in 1..n |-> accepted + i]
  BY DEF SendMany
<1>4. /\ writeQueue' \in Seq(Nat) /\ Len(writeQueue') = Len(writeQueue) + n
      /\ \A i \in 1..Len(writeQueue) : writeQueue'[i] = writeQueue[i]
      /\ \A i \in 1..Len(writeQueue') :
           i > Len(writeQueue) => writeQueue'[i] = accepted + i - Len(writeQueue)
  BY <1>1, <1>3, AppendNumbers DEF QueueTypes
<1>5. WriteOwnsBuffer /\ NothingSkipped
  BY DEF IInv
<1>6. flight \in Nat /\ writing \in BOOLEAN
  BY DEF IInv, TypeOK
<1>7. CASE n > 0 /\ ~writing
  <2>1. writeQueue = <<>> /\ write = "none"
    BY <1>5, <1>7 DEF WriteOwnsBuffer
  <2>2. writing' = TRUE /\ write' = "pending" /\ flight' = Head(writeQueue')
    BY <1>7, <2>1 DEF SendMany, MayWrite, Write, Started
  <2>3. Len(writeQueue) = 0
    BY <2>1
  <2>4. writeQueue' # <<>> /\ Head(writeQueue') \in Nat
    BY <1>4, <1>7, <2>3
  <2>5. WriteOwnsBuffer'
    BY <2>2, <2>4 DEF WriteOwnsBuffer
  <2>6. InFlight = 0 /\ InFlight' = 0
    BY <2>1, <2>2 DEF InFlight
  <2>7. ~disconnected => accepted = Len(wire)
    BY <1>1, <1>5, <2>3, <2>6 DEF NothingSkipped, QueueTypes
  <2>8. NothingSkipped'
    <3> SUFFICES ASSUME ~disconnected'
                 PROVE  /\ Len(wire') + Len(writeQueue') = accepted' + InFlight'
                        /\ \A i \in DOMAIN writeQueue' :
                             writeQueue'[i] + InFlight' = Len(wire') + i
      BY DEF NothingSkipped
    <3>1. accepted = Len(wire) /\ wire' = wire /\ Len(wire) \in Nat
      BY <1>1, <2>7 DEF QueueTypes
    <3>2. Len(wire') + Len(writeQueue') = accepted' + InFlight'
      BY <1>2, <1>4, <2>3, <2>6, <3>1
    <3>3. ASSUME NEW i \in DOMAIN writeQueue'
          PROVE  writeQueue'[i] + InFlight' = Len(wire') + i
      <4>1. writeQueue'[i] = accepted + i
        BY <1>4, <2>3, <3>1
      <4> QED
        BY <1>4, <2>6, <3>1, <4>1
    <3> QED
      BY <3>2, <3>3
  <2> QED
    BY <1>2, <1>4, <2>1, <2>2, <2>4, <2>5, <2>8 DEF WInv
<1>8. CASE ~(n > 0 /\ ~writing)
  <2>1. UNCHANGED <<writing, write, flight>>
    BY <1>8 DEF SendMany, MayWrite
  <2>2. n > 0 => writeQueue # <<>>
    BY <1>5, <1>8 DEF WriteOwnsBuffer
  <2>3. writeQueue' = <<>> <=> writeQueue = <<>>
    BY <1>1, <1>4, <2>2 DEF QueueTypes
  <2>4. writeQueue # <<>> => Head(writeQueue') = Head(writeQueue)
    BY <1>1, <1>4 DEF QueueTypes
  <2>5. WriteOwnsBuffer'
    BY <1>5, <2>1, <2>3, <2>4 DEF WriteOwnsBuffer
  <2>6. InFlight' = InFlight /\ InFlight \in {0, 1}
    BY <2>1, QueueFacts DEF InFlight
  <2>7. NothingSkipped'
    <3> SUFFICES ASSUME ~disconnected'
                 PROVE  /\ Len(wire') + Len(writeQueue') = accepted' + InFlight'
                        /\ \A i \in DOMAIN writeQueue' :
                             writeQueue'[i] + InFlight' = Len(wire') + i
      BY DEF NothingSkipped
    <3>1. /\ Len(wire) + Len(writeQueue) = accepted + InFlight
          /\ \A i \in DOMAIN writeQueue : writeQueue[i] + InFlight = Len(wire) + i
      BY <1>5 DEF NothingSkipped
    <3>2. /\ accepted \in Nat /\ Len(wire) \in Nat /\ Len(writeQueue) \in Nat
          /\ wire' = wire /\ InFlight \in Nat /\ InFlight' = InFlight
      BY <1>1, <2>6 DEF QueueTypes
    <3>3. Len(wire') = Len(wire) /\ Len(writeQueue') = Len(writeQueue) + n
      BY <1>4, <3>2
    <3>4. Len(wire') + Len(writeQueue') = accepted' + InFlight'
      <4>1. accepted' = accepted + n
        BY <1>2
      <4>2. Len(wire) + Len(writeQueue) = accepted + InFlight
        BY <3>1
      <4> QED
        BY <3>2, <3>3, <4>1, <4>2
    <3>5. ASSUME NEW i \in DOMAIN writeQueue'
          PROVE  writeQueue'[i] + InFlight' = Len(wire') + i
      <4>1. i \in Nat /\ i \in 1..Len(writeQueue')
        BY <1>4
      <4>2. CASE i <= Len(writeQueue)
        <5>1. i \in 1..Len(writeQueue) /\ i \in DOMAIN writeQueue
          BY <1>1, <3>2, <4>1, <4>2 DEF QueueTypes
        <5>2. writeQueue[i] + InFlight = Len(wire) + i
          BY <3>1, <5>1
        <5>3. writeQueue'[i] = writeQueue[i]
          BY <1>4, <5>1
        <5> QED
          BY <3>2, <5>2, <5>3
      <4>3. CASE i > Len(writeQueue)
        <5>1. writeQueue'[i] = accepted + i - Len(writeQueue)
          BY <1>4, <4>1, <4>3
        <5> QED
          BY <3>1, <3>2, <4>1, <5>1, SMTT(60)
      <4> QED
        BY <3>2, <4>1, <4>2, <4>3
    <3> QED
      BY <3>4, <3>5
  <2>8. flight' \in Nat /\ writing' \in BOOLEAN /\ write' = write
    BY <1>6, <2>1
  <2>9. WInv' /\ writeQueue' \in Seq(Nat)
    BY <1>4, <2>5, <2>7 DEF WInv
  <2>10. accepted' \in Nat /\ accepted' >= accepted
    BY <1>2
  <2> QED
    BY <2>8, <2>9, <2>10
<1> QED
  BY <1>7, <1>8

\* The next message in the queue follows the last one on the wire.
LEMMA FrontFollowsWire ==
  ASSUME IInv, write = "pending", ~disconnected
  PROVE  flight = Len(wire) + 1 /\ Len(wire) < accepted
<1>1. QueueTypes /\ WriteOwnsBuffer /\ NothingSkipped
  BY QueueFacts DEF IInv
<1>2. writeQueue # <<>> /\ flight = Head(writeQueue)
  BY <1>1 DEF WriteOwnsBuffer
<1>3. 1 \in DOMAIN writeQueue /\ Head(writeQueue) = writeQueue[1]
  BY <1>1, <1>2 DEF QueueTypes
<1>4. InFlight = 0
  BY DEF InFlight
<1>5. writeQueue[1] = Len(wire) + 1 /\ Len(writeQueue) >= 1
  BY <1>1, <1>3, <1>4 DEF NothingSkipped, QueueTypes
<1> QED
  BY <1>1, <1>2, <1>3, <1>4, <1>5 DEF NothingSkipped, QueueTypes

LEMMA WriteSucceedsKeeps == ASSUME IInv, WriteSucceeds PROVE WInv'
<1>1. QueueTypes /\ WriteOwnsBuffer /\ NothingSkipped
  BY QueueFacts DEF IInv
<1>2. ~disconnected
  BY DEF WriteSucceeds, Lifecycle, IInv
<1>3. Len(wire') = Len(wire) + 1
  BY <1>1 DEF WriteSucceeds, QueueTypes
<1>4. WriteOwnsBuffer'
  BY <1>1 DEF WriteSucceeds, WriteOwnsBuffer
<1>5. InFlight = 0 /\ InFlight' = 1
  BY DEF WriteSucceeds, InFlight
<1>6. UNCHANGED <<writeQueue, accepted>>
  BY DEF WriteSucceeds
<1>7. NothingSkipped'
  <2>1. /\ Len(wire) + Len(writeQueue) = accepted
        /\ \A i \in DOMAIN writeQueue : writeQueue[i] = Len(wire) + i
    BY <1>1, <1>2, <1>5 DEF NothingSkipped, QueueTypes
  <2>2. Len(wire') + Len(writeQueue') = accepted' + InFlight'
    BY <1>1, <1>3, <1>5, <1>6, <2>1 DEF QueueTypes
  <2>3. ASSUME NEW i \in DOMAIN writeQueue'
        PROVE  writeQueue'[i] + InFlight' = Len(wire') + i
    BY <1>1, <1>3, <1>5, <1>6, <2>1 DEF QueueTypes
  <2> QED
    BY <2>2, <2>3 DEF NothingSkipped
<1> QED
  BY <1>4, <1>7 DEF WInv

LEMMA OnWrittenKeeps ==
  ASSUME IInv, OnWritten
  PROVE  /\ WInv'
         /\ writeQueue' \in Seq(Nat) /\ flight' \in Nat /\ writing' \in BOOLEAN
         /\ write' \in {"none", "pending"}
<1>1. QueueTypes /\ WriteOwnsBuffer /\ NothingSkipped
  BY QueueFacts DEF IInv
<1>2. writeQueue # <<>> /\ writing
  BY <1>1 DEF OnWritten, WriteOwnsBuffer
<1>3. writeQueue' = Tail(writeQueue)
  BY DEF OnWritten, PopFront
<1>4. /\ writeQueue' \in Seq(Nat) /\ Len(writeQueue') = Len(writeQueue) - 1
      /\ \A i \in DOMAIN writeQueue' :
           i + 1 \in DOMAIN writeQueue /\ writeQueue'[i] = writeQueue[i + 1]
  BY <1>1, <1>2, <1>3 DEF QueueTypes
<1>5. InFlight = 1 /\ InFlight' = 0
  BY DEF OnWritten, GoOn, Write, Started, InFlight
<1>6. UNCHANGED <<wire, accepted, disconnected>>
  BY DEF OnWritten, lossVars
<1>7. NothingSkipped'
  <2> SUFFICES ASSUME ~disconnected'
               PROVE  /\ Len(wire') + Len(writeQueue') = accepted' + InFlight'
                      /\ \A i \in DOMAIN writeQueue' :
                           writeQueue'[i] + InFlight' = Len(wire') + i
    BY DEF NothingSkipped
  <2>1. /\ Len(wire) + Len(writeQueue) = accepted + 1
        /\ \A i \in DOMAIN writeQueue : writeQueue[i] + 1 = Len(wire) + i
    BY <1>1, <1>5, <1>6 DEF NothingSkipped
  <2>2. Len(wire') + Len(writeQueue') = accepted' + InFlight'
    BY <1>1, <1>4, <1>5, <1>6, <2>1 DEF QueueTypes
  <2>3. ASSUME NEW i \in DOMAIN writeQueue'
        PROVE  writeQueue'[i] + InFlight' = Len(wire') + i
    <3>1. /\ i \in Nat /\ i + 1 \in DOMAIN writeQueue
          /\ writeQueue'[i] = writeQueue[i + 1] /\ writeQueue[i + 1] \in Nat
      BY <1>1, <1>4 DEF QueueTypes
    <3>2. writeQueue[i + 1] + 1 = Len(wire) + (i + 1)
      BY <2>1, <3>1
    <3>3. Len(wire') = Len(wire) /\ Len(wire) \in Nat /\ InFlight' = 0
      BY <1>1, <1>5, <1>6 DEF QueueTypes
    <3> QED
      BY <3>1, <3>2, <3>3
  <2> QED
    BY <2>2, <2>3
<1>8. WriteOwnsBuffer' /\ flight' \in Nat /\ writing' \in BOOLEAN
         /\ write' \in {"none", "pending"}
  <2>1. CASE writeQueue' = <<>>
    <3>1. writing' = FALSE /\ write' = "none" /\ flight' = flight
      BY <2>1 DEF OnWritten, GoOn
    <3> QED
      BY <2>1, <3>1 DEF WriteOwnsBuffer, IInv, TypeOK
  <2>2. CASE writeQueue' # <<>>
    <3>1. writing' = writing /\ write' = "pending" /\ flight' = Head(writeQueue')
      BY <2>2 DEF OnWritten, GoOn, Write, Started
    <3>2. writing' = TRUE /\ flight' \in Nat
      BY <1>2, <1>4, <2>2, <3>1 DEF IInv, TypeOK
    <3> QED
      BY <2>2, <3>1, <3>2 DEF WriteOwnsBuffer
  <2> QED
    BY <2>1, <2>2
<1> QED
  BY <1>4, <1>7, <1>8 DEF WInv

-----------------------------------------------------------------------------
(* Every step keeps the invariant *)

LEMMA OwnerIInv == ASSUME IInv, Owner PROVE IInv'
<1> USE DEF IInv, OneMessageBuffered, EndWillBeNoticed, Lifecycle, Connecting,
            readVars, lossVars
<1>1. CASE Connect
  <2>1. WInv'
    BY <1>1, WritesUntouched DEF Connect, WInv
  <2> QED
    BY <1>1, <2>1 DEF Connect, WInv, TypeOK, Phases, writeVars
<1>2. CASE Close
  <2>1. WInv'
    BY <1>2, WritesUntouched DEF Close, WInv
  <2> QED
    BY <1>2, <2>1 DEF Close, WInv, TypeOK, writeVars
<1>3. CASE Send
  <2>1. SendMany(1) /\ UNCHANGED <<wire, disconnected>>
    BY <1>3 DEF Send
  <2>2. /\ WInv'
        /\ writeQueue' \in Seq(Nat) /\ flight' \in Nat /\ writing' \in BOOLEAN
        /\ accepted' \in Nat
        /\ (write' = write \/ (write = "none" /\ write' = "pending"))
    BY <2>1, SendManyKeeps
  <2> QED
    BY <1>3, <2>2 DEF Send, WInv, TypeOK, Operation, connectVars
<1> QED
  BY <1>1, <1>2, <1>3 DEF Owner

LEMMA ConnectingIInv ==
  ASSUME IInv,
         OnResolved \/ OnTcpConnected \/ OnSecured \/ OnConnected \/ OnConnectFailed
  PROVE  IInv'
<1> USE DEF IInv, OneMessageBuffered, EndWillBeNoticed, Lifecycle, Connecting
<1>1. CASE OnResolved \/ OnTcpConnected \/ OnSecured
  <2>1. WInv'
    BY <1>1, WritesUntouched DEF OnResolved, OnTcpConnected, OnSecured, WInv, lossVars
  <2> QED
    BY <1>1, <2>1, TlsAssumption DEF OnResolved, OnTcpConnected, OnSecured, WInv,
       TypeOK, Phases, writeVars, readVars, lossVars
<1>2. CASE OnConnectFailed
  <2>1. WInv'
    BY <1>2, WritesUntouched DEF OnConnectFailed, FireDisconnected, WInv, lossVars
  <2>2. disconnected' = TRUE /\ told' = 1
    BY <1>2, FireDisconnectedFacts DEF OnConnectFailed
  <2> QED
    BY <1>2, <2>1, <2>2 DEF OnConnectFailed, WInv, TypeOK,
       Phases, writeVars, readVars
<1>3. CASE OnConnected
  <2>1. PICK n \in 0..MaxSends : SendMany(n)
    BY <1>3 DEF OnConnected
  <2>2. n \in Nat /\ UNCHANGED <<wire, disconnected>>
    BY <1>3, BoundsAssumption DEF OnConnected, lossVars
  <2>3. /\ WInv'
        /\ writeQueue' \in Seq(Nat) /\ flight' \in Nat /\ writing' \in BOOLEAN
        /\ accepted' \in Nat
        /\ (write' = write \/ (write = "none" /\ write' = "pending"))
    BY <2>1, <2>2, SendManyKeeps
  <2> QED
    BY <1>3, <2>3 DEF OnConnected, Read, WInv, TypeOK, Phases, Operation, lossVars
<1> QED
  BY <1>1, <1>2, <1>3

LEMMA ReadWriteIInv ==
  ASSUME IInv, OnMessage \/ OnReadFailed \/ OnWritten \/ OnWriteFailed
  PROVE  IInv'
<1> USE DEF IInv, OneMessageBuffered, EndWillBeNoticed, Lifecycle, Connecting
<1>1. CASE OnMessage
  <2>1. PICK n \in 0..MaxSends : SendMany(n)
    BY <1>1 DEF OnMessage
  <2>2. n \in Nat /\ UNCHANGED <<wire, disconnected>>
    BY <1>1, BoundsAssumption DEF OnMessage, lossVars
  <2>3. /\ WInv'
        /\ writeQueue' \in Seq(Nat) /\ flight' \in Nat /\ writing' \in BOOLEAN
        /\ accepted' \in Nat
        /\ (write' = write \/ (write = "none" /\ write' = "pending"))
    BY <2>1, <2>2, SendManyKeeps
  <2>4. delivered' \in Seq(Seq(Nat))
    BY <1>1 DEF OnMessage, TypeOK
  <2> QED
    BY <1>1, <2>3, <2>4 DEF OnMessage, Read, WInv, TypeOK, Operation, connectVars,
       lossVars
<1>2. CASE OnReadFailed
  <2>1. WInv'
    BY <1>2, WritesUntouched DEF OnReadFailed, FireDisconnected, WInv, lossVars
  <2>2. disconnected' = TRUE /\ told' = 1
    BY <1>2, FireDisconnectedFacts DEF OnReadFailed
  <2> QED
    BY <1>2, <2>1, <2>2 DEF OnReadFailed, WInv, TypeOK,
       Operation, writeVars, connectVars
<1>3. CASE OnWritten
  <2>1. /\ WInv'
        /\ writeQueue' \in Seq(Nat) /\ flight' \in Nat /\ writing' \in BOOLEAN
        /\ write' \in {"none", "pending"}
    BY <1>3, OnWrittenKeeps
  <2> QED
    BY <1>3, <2>1 DEF OnWritten, WInv, TypeOK, Operation, readVars, connectVars,
       lossVars
<1>4. CASE OnWriteFailed
  <2>1. /\ writeQueue' = <<>> /\ writing' = FALSE /\ write' = "none"
        /\ disconnected'
    BY <1>4 DEF OnWriteFailed, FireDisconnected, lossVars
  <2>2. WInv'
    BY <2>1 DEF WInv, WriteOwnsBuffer, NothingSkipped
  <2>3. disconnected' = TRUE /\ told' = 1
    BY <1>4, FireDisconnectedFacts DEF OnWriteFailed
  <2>4. write' \in Operation
    BY <2>1 DEF Operation
  <2>12. writeQueue' \in Seq(Nat)
    BY <2>1
  <2>13. writing' \in BOOLEAN
    BY <2>1
  <2>5. UNCHANGED <<phase, sock, readBuf, read, delivered, flight, accepted, wire>>
    BY <1>4 DEF OnWriteFailed, readVars, connectVars
  <2>6. TypeOK'
    BY <2>3, <2>4, <2>5, <2>12, <2>13 DEF TypeOK
  <2>7. sock # "open" /\ phase = "open"
    BY <1>4 DEF OnWriteFailed
  <2>10. OneMessageBuffered' /\ EndWillBeNoticed'
    BY <2>3, <2>5
  <2>11. Lifecycle'
    BY <2>1, <2>3, <2>5, <2>7
  <2> QED
    BY <2>2, <2>6, <2>10, <2>11 DEF WInv
<1> QED
  BY <1>1, <1>2, <1>3, <1>4

LEMMA NetworkIInv == ASSUME IInv, Network PROVE IInv'
<1> USE DEF IInv, OneMessageBuffered, EndWillBeNoticed, Lifecycle, Connecting
<1>1. CASE Drops
  <2>1. WInv'
    BY <1>1, WritesUntouched DEF Drops, WInv, lossVars
  <2> QED
    BY <1>1, <2>1 DEF Drops, WInv, TypeOK, writeVars, readVars, lossVars
<1>2. CASE WriteSucceeds
  <2>1. WInv' /\ wire' \in Seq(Nat)
    BY <1>2, WriteSucceedsKeeps DEF WriteSucceeds, TypeOK
  <2> QED
    BY <1>2, <2>1 DEF WriteSucceeds, WInv, TypeOK, Operation, readVars,
       connectVars, lossVars
<1>3. CASE WriteFails
  <2>1. WInv'
    BY <1>3 DEF WriteFails, WInv, WriteOwnsBuffer, NothingSkipped, InFlight, lossVars
  <2> QED
    BY <1>3, <2>1 DEF WriteFails, WInv, TypeOK, Operation, readVars, connectVars,
       lossVars
<1>4. CASE MessageArrives
  <2>1. WInv'
    BY <1>4, WritesUntouched DEF MessageArrives, WInv, lossVars
  <2>2. readBuf' = <<Len(delivered) + 1>> /\ readBuf' \in Seq(Nat)
    BY <1>4 DEF MessageArrives, TypeOK
  <2> QED
    BY <1>4, <2>1, <2>2 DEF MessageArrives, WInv, TypeOK, Operation, writeVars,
       connectVars, lossVars
<1>5. CASE ReadFails
  <2>1. WInv'
    BY <1>5, WritesUntouched DEF ReadFails, WInv, lossVars
  <2> QED
    BY <1>5, <2>1 DEF ReadFails, WInv, TypeOK, Operation, writeVars, connectVars,
       lossVars
<1> QED
  BY <1>1, <1>2, <1>3, <1>4, <1>5 DEF Network

LEMMA NextIInv == ASSUME IInv, [Next]_vars PROVE IInv'
<1>1. CASE UNCHANGED vars
  BY <1>1 DEF IInv, TypeOK, WriteOwnsBuffer, NothingSkipped, InFlight,
     OneMessageBuffered, EndWillBeNoticed, Lifecycle, Connecting, vars,
     connectVars, writeVars, readVars, lossVars
<1> QED
  BY <1>1, OwnerIInv, ConnectingIInv, ReadWriteIInv, NetworkIInv
     DEF Next, Handlers

LEMMA InductiveInvariant == Spec => []IInv
BY InitIInv, NextIInv, PTL DEF Spec

-----------------------------------------------------------------------------
(* The theorems *)

\* The buffer handed to async_write is the front of _writeQueue until the write
\* ends, and never are two writes outstanding.
THEOREM OneWriteInFlight == Spec => []WriteOwnsBuffer
<1>1. IInv => WriteOwnsBuffer
  BY DEF IInv
<1> QED
  BY <1>1, InductiveInvariant, PTL

\* What Send() accepted is on the wire, in flight or queued until the loss of
\* the connection.
THEOREM NoMessageSkipped == Spec => []NothingSkipped
<1>1. IInv => NothingSkipped
  BY DEF IInv
<1> QED
  BY <1>1, InductiveInvariant, PTL

\* A silent transport still has something pending that will notice the end.
THEOREM LossIsNoticed == Spec => []EndWillBeNoticed
<1>1. IInv => EndWillBeNoticed
  BY DEF IInv
<1> QED
  BY <1>1, InductiveInvariant, PTL

LEMMA InitRefines == Init => Contract!Init
BY DEF Init, Contract!Init, Status

LEMMA StepRefines == ASSUME IInv, [Next]_vars PROVE [Contract!Next]_(Contract!contractVars)
<1> USE DEF Contract!Next, Contract!contractVars, Status, IInv, Lifecycle,
            Connecting, lossVars
<1>1. CASE UNCHANGED vars
  BY <1>1 DEF vars, connectVars, writeVars, readVars
<1>2. CASE Connect
  BY <1>2 DEF Connect, Contract!Connect, writeVars, readVars
<1>3. CASE Send
  <2>1. accepted' = accepted + 1
    BY <1>3 DEF Send, SendMany
  <2> QED
    BY <1>3, <2>1 DEF Send, Contract!Send, connectVars, readVars
<1>4. CASE Close \/ Drops
  BY <1>4 DEF Close, Drops, writeVars, readVars
<1>5. CASE OnResolved \/ OnTcpConnected \/ OnSecured
  BY <1>5, TlsAssumption DEF OnResolved, OnTcpConnected, OnSecured, writeVars, readVars
<1>6. CASE OnConnected
  <2>1. PICK n \in 0..MaxSends : SendMany(n)
    BY <1>6 DEF OnConnected
  <2>2. accepted' = accepted + n /\ n >= 0
    BY <2>1, BoundsAssumption DEF SendMany
  <2>3. accepted' >= accepted
    BY <2>1, <2>2, BoundsAssumption DEF TypeOK
  <2> QED
    BY <1>6, <2>3 DEF OnConnected, Contract!ReportConnected
<1>7. CASE OnConnectFailed
  BY <1>7 DEF OnConnectFailed, FireDisconnected, Contract!ReportDisconnected,
     writeVars, readVars
<1>8. CASE OnMessage
  <2>1. PICK n \in 0..MaxSends : SendMany(n)
    BY <1>8 DEF OnMessage
  <2>2. accepted' >= accepted
    BY <2>1, BoundsAssumption DEF SendMany, TypeOK
  <2>3. delivered' = Append(delivered, <<Len(delivered) + 1>>)
    BY <1>8 DEF OnMessage, OneMessageBuffered
  <2>4. phase = "open"
    BY <1>8 DEF OnMessage
  <2> QED
    BY <1>8, <2>2, <2>3, <2>4 DEF OnMessage, Contract!Deliver, connectVars
<1>9. CASE OnReadFailed
  <2>1. phase = "open"
    BY <1>9 DEF OnReadFailed
  <2> QED
    BY <1>9, <2>1 DEF OnReadFailed, FireDisconnected, Contract!ReportDisconnected,
       connectVars, writeVars
<1>10. CASE OnWritten
  BY <1>10 DEF OnWritten, connectVars, readVars
<1>11. CASE OnWriteFailed
  <2>1. phase = "open"
    BY <1>11 DEF OnWriteFailed
  <2> QED
    BY <1>11, <2>1 DEF OnWriteFailed, FireDisconnected,
       Contract!ReportDisconnected, connectVars, readVars
<1>12. CASE WriteSucceeds
  <2>1. ~disconnected /\ phase = "open" /\ write = "pending"
    BY <1>12 DEF WriteSucceeds
  <2>2. flight = Len(wire) + 1 /\ Len(wire) < accepted
    BY <2>1, FrontFollowsWire
  <2> QED
    BY <1>12, <2>1, <2>2 DEF WriteSucceeds, Contract!Transmit, connectVars, readVars
<1>13. CASE WriteFails \/ MessageArrives \/ ReadFails
  BY <1>13 DEF WriteFails, MessageArrives, ReadFails, connectVars, writeVars, readVars
<1> QED
  BY <1>1, <1>2, <1>3, <1>4, <1>5, <1>6, <1>7, <1>8, <1>9, <1>10, <1>11, <1>12,
     <1>13 DEF Next, Owner, Handlers, Network

\* A WsTransport keeps its contract: connected and disconnected once each,
\* messages in order, without gaps and unmixed in both directions.
THEOREM TransportKeepsContract == Spec => KeepsContract
<1>1. Init => Contract!Init
  BY InitRefines
<1>2. IInv /\ [Next]_vars => [Contract!Next]_(Contract!contractVars)
  BY StepRefines
<1> QED
  BY <1>1, <1>2, InductiveInvariant, PTL DEF Spec, KeepsContract, Contract!Spec
=============================================================================
