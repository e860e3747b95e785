---------------------------- MODULE ClientServer ----------------------------
(***************************************************************************)
(* A Server and a Client that may reset, disconnect and connect again, and *)
(* the UDP network between them.  Packets of an earlier session arrive     *)
(* late, so the server deals with several connections.                     *)
(*                                                                         *)
(* The network loses, repeats, delays and reorders, if it is Lossy.  A     *)
(* network that is not delivers each packet once, before the receiver's    *)
(* loop ends.  What is sent to an address that the client has left is lost.*)
(* In each tick a host receives, lets its application act and sends, and   *)
(* then sleeps (Ticker); its loop of receiving is not interrupted by steps  *)
(* of the other.  Sockets are opened, NATs change ports and packets get     *)
(* lost between two ticks: earlier or later makes no difference.            *)
(*                                                                         *)
(* Bounds: MaxInFlight packets on their way to the server (the client has  *)
(* at most one of each kind), MaxPending events of a connection waiting    *)
(* when a message arrives, those of Client.                                *)
(***************************************************************************)
EXTENDS Server, Client, FiniteSets

CONSTANTS Envs,          \* what may happen to send_packet()
          ServerCloses,  \* the connections the server's application may
          ServerResets,  \* close, or reset
          ServerRestarts, ClientCloses,
          Messages,      \* packets may carry messages
          Lossy,
          Truncates,     \* what arrives may be too short for a connection
          MaxInFlight, MaxPending

ASSUME ClientServerAssumption ==
    /\ Ids = 1..MaxChanges
    /\ Envs \subseteq {"sent", "refused", "skipped"}
    /\ ServerCloses \subseteq Ids /\ ServerResets \subseteq Ids
    /\ {ServerRestarts, ClientCloses, Messages, Lossy, Truncates}
            \subseteq BOOLEAN
    /\ {MaxInFlight, MaxPending} \subseteq Nat

VARIABLES toServer,      \* packets on their way to the server
          toClient,      \* kinds of packets on their way to the client
          due            \* the hosts that are awake: they have yet to send

csVars == <<serverVars, clientVars, toServer, toClient, due>>

Init ==
    /\ ServerInit /\ ClientInit
    /\ toServer = {} /\ toClient = {}
    /\ due = {}

\* The application of a host is in its loop of accept_receive() or receive().
ServerBusy ==
    accepting \/ (~serverReceives /\ pending # NoEvents)
ClientBusy == receiving \/ (~clientReceives /\ queued # <<>>)

\* The other host takes no part in a step, and is not in the middle of a loop.
\* Nothing is looked at after a panic.
NoServerStep == ~panicked /\ ~ServerBusy /\ UNCHANGED serverVars
NoClientStep == ~ClientBusy /\ UNCHANGED clientVars
NoPackets == UNCHANGED <<toServer, toClient>>

ServerAwake == "server" \in due
ClientAwake == "client" \in due
AllAsleep == due = {}

\* Whether a message comes along.
Carried(n) == IF Messages /\ n < MaxPending THEN BOOLEAN ELSE {FALSE}

\* Whether the sequence number of a packet is newer than that of the last one.
\* On a lossy network either may be, and even what was sent earlier is newer
\* when a reset, a closure packet taken first (it counts as number 0), or 128
\* lost packets came in between.
NewerOrNot == IF Lossy THEN BOOLEAN ELSE {TRUE}

\* What may arrive in place of p: other bytes with the protocol's header and an
\* id count as a packet cut short.
Arriving(p) == {p} \cup IF Truncates THEN {[p EXCEPT !.kind = "short"]} ELSE {}

\* What is left of the packets after one was received.
After(packets, p) == IF Lossy THEN packets ELSE packets \ {p}

\* The packets on their way after some more were sent.
Carrying(packets, more) ==
    IF Lossy THEN {left \cup more : left \in SUBSET packets}
    ELSE {packets \cup more}

-----------------------------------------------------------------------------
(* The server *)

ServerStarts ==
    /\ AllAsleep /\ Listen
    /\ UNCHANGED due /\ NoClientStep /\ NoPackets

ServerStops ==
    /\ ServerAwake /\ ServerRestarts /\ Shutdown
    /\ due' = due \ {"server"}
    /\ NoClientStep /\ NoPackets

ServerLoop ==
    /\ ServerAwake
    /\ \/ BeginAccept
       \/ EndAccept /\ (Lossy \/ toServer = {})
       \/ \E id \in Ids : FetchEvent(id)
    /\ UNCHANGED due /\ NoClientStep /\ NoPackets

ServerAccepts ==
    /\ \E p \in toServer : \E q \in Arriving(p) :
          /\ \E carries \in Carried(Len(pending[p.id])) :
                \/ \E newer \in NewerOrNot : AcceptKnown(q, newer, carries)
                \/ AcceptNew(q, TRUE, carries)
          /\ toServer' = After(toServer, p)
    /\ UNCHANGED <<toClient, due>> /\ NoClientStep

ServerSends ==
    /\ ServerAwake
    /\ \E env \in [Ids -> Envs] :
          /\ ServerSend(env)
          /\ IF online /\ session \in Ids
             THEN toClient' \in Carrying(toClient,
                                         ServerPackets(env, session, addr))
             ELSE UNCHANGED toClient
    /\ due' = due \ {"server"}
    /\ UNCHANGED toServer /\ NoClientStep

ServerUses ==
    /\ ServerAwake
    /\ \/ \E id \in ServerCloses \cap DOMAIN connections :
             /\ connections[id].state # "Closing"
             /\ CloseConnection(id)
       \/ \E id \in ServerResets : ResetConnection(id)
    /\ UNCHANGED due /\ NoClientStep /\ NoPackets

-----------------------------------------------------------------------------
(* The client *)

ClientStarts ==
    /\ AllAsleep /\ Connect
    /\ UNCHANGED due /\ NoServerStep /\ NoPackets

\* The socket is gone, and what is on its way to it.
ClientStops ==
    /\ ClientAwake /\ Disconnect
    /\ toClient' = {}
    /\ due' = due \ {"client"}
    /\ UNCHANGED toServer /\ NoServerStep

ClientLoop ==
    /\ ClientAwake
    /\ \/ BeginReceive
       \/ EndReceive /\ (Lossy \/ toClient = {})
       \/ ClientFetch
    /\ UNCHANGED due /\ NoServerStep /\ NoPackets

ClientTakes ==
    /\ \E kind \in toClient :
       \E q \in Arriving([kind |-> kind, addr |-> ServerAddress]) :
       \E newer \in NewerOrNot : \E carries \in Carried(0) :
          /\ TakePacket(q, newer, carries)
          /\ toClient' = After(toClient, kind)
    /\ UNCHANGED <<toServer, due>> /\ NoServerStep

ClientSends ==
    /\ ClientAwake
    /\ \E env \in Envs :
          /\ ClientSend(env)
          /\ toServer' \in Carrying(toServer, ClientPackets(env))
          /\ Cardinality(toServer') <= MaxInFlight
    /\ due' = due \ {"client"}
    /\ UNCHANGED toClient /\ NoServerStep

ClientUses ==
    /\ ClientAwake
    /\ ResetClient \/ (ClientCloses /\ CloseClient)
    /\ UNCHANGED due /\ NoServerStep /\ NoPackets

-----------------------------------------------------------------------------
(* The network and time *)

\* The NAT forgets the old port.
ClientMoves ==
    /\ AllAsleep /\ Rebind
    /\ toClient' = {}
    /\ UNCHANGED <<toServer, due>> /\ NoServerStep

LoseToServer(p) ==
    /\ AllAsleep /\ Lossy /\ p \in toServer
    /\ toServer' = toServer \ {p}
    /\ UNCHANGED <<toClient, due>> /\ NoServerStep /\ NoClientStep

LoseToClient(kind) ==
    /\ AllAsleep /\ Lossy /\ kind \in toClient
    /\ toClient' = toClient \ {kind}
    /\ UNCHANGED <<toServer, due>> /\ NoServerStep /\ NoClientStep

Tick ==
    /\ AllAsleep /\ ~panicked
    /\ due' = (IF listening THEN {"server"} ELSE {})
              \cup (IF online THEN {"client"} ELSE {})
    /\ ServerElapse /\ ClientElapse
    /\ UNCHANGED <<listening, addresses, dropped, pending, serverReceives,
                   accepting, panicked, known, causes>>
    /\ UNCHANGED <<online, session, queued, clientReceives, receiving,
                   addr, changes, told>>
    /\ NoPackets

Packets == [id : Ids, kind : PacketKinds, addr : 1..MaxChanges]

Next ==
    \/ ServerStarts \/ ServerStops \/ ServerLoop \/ ServerAccepts
    \/ ServerSends \/ ServerUses
    \/ ClientStarts \/ ClientStops \/ ClientLoop \/ ClientTakes
    \/ ClientSends \/ ClientUses \/ ClientMoves
    \/ \E p \in Packets : LoseToServer(p)
    \/ \E kind \in PacketKinds : LoseToClient(kind)
    \/ Tick

Spec == Init /\ [][Next]_csVars

\* What goes on by itself: the loops of the applications, and time.
Onward ==
    \/ ServerLoop \/ ServerSends \/ ClientLoop \/ ClientSends
    \/ ~Lossy /\ (ServerAccepts \/ ClientTakes)
    \/ Tick

\* The client has left this session.
Left(id) == session > id \/ (session = id /\ ~online)

LoseLate == \E p \in toServer : Left(p.id) /\ LoseToServer(p)

\* The applications run their loops, so ticks follow one another: within a tick
\* a host receives once and sends once, and one fairness condition does for all
\* these steps.  No packet stays in the network for ever; this is said of the
\* sessions that are over, and strongly, since packets get lost between ticks.
\* Nobody has to connect, reset, close or stop.
Fairness == WF_csVars(Onward) /\ SF_csVars(LoseLate)

FairSpec == Spec /\ Fairness
-----------------------------------------------------------------------------
(* Properties *)

TypeOK ==
    /\ {listening, serverReceives, accepting, panicked, online,
        clientReceives, receiving} \subseteq BOOLEAN
    /\ causes \subseteq {"reset", "short"}
    /\ DOMAIN connections \subseteq Ids /\ DOMAIN addresses \subseteq Ids
    /\ \A id \in DOMAIN connections : connections[id] \in ConnectionRecords
    /\ \A id \in DOMAIN addresses : addresses[id] \in 1..MaxChanges
    /\ dropped \subseteq Ids
    /\ pending \in [Ids -> Seq(ConnectionEvents)]
    /\ known \in [Ids -> {"in", "out"}]
    /\ changes \in 0..MaxChanges
    /\ session \in 0..changes
    /\ addr \in 1..(changes + 1)
    /\ conn \in ConnectionRecords /\ queued \in Seq(ConnectionEvents)
    /\ told \in {"yet", "in", "over", "unsure"}
    /\ toServer \subseteq Packets /\ toClient \subseteq PacketKinds
    /\ due \subseteq {"server", "client"}

\* No received message is dismissed: send_packet() discards what was not
\* fetched with events() (connection.rs l.620), so whenever a host may call
\* send() its connections hold no unread message.
NothingDismissed ==
    /\ \A id \in DOMAIN connections : ~connections[id].unread
    /\ conn.unread => receiving

\* A server forgets a client it does not hear from: when the hosts have sent
\* and sleep, a connection that is open has heard from its client within its
\* threshold, and one that is not is listed for removal by the next send()
\* (server.rs l.291, l.271), so that none is overlooked between the two.
SilentConnectionsEnd ==
    AllAsleep /\ ~panicked => \A id \in DOMAIN connections :
        LET c == connections[id]
        IN  IF Open(c)
            THEN c.sinceRecv <= CASE c.state = "Connecting" -> InitThreshold
                                  [] c.state = "Connected" -> DropThreshold
                                  [] c.state = "Closing" -> ClosingThreshold
            ELSE id \in dropped

\* close() on the client's side comes to an end: config.rs l.41-42 gives the
\* maximum time to wait for the remote confirmation.
CloseFinishes == (conn.state = "Closing") ~> (conn.state # "Closing")
=============================================================================
