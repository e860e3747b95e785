------------------------------- MODULE Server -------------------------------
(***************************************************************************)
(* server.rs: the connections of a Server, the addresses it sends to, the  *)
(* list of connections that are over and the events for the application.   *)
(*                                                                         *)
(* The application works as in the example of server.rs l.80-94: it calls  *)
(* accept_receive() until there are no more events, and then send().  It   *)
(* touches a connection only while the events say that it is there.        *)
(*                                                                         *)
(* The loop of accept_receive() is a step per packet.  Events are queued   *)
(* per connection; in the source they share one queue, but no property     *)
(* compares the events of two connections.  A panic ends the process.      *)
(***************************************************************************)
EXTENDS ConnectionStates

CONSTANTS Ids             \* the connection ids of the clients

VARIABLES listening,      \* there is a socket
          connections,    \* by id
          addresses,      \* by id: where packets are sent
          dropped,        \* ids found not open by the last send()
          pending,        \* by id: events the application has yet to fetch
          serverReceives, \* should_receive
          accepting,      \* in the loop of accept_receive()
          panicked,
          known,          \* by id: what the fetched events say, "in" or "out"
          causes          \* history: what may lead to a panic: a "reset" by
                          \* the application, a first packet too "short"

serverVars == <<listening, connections, addresses, dropped, pending,
                serverReceives, accepting, panicked, known, causes>>

\* insert() of a HashMap.
Put(f, k, v) == [x \in DOMAIN f \cup {k} |-> IF x = k THEN v ELSE f[x]]

\* Mutant: remove() is forgotten.
WithoutNone(f, keys) == f

Without(f, keys) == [x \in DOMAIN f \ keys |-> f[x]]

Nothing == [id \in {} |-> {}]
NoEvents == [id \in Ids |-> <<>>]

ServerInit ==
    /\ listening = FALSE
    /\ connections = Nothing
    /\ addresses = Nothing
    /\ dropped = {}
    /\ pending = NoEvents
    /\ serverReceives = FALSE
    /\ accepting = FALSE
    /\ panicked = FALSE
    /\ known = [id \in Ids |-> "out"]
    /\ causes = {}

\* The server runs, and its application is not inside of a call.
ServerCalls == listening /\ ~panicked /\ ~accepting

Listen ==
    /\ ~listening /\ ~panicked
    /\ listening' = TRUE
    /\ serverReceives' = TRUE
    /\ UNCHANGED <<connections, addresses, dropped, pending, accepting,
                   panicked, known, causes>>

\* shutdown(): an application that calls it knows that nobody is left.
Shutdown ==
    /\ ServerCalls
    /\ listening' = FALSE
    /\ serverReceives' = FALSE
    /\ connections' = Nothing
    /\ addresses' = Nothing
    /\ dropped' = {}
    /\ pending' = NoEvents
    /\ known' = [id \in Ids |-> "out"]
    /\ causes' = {}
    /\ UNCHANGED <<accepting, panicked>>

-----------------------------------------------------------------------------
(* accept_receive() *)

BeginAccept ==
    /\ ServerCalls /\ serverReceives
    /\ accepting' = TRUE
    /\ UNCHANGED <<listening, connections, addresses, dropped, pending,
                   serverReceives, panicked, known, causes>>

EndAccept ==
    /\ accepting /\ ~panicked
    /\ accepting' = FALSE
    /\ serverReceives' = FALSE
    /\ UNCHANGED <<listening, connections, addresses, dropped, pending,
                   panicked, known, causes>>

\* The application gets an event.
FetchEvent(id) ==
    /\ ServerCalls /\ ~serverReceives
    /\ pending[id] # <<>>
    /\ pending' = [pending EXCEPT ![id] = Tail(@)]
    /\ known' = [known EXCEPT ![id] =
                    IF Head(pending[id])[1] \in {"Connected", "Message"}
                    THEN "in" ELSE "out"]
    /\ UNCHANGED <<listening, connections, addresses, dropped,
                   serverReceives, accepting, panicked, causes>>

\* map_connection_events() panics.
Unmappable(c) == \E i \in DOMAIN c.events : c.events[i][1] = "FailedToConnect"

\* The connection moves to the address of a packet that it consumed.
Moves(c, p, newer) == Consumes(c, p, newer) /\ p.addr # c.peer

\* receive_connection_packet(), for an id with a connection.
AcceptKnown(p, newer, carries) ==
    /\ accepting /\ ~panicked
    /\ p.id \in DOMAIN connections
    /\ \E old \in {connections[p.id]} :
       \E c \in {ReceivePacket(old, p, newer, carries)} :
       \E moved \in {Moves(old, p, newer)} :
          /\ connections' = Put(connections, p.id,
                 Drained(IF moved THEN SetPeerAddr(c, p.addr) ELSE c))
          /\ addresses' = IF moved THEN Put(addresses, p.id, p.addr)
                          ELSE addresses
          /\ pending' = [pending EXCEPT ![p.id] = @ \o Drain(c)]
          /\ panicked' = Unmappable(c)
    /\ UNCHANGED <<listening, dropped, serverReceives, accepting, known,
                   causes>>

\* Mutant: the events of a first packet are not mapped.
AcceptNewSilently(p, newer, carries) ==
    /\ accepting /\ ~panicked
    /\ p.id \notin DOMAIN connections
    /\ addresses' = Put(addresses, p.id, p.addr)
    /\ connections' = Put(connections, p.id,
                          ReceivePacket(Fresh(p.addr), p, newer, carries))
    /\ UNCHANGED <<listening, dropped, pending, serverReceives, accepting,
                   panicked, known, causes>>

\* receive_connection_packet(), for a new id.  The connection is kept although
\* it refuses a packet that is too short (l.387).
AcceptNew(p, newer, carries) ==
    /\ accepting /\ ~panicked
    /\ p.id \notin DOMAIN connections
    /\ addresses' = Put(addresses, p.id, p.addr)
    /\ \E c \in {ReceivePacket(Fresh(p.addr), p, newer, carries)} :
          IF Consumes(Fresh(p.addr), p, newer)
          THEN /\ connections' = Put(connections, p.id, Drained(c))
               /\ pending' = [pending EXCEPT ![p.id] = @ \o Drain(c)]
               /\ panicked' = Unmappable(c)
               /\ UNCHANGED causes
          ELSE /\ connections' = Put(connections, p.id, c)
               /\ causes' = causes \cup {"short"}
               /\ UNCHANGED <<pending, panicked>>
    /\ UNCHANGED <<listening, dropped, serverReceives, accepting, known>>

-----------------------------------------------------------------------------
(* send(), with an environment (SendPacket) for each connection *)

\* What is left when the dropped connections are removed.
Staying == DOMAIN connections \ dropped

Sent(id, env) == SendPacket(connections[id], env[id])

\* Mutant: only the connections that end in this call are found.
OverNow(env) ==
    {id \in Staying : Open(connections[id]) /\ ~Open(Sent(id, env))}

Over(env) == {id \in Staying : ~Open(Sent(id, env))}

\* remove(id).unwrap(), addresses[id], and unreachable!().
SendPanics(env) ==
    \/ ~(dropped \subseteq DOMAIN connections)
    \/ ~(Staying \subseteq DOMAIN addresses)
    \/ \E id \in Over(env) : Unmappable(Sent(id, env))

\* The kinds of packets that go to an address with it.
ServerPackets(env, id, addr) ==
    IF id \in Staying \cap DOMAIN addresses /\ addresses[id] = addr
    THEN PacketOf(connections[id], env[id]) ELSE {}

\* Mutant: the list of dropped ids is not emptied.
ServerSendKeepsDropped(env) ==
    /\ ServerCalls /\ ~serverReceives
    /\ pending = NoEvents
    /\ connections' =
          [id \in Staying |-> IF id \in Over(env) THEN Drained(Sent(id, env))
                              ELSE Sent(id, env)]
    /\ addresses' = Without(addresses, dropped)
    /\ dropped' = dropped \cup Over(env)
    /\ pending' = [id \in Ids |-> IF id \in Over(env)
                                  THEN Drain(Sent(id, env)) ELSE <<>>]
    /\ panicked' = SendPanics(env)
    /\ serverReceives' = TRUE
    /\ UNCHANGED <<listening, accepting, known, causes>>

ServerSend(env) ==
    /\ ServerCalls /\ ~serverReceives
    /\ pending = NoEvents
    /\ connections' =
          [id \in Staying |-> IF id \in Over(env) THEN Drained(Sent(id, env))
                              ELSE Sent(id, env)]
    /\ addresses' = Without(addresses, dropped)
    /\ dropped' = Over(env)
    /\ pending' = [id \in Ids |-> IF id \in Over(env)
                                  THEN Drain(Sent(id, env)) ELSE <<>>]
    /\ panicked' = SendPanics(env)
    /\ serverReceives' = TRUE
    /\ UNCHANGED <<listening, accepting, known, causes>>

-----------------------------------------------------------------------------
(* What the application does with a connection, and time *)

\* The application has fetched the events, and they say that it is there.
Usable(id) ==
    /\ ServerCalls
    /\ id \in DOMAIN connections
    /\ known[id] = "in" /\ pending[id] = <<>>

CloseConnection(id) ==
    /\ Usable(id)
    /\ connections' = [connections EXCEPT ![id] = Close(@)]
    /\ UNCHANGED <<listening, addresses, dropped, pending, serverReceives,
                   accepting, panicked, known, causes>>

\* The application knows that the connection has to be established again.
ResetConnection(id) ==
    /\ Usable(id)
    /\ connections' = [connections EXCEPT ![id] = Reset(@)]
    /\ known' = [known EXCEPT ![id] = "out"]
    /\ causes' = causes \cup {"reset"}
    /\ UNCHANGED <<listening, addresses, dropped, pending, serverReceives,
                   accepting, panicked>>

ServerElapse ==
    connections' = [id \in DOMAIN connections |-> Elapse(connections[id])]
-----------------------------------------------------------------------------
(* Properties *)

Ages(threshold) == 0..(threshold + 1)

ConnectionEvents == {<<"Connected">>, <<"Message">>, <<"FailedToConnect">>}
                    \cup {<<e, b>> : e \in {"Lost", "Closed"}, b \in BOOLEAN}

ConnectionRecords ==
    [state : OpenStates \cup TerminalStates,
     sinceRecv : Ages(LastThreshold), sinceSend : Ages(DropThreshold),
     unread : BOOLEAN, peer : Nat, remote : Nat,
     events : Seq(ConnectionEvents)]

\* The collections of the server agree: a connection has an address, it is the
\* one of its peer_addr() and the one its last consumed packet came from, and
\* what waits for removal (drain() in send(), l.271) is there and over.
CollectionsAgree ==
    /\ DOMAIN addresses = DOMAIN connections
    /\ dropped \subseteq DOMAIN connections
    /\ \A id \in DOMAIN connections :
          /\ addresses[id] = connections[id].peer
          /\ connections[id].state # "Connecting" /\ ~panicked =>
                addresses[id] = connections[id].remote
          /\ id \in dropped => ~Open(connections[id])

\* What the application knows before event i, or after all events if there are
\* fewer.
KnownBefore(id, i) ==
    IF i = 1 THEN known[id]
    ELSE IF pending[id][i - 1][1] \in {"Connected", "Message"} THEN "in"
    ELSE "out"

\* An application that follows the events knows its clients: a Connection event
\* only comes for a client that is not there, messages and endings only for one
\* that is, and after all events exactly the clients with an established
\* connection are there.  Each connection is announced and ended once although
\* the ends found by accept_receive() and by send() are mapped in two places
\* (l.366, l.293) and the map forgets connections only at a later send().
EventsTellConnections ==
    ~panicked => \A id \in Ids :
        /\ \A i \in DOMAIN pending[id] :
              pending[id][i][1] = "Connected" <=> KnownBefore(id, i) = "out"
        /\ KnownBefore(id, Len(pending[id]) + 1) = "in" <=>
              id \in DOMAIN connections
              /\ connections[id].state \in {"Connected", "Closing"}

\* send() panics (unwrap() l.272, indexing l.282, unreachable!() l.418) only if
\* the application has called reset() on a connection of the server, or if a
\* connection was made for a packet too short for it to take (l.387).  Either
\* leaves a connection in Connecting, and it fails to connect in send().
PanicHasCause == panicked => causes # {}
=============================================================================
