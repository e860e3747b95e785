------------------------------- MODULE Client -------------------------------
(***************************************************************************)
(* client.rs: a Client with the connection of its current session.         *)
(*                                                                         *)
(* The application works as in the example of client.rs l.84-108: it calls *)
(* receive() until there are no more events, and then send().  It may      *)
(* reset, disconnect and connect again at any time, and closes a           *)
(* connection it has not heard the end of.                                 *)
(*                                                                         *)
(* Each connect() draws a random id and binds a new port; ids and          *)
(* addresses are numbered.  The address a server sees may also change      *)
(* while the connection lasts, when a NAT picks another port.              *)
(*                                                                         *)
(* Bound: MaxChanges calls of connect(), calls of reset() and changes of   *)
(* the address altogether.                                                 *)
(***************************************************************************)
EXTENDS ConnectionStates

CONSTANT MaxChanges

ASSUME ClientAssumption == MaxChanges \in Nat

VARIABLES online,         \* there is a socket
          session,        \* the connection's id
          conn,           \* its connection
          queued,         \* events the application has yet to fetch
          clientReceives, \* should_receive
          receiving,      \* in the loop of receive()
          addr,           \* the address its packets come from
          changes,        \* used up of MaxChanges
          told            \* what the fetched events say: nothing "yet",
                          \* "in", or that it is "over"; "unsure" when a
                          \* reset left events in the connection

clientVars == <<online, session, conn, queued, clientReceives, receiving,
                addr, changes, told>>

ServerAddress == 0

ClientInit ==
    /\ online = FALSE
    /\ session = 0
    /\ conn = Fresh(ServerAddress)
    /\ queued = <<>>
    /\ clientReceives = FALSE
    /\ receiving = FALSE
    /\ addr = 1
    /\ changes = 0
    /\ told = "yet"

\* The application is not inside of a call.
ClientCalls == online /\ ~receiving

Connect ==
    /\ ~online /\ changes < MaxChanges
    /\ changes' = changes + 1
    /\ online' = TRUE
    /\ session' = session + 1
    /\ conn' = Fresh(ServerAddress)
    /\ clientReceives' = TRUE
    /\ addr' = 1
    /\ told' = "yet"
    /\ UNCHANGED <<queued, receiving>>

-----------------------------------------------------------------------------
(* receive() *)

BeginReceive ==
    /\ ClientCalls /\ clientReceives
    /\ receiving' = TRUE
    /\ UNCHANGED <<online, session, conn, queued, clientReceives, addr,
                   changes, told>>

TakePacket(p, newer, carries) ==
    /\ receiving
    /\ conn' = ReceivePacket(conn, p, newer, carries)
    /\ UNCHANGED <<online, session, queued, clientReceives, receiving, addr,
                   changes, told>>

\* Mutant: the events are mapped before the packets are received.
EndReceiveMapsFirst ==
    /\ receiving
    /\ receiving' = FALSE
    /\ clientReceives' = FALSE
    /\ queued' = queued \o conn.events
    /\ conn' = [conn EXCEPT !.events = <<>>]
    /\ UNCHANGED <<online, session, addr, changes, told>>

EndReceive ==
    /\ receiving
    /\ receiving' = FALSE
    /\ clientReceives' = FALSE
    /\ queued' = queued \o Drain(conn)
    /\ conn' = Drained(conn)
    /\ UNCHANGED <<online, session, addr, changes, told>>

\* The application gets an event.
ClientFetch ==
    /\ ClientCalls /\ ~clientReceives
    /\ queued # <<>>
    /\ queued' = Tail(queued)
    /\ told' = CASE told = "unsure" \/ Head(queued)[1] = "Message" -> told
                 [] told # "unsure" /\ Head(queued)[1] = "Connected" -> "in"
                 [] OTHER -> "over"
    /\ UNCHANGED <<online, session, conn, clientReceives, receiving, addr,
                   changes>>

-----------------------------------------------------------------------------
(* send(), reset(), disconnect() and the connection's close() *)

ClientPackets(env) ==
    {[id |-> session, kind |-> k, addr |-> addr] :
        k \in PacketOf(conn, env)}

ClientSend(env) ==
    /\ ClientCalls /\ ~clientReceives
    /\ queued = <<>>
    /\ conn' = SendPacket(conn, env)
    /\ clientReceives' = TRUE
    /\ UNCHANGED <<online, session, queued, receiving, addr, changes,
                   told>>

\* Mutant: the client's own queue is not cleared.
ResetClientKeepsQueue ==
    /\ ClientCalls /\ changes < MaxChanges
    /\ changes' = changes + 1
    /\ conn' = Reset(conn)
    /\ told' = IF conn.events = <<>> THEN "yet" ELSE "unsure"
    /\ UNCHANGED <<online, session, queued, clientReceives, receiving, addr>>

\* Events that wait in the connection are still delivered afterwards.
ResetClient ==
    /\ ClientCalls /\ changes < MaxChanges
    /\ changes' = changes + 1
    /\ conn' = Reset(conn)
    /\ queued' = <<>>
    /\ told' = IF conn.events = <<>> THEN "yet" ELSE "unsure"
    /\ UNCHANGED <<online, session, clientReceives, receiving, addr>>

\* For the server a process that dies looks the same.
Disconnect ==
    /\ ClientCalls
    /\ online' = FALSE
    /\ conn' = Fresh(ServerAddress)
    /\ queued' = <<>>
    /\ clientReceives' = FALSE
    /\ told' = "yet"
    /\ UNCHANGED <<session, receiving, addr, changes>>

CloseClient ==
    /\ ClientCalls /\ ~clientReceives
    /\ queued = <<>> /\ told \in {"yet", "in"}
    /\ conn.state # "Closing"
    /\ conn' = Close(conn)
    /\ UNCHANGED <<online, session, queued, clientReceives, receiving, addr,
                   changes, told>>

-----------------------------------------------------------------------------
(* The surroundings *)

Rebind ==
    /\ online /\ changes < MaxChanges
    /\ changes' = changes + 1
    /\ addr' = addr + 1
    /\ UNCHANGED <<online, session, conn, queued, clientReceives, receiving,
                   told>>

ClientElapse == conn' = IF online THEN Elapse(conn) ELSE conn
-----------------------------------------------------------------------------
(* Properties *)

Ending(e) == e[1] \notin {"Connected", "Message"}

\* What an application that knew k knows once it has fetched these events, too.
KnowsAfter(k, events) ==
    IF \E i \in DOMAIN events : Ending(events[i]) THEN "over"
    ELSE IF \E i \in DOMAIN events : events[i] = <<"Connected">> THEN "in"
    ELSE k

\* The events of a client tell the state of its connection: since connect() or
\* reset() at most one Connection event and then at most one ending, with which
\* the life-cycle is over (l.253-263); messages are not looked at.  The exception
\* is named "unsure": a reset() while events wait in the connection, which it
\* does not clear (l.322).
ClientKnowsState ==
    told # "unsure" =>
    \E events \in {queued \o Drain(conn)} :
        /\ \A i, j \in DOMAIN events :
              i < j /\ events[i][1] # "Message" /\ events[j][1] # "Message"
              => events[i] = <<"Connected">> /\ Ending(events[j])
        /\ \A i \in DOMAIN events :
              /\ events[i] = <<"Connected">> => told = "yet"
              /\ Ending(events[i]) => told # "over"
        /\ KnowsAfter(told, events) = "over" <=> conn.state \in TerminalStates
        /\ conn.state = "Connected" => KnowsAfter(told, events) = "in"
        /\ conn.state = "Connecting" => KnowsAfter(told, events) = "yet"
=============================================================================
