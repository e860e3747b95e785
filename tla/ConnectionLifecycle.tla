------------------------ MODULE ConnectionLifecycle ------------------------
(***************************************************************************)
(* The life of the two ends of a connection: the states of                 *)
(* shared/connection.rs, the time-outs that end them and the events the    *)
(* application gets, with packets reduced to data and closure packets.     *)
(* Link, which has the packets, implements this module.                    *)
(*                                                                         *)
(* The initiator is a Client's connection.  The acceptor is the connection *)
(* a Server creates when the first packet arrives (server.rs l.375-398);   *)
(* until then it is in state "None".  When it is over the Server forgets   *)
(* it, and creates another one for the next packet.  A process that dies   *)
(* is "Gone".                                                              *)
(*                                                                         *)
(* The network keeps, per end, the kinds of packets on their way to it:    *)
(* packets are lost, duplicated, delayed and reordered.                    *)
(***************************************************************************)
EXTENDS Naturals, Sequences

CONSTANTS InitThreshold, DropThreshold, ClosingThreshold,
          Closers,           \* the ends whose application may call close()
          CloseAnytime,      \* whether it may do so once the life is over
          Forgets            \* the acceptor belongs to a Server; without, both
                             \* ends are Connections by themselves

Ends == {"initiator", "acceptor"}

ASSUME LifecycleAssumption ==
    /\ InitThreshold \in Nat /\ DropThreshold \in Nat
    /\ ClosingThreshold \in Nat
    /\ Closers \subseteq Ends
    /\ CloseAnytime \in BOOLEAN
    /\ Forgets \in BOOLEAN

VARIABLES state,       \* per end: the connection's state
          sinceRecv,   \* per end: ticks since a packet was accepted
          sinceSend,   \* per end: ticks since a packet was sent
          log,         \* per end: the life-cycle events emitted so far
          due,         \* per end: send() is still to come this tick
          dropped,     \* the ends that a Server has found over in send()
          net          \* per end: the kinds of packets on their way to it

lifeVars == <<state, sinceRecv, sinceSend, log, due, dropped, net>>

OpenStates == {"Connecting", "Connected", "Closing"}
TerminalStates == {"FailedToConnect", "Lost", "Closed"}
Kinds == {"data", "closure"}

Peer(e) == IF e = "initiator" THEN "acceptor" ELSE "initiator"

Init ==
    /\ state = [e \in Ends |-> IF e = "initiator" THEN "Connecting"
                               ELSE "None"]
    /\ sinceRecv = [e \in Ends |-> 0]
    /\ sinceSend = [e \in Ends |-> 0]
    /\ log = [e \in Ends |-> <<>>]
    /\ due = [e \in Ends |-> e = "initiator"]
    /\ dropped = {}
    /\ net = [e \in Ends |-> {}]

\* End e enters the state, with an event.
Enter(e, s, event) ==
    /\ state' = [state EXCEPT ![e] = s]
    /\ log' = [log EXCEPT ![e] = Append(@, event)]

-----------------------------------------------------------------------------
(* receive_packet() *)

\* The first packet, of whatever kind, establishes the connection.
Establish(e, kind) ==
    /\ kind \in net[e]
    /\ state[e] \in {"None", "Connecting"}
    /\ Enter(e, "Connected", <<"Connected">>)
    /\ sinceRecv' = [sinceRecv EXCEPT ![e] = 0]
    /\ due' = [due EXCEPT ![e] = (state[e] = "None") \/ @]
    /\ UNCHANGED <<sinceSend, dropped, net>>

\* Mutant: closure packets are not ignored once the connection is closed.
ClosedByRemoteAgain(e) ==
    /\ "closure" \in net[e]
    /\ state[e] \in {"Connected", "Closed"}
    /\ Enter(e, "Closed", <<"Closed", TRUE>>)
    /\ UNCHANGED <<sinceRecv, sinceSend, due, dropped, net>>

ClosedByRemote(e) ==
    /\ "closure" \in net[e]
    /\ state[e] = "Connected"
    /\ Enter(e, "Closed", <<"Closed", TRUE>>)
    /\ UNCHANGED <<sinceRecv, sinceSend, due, dropped, net>>

\* A data packet that is not an old one, or any packet while closing.
Accept(e, kind) ==
    /\ kind \in net[e]
    /\ \/ state[e] = "Connected" /\ kind = "data"
       \/ state[e] = "Closing"
    /\ sinceRecv' = [sinceRecv EXCEPT ![e] = 0]
    /\ UNCHANGED <<state, sinceSend, log, due, dropped, net>>

-----------------------------------------------------------------------------
(* send(), once per tick *)

\* send() gets to send_packet(): the connection is not about to be removed.
Sends(e) == due[e] /\ e \notin dropped

\* What send() adds to the ends to be removed by the next one.
Dropping(e) == IF Forgets /\ e = "acceptor" THEN {e} ELSE {}

\* Mutant: only a failure to send ends an established connection.
TimedOutSendOnly(e) ==
    \/ state[e] = "Connecting" /\ sinceRecv[e] > InitThreshold
    \/ state[e] = "Connected" /\ sinceSend[e] > DropThreshold
    \/ state[e] = "Closing" /\ sinceRecv[e] > ClosingThreshold

\* Mutant: a closing connection waits for ever.
TimedOutNeverClosing(e) ==
    \/ state[e] = "Connecting" /\ sinceRecv[e] > InitThreshold
    \/ state[e] = "Connected" /\ sinceRecv[e] > DropThreshold
    \/ state[e] = "Connected" /\ sinceSend[e] > DropThreshold

TimedOut(e) ==
    \/ state[e] = "Connecting" /\ sinceRecv[e] > InitThreshold
    \/ state[e] = "Connected" /\ sinceRecv[e] > DropThreshold
    \/ state[e] = "Connected" /\ sinceSend[e] > DropThreshold
    \/ state[e] = "Closing" /\ sinceRecv[e] > ClosingThreshold

\* Mutant: the event that ends a closing connection blames the peer.
TimeOutBlamesPeer(e) ==
    /\ Sends(e) /\ TimedOut(e)
    /\ CASE state[e] = "Connecting" ->
              Enter(e, "FailedToConnect", <<"FailedToConnect">>)
         [] state[e] = "Connected" ->
              Enter(e, "Lost", <<"Lost", sinceRecv[e] > DropThreshold>>)
         [] state[e] = "Closing" -> Enter(e, "Closed", <<"Closed", TRUE>>)
    /\ due' = [due EXCEPT ![e] = FALSE]
    /\ dropped' = dropped \cup Dropping(e)
    /\ UNCHANGED <<sinceRecv, sinceSend, net>>

TimeOut(e) ==
    /\ Sends(e) /\ TimedOut(e)
    /\ CASE state[e] = "Connecting" ->
              Enter(e, "FailedToConnect", <<"FailedToConnect">>)
         [] state[e] = "Connected" ->
              Enter(e, "Lost", <<"Lost", sinceRecv[e] > DropThreshold>>)
         [] state[e] = "Closing" -> Enter(e, "Closed", <<"Closed", FALSE>>)
    /\ due' = [due EXCEPT ![e] = FALSE]
    /\ dropped' = dropped \cup Dropping(e)
    /\ UNCHANGED <<sinceRecv, sinceSend, net>>

\* The packet leaves; some of what is on its way to the peer may be lost.
Transmit(e) ==
    /\ Sends(e) /\ state[e] \in OpenStates /\ ~TimedOut(e)
    /\ sinceSend' = [sinceSend EXCEPT ![e] = 0]
    /\ \E left \in SUBSET net[Peer(e)] :
          net' = [net EXCEPT ![Peer(e)] =
                     left \cup {IF state[e] = "Closing" THEN "closure"
                                ELSE "data"}]
    /\ due' = [due EXCEPT ![e] = FALSE]
    /\ UNCHANGED <<state, sinceRecv, log, dropped>>

\* The rate limiter skips the packet, the socket refuses it, or the life is
\* over and there is nothing to send.
Withhold(e) ==
    /\ Sends(e) /\ ~TimedOut(e)
    /\ due' = [due EXCEPT ![e] = FALSE]
    /\ dropped' = IF state[e] \in OpenStates THEN dropped
                  ELSE dropped \cup Dropping(e)
    /\ UNCHANGED <<state, sinceRecv, sinceSend, log, net>>

\* Server::send() removes a connection that the last one has found over; the
\* next packet makes another one.
Forget(e) ==
    /\ due[e] /\ e \in dropped
    /\ state' = [state EXCEPT ![e] = "None"]
    /\ sinceRecv' = [sinceRecv EXCEPT ![e] = 0]
    /\ sinceSend' = [sinceSend EXCEPT ![e] = 0]
    /\ log' = [log EXCEPT ![e] = <<>>]
    /\ due' = [due EXCEPT ![e] = FALSE]
    /\ dropped' = dropped \ {e}
    /\ UNCHANGED net

-----------------------------------------------------------------------------
(* The application, the network and time *)

Close(e) ==
    /\ e \in Closers
    /\ \/ state[e] \in {"Connecting", "Connected"}
       \/ CloseAnytime /\ state[e] \in TerminalStates
    /\ state' = [state EXCEPT ![e] = "Closing"]
    /\ UNCHANGED <<sinceRecv, sinceSend, log, due, dropped, net>>

Die(e) ==
    /\ state[e] \notin {"None", "Gone"}
    /\ state' = [state EXCEPT ![e] = "Gone"]
    /\ due' = [due EXCEPT ![e] = FALSE]
    /\ UNCHANGED <<sinceRecv, sinceSend, log, dropped, net>>

Lose(e, kind) ==
    /\ kind \in net[e]
    /\ net' = [net EXCEPT ![e] = @ \ {kind}]
    /\ UNCHANGED <<state, sinceRecv, sinceSend, log, due, dropped>>

LongestThreshold ==
    IF InitThreshold >= DropThreshold /\ InitThreshold >= ClosingThreshold
    THEN InitThreshold
    ELSE IF DropThreshold >= ClosingThreshold THEN DropThreshold
    ELSE ClosingThreshold

\* Mutant: the threshold the age is compared with does not limit it.
OlderForEver(age, threshold) == age + 1

\* Ages are counted as far as a threshold can tell them apart.
Older(age, threshold) == IF age > threshold THEN age ELSE age + 1

\* Every living end has called send_packet() since the last tick.
Tick ==
    /\ \A e \in Ends : ~due[e]
    /\ sinceRecv' = [e \in Ends |-> IF state[e] = "None" THEN 0
                                    ELSE Older(sinceRecv[e], LongestThreshold)]
    /\ sinceSend' = [e \in Ends |-> IF state[e] = "None" THEN 0
                                    ELSE Older(sinceSend[e], DropThreshold)]
    /\ due' = [e \in Ends |-> state[e] \notin {"None", "Gone"}]
    /\ UNCHANGED <<state, log, dropped, net>>

Next ==
    \/ \E e \in Ends :
          \/ \E kind \in Kinds :
                Establish(e, kind) \/ Accept(e, kind) \/ Lose(e, kind)
          \/ ClosedByRemote(e)
          \/ TimeOut(e) \/ Transmit(e) \/ Withhold(e) \/ Forget(e)
          \/ Close(e) \/ Die(e)
    \/ Tick

Spec == Init /\ [][Next]_lifeVars

\* A living application keeps calling send() (Client::send, Server::send once
\* per tick), time passes, and no packet stays in the network for ever.
Fairness ==
    /\ WF_lifeVars(Tick)
    /\ \A e \in Ends :
          /\ WF_lifeVars(TimeOut(e) \/ Transmit(e) \/ Withhold(e) \/ Forget(e))
          /\ \A kind \in Kinds : WF_lifeVars(Lose(e, kind))

FairSpec == Spec /\ Fairness

-----------------------------------------------------------------------------
(* Properties *)

Ages == 0..(LongestThreshold + 1)

Outcomes == {<<"FailedToConnect">>, <<"Lost", TRUE>>, <<"Lost", FALSE>>,
             <<"Closed", TRUE>>, <<"Closed", FALSE>>}

TypeOK ==
    /\ state \in [Ends -> OpenStates \cup TerminalStates \cup {"None", "Gone"}]
    /\ sinceRecv \in [Ends -> Ages]
    /\ sinceSend \in [Ends -> Ages]
    /\ log \in [Ends -> Seq({<<"Connected">>} \cup Outcomes)]
    /\ due \in [Ends -> BOOLEAN]
    /\ dropped \subseteq Ends
    /\ net \in [Ends -> SUBSET Kinds]

\* The logs an end may have in each state.  An application that follows the
\* events therefore knows where its connection is: it hears of Connected at
\* most once and before anything else, and of the end exactly once, by the
\* event that belongs to the state.
LogsOf(s) ==
    LET up == <<"Connected">>
    IN  CASE s \in {"None", "Connecting"} -> {<<>>}
          [] s = "Connected" -> {<<up>>}
          [] s = "Closing" -> {<<>>, <<up>>}
          [] s = "FailedToConnect" -> {<<<<"FailedToConnect">>>>}
          [] s = "Lost" -> {<<up, <<"Lost", b>>>> : b \in BOOLEAN}
          [] s = "Closed" -> {<<<<"Closed", FALSE>>>>,
                              <<up, <<"Closed", FALSE>>>>,
                              <<up, <<"Closed", TRUE>>>>}

LogMatchesState ==
    \A e \in Ends : state[e] # "Gone" => log[e] \in LogsOf(state[e])

\* Closed(true) is only reported when the other application called close():
\* neither a lost nor a delayed packet makes a connection look closed.
ClosedMeansPeerClosed ==
    \A e \in Ends : \A i \in DOMAIN log[e] :
        log[e][i] = <<"Closed", TRUE>> => Peer(e) \in Closers

\* An end does not stay open for ever without an open one on the other side,
\* be that one dead, over, or forgotten by its Server: the time-outs of
\* send_packet() get to it whatever is still on its way.
PeerGoneNoticed ==
    \A e \in Ends :
        []<>(state[Peer(e)] \in OpenStates \/ state[e] \notin OpenStates)

\* close() comes to an end: config.rs l.41-42 gives the maximum time to wait
\* for the remote confirmation.
CloseCompletes == \A e \in Ends : (state[e] = "Closing") ~> (state[e] # "Closing")
=============================================================================
