-------------------------- MODULE ConnectionStates --------------------------
(***************************************************************************)
(* One connection (shared/connection.rs) as its Client or Server sees it:  *)
(* states, time-outs, events and addresses.  Sequence numbers and payloads *)
(* are left out: what remains of them is whether a packet is newer than    *)
(* the last one and whether it brings a message, and both are parameters   *)
(* of the operators.  Module Link checks that Connection, which has the    *)
(* packets, changes its states in just these ways.                         *)
(*                                                                         *)
(* Time is counted in ticks, Instants are ages (module Connection).        *)
(***************************************************************************)
EXTENDS Naturals, Sequences

CONSTANTS InitThreshold,        \* Config::connection_init_threshold
          DropThreshold,        \* Config::connection_drop_threshold
          ClosingThreshold      \* Config::connection_closing_threshold

ASSUME StatesAssumption ==
    {InitThreshold, DropThreshold, ClosingThreshold} \subseteq Nat

OpenStates == {"Connecting", "Connected", "Closing"}
TerminalStates == {"FailedToConnect", "Lost", "Closed"}

\* A packet is data or a closure packet, sent from an address; addresses are
\* numbered as they are used.  One that arrives may also be "short": it has the
\* protocol's header and an id (id_from_packet(), l.282), and less than the
\* header of a packet (l.384).
PacketKinds == {"data", "closure"}
ArrivingKinds == PacketKinds \cup {"short"}

\* Connection::new()
Fresh(peer) ==
    [state |-> "Connecting", sinceRecv |-> 0, sinceSend |-> 0,
     unread |-> FALSE, peer |-> peer, remote |-> 0, events |-> <<>>]

\* open()
Open(c) == c.state \in OpenStates

Emit(c, event) == [c EXCEPT !.events = Append(@, event)]

\* Mutant: the threshold the age is compared with does not limit it.
SteppedForEver(age, threshold) == age + 1

Stepped(age, threshold) == IF age > threshold THEN age ELSE age + 1

LastThreshold ==
    IF InitThreshold >= DropThreshold /\ InitThreshold >= ClosingThreshold
    THEN InitThreshold
    ELSE IF DropThreshold >= ClosingThreshold THEN DropThreshold
    ELSE ClosingThreshold

\* A tick of time.
Elapse(c) ==
    [c EXCEPT !.sinceRecv = Stepped(@, LastThreshold),
              !.sinceSend = Stepped(@, DropThreshold)]

-----------------------------------------------------------------------------
(* Receiving *)

\* update_receive_state()
UpdateReceiveState(c, p) ==
    CASE c.state = "Connecting" ->
            Emit([c EXCEPT !.state = "Connected"], <<"Connected">>)
      [] c.state = "Connected" /\ p.kind = "closure" ->
            Emit([c EXCEPT !.state = "Closed"], <<"Closed", TRUE>>)
      [] OTHER -> c

\* The value of receive_packet(): the packet was consumed.  `newer': its
\* sequence number is more recent than the last one.
Consumes(c, p, newer) ==
    /\ p.kind # "short"
    /\ \/ c.state \in {"Connecting", "Closing"}
       \/ c.state = "Connected" /\ p.kind = "data" /\ newer

\* receive_packet(); `carries': there is a message for the application in it.
\* `remote' is the address of the last packet consumed.
ReceivePacket(c, p, newer, carries) ==
    CASE p.kind = "short" -> c
      [] Consumes(c, p, newer) ->
            [UpdateReceiveState(c, p) EXCEPT
               !.sinceRecv = 0,
               !.remote = p.addr,
               !.unread = @ \/ (carries /\ p.kind = "data")]
      [] OTHER -> UpdateReceiveState(c, p)

-----------------------------------------------------------------------------
(* Sending *)

\* update_send_state(): the connection after the time-outs.
UpdateSendState(c) ==
    CASE c.state = "Connecting" /\ c.sinceRecv > InitThreshold ->
            Emit([c EXCEPT !.state = "FailedToConnect"], <<"FailedToConnect">>)
      [] c.state = "Connected" /\ c.sinceRecv > DropThreshold ->
            Emit([c EXCEPT !.state = "Lost"], <<"Lost", TRUE>>)
      [] /\ c.state = "Connected" /\ c.sinceRecv <= DropThreshold
         /\ c.sinceSend > DropThreshold ->
            Emit([c EXCEPT !.state = "Lost"], <<"Lost", FALSE>>)
      [] c.state = "Closing" /\ c.sinceRecv > ClosingThreshold ->
            Emit([c EXCEPT !.state = "Closed"], <<"Closed", FALSE>>)
      [] OTHER -> c

\* send_packet(): `env' says whether the packet is sent, refused by the
\* socket, or skipped by the rate limiter.  Messages that the application has
\* not fetched are dismissed at the end.
SendPacket(c, env) ==
    LET u == UpdateSendState(c)
    IN  IF ~Open(u) \/ env = "skipped" THEN u
        ELSE [u EXCEPT !.sinceSend = IF env = "sent" THEN 0 ELSE @,
                       !.unread = FALSE]

\* The kind of the packet that goes out with it, if any.
PacketOf(c, env) ==
    LET u == UpdateSendState(c)
    IN  IF ~Open(u) \/ env # "sent" THEN {}
        ELSE IF u.state = "Closing" THEN {"closure"} ELSE {"data"}

-----------------------------------------------------------------------------
(* The calls of the owner *)

\* events(): what is queued, then the received messages.
Drain(c) == c.events \o IF c.unread THEN <<<<"Message">>>> ELSE <<>>
Drained(c) == [c EXCEPT !.events = <<>>, !.unread = FALSE]

\* set_peer_addr()
SetPeerAddr(c, addr) == [c EXCEPT !.peer = addr]

\* close(), whatever the state.
Close(c) == [c EXCEPT !.state = "Closing"]

\* reset(): the queued events stay, and so does the peer's address.
Reset(c) ==
    [c EXCEPT !.state = "Connecting", !.sinceRecv = 0, !.sinceSend = 0,
              !.unread = FALSE, !.remote = 0]
=============================================================================
