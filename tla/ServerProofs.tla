---------------------------- MODULE ServerProofs ----------------------------
(***************************************************************************)
(* What the calls of a Server preserve, whatever packets arrive, for all   *)
(* thresholds and any number of clients.  ClientServerProofs draws the     *)
(* theorems from these lemmas.                                             *)
(***************************************************************************)
EXTENDS Server, TLAPS

-----------------------------------------------------------------------------
(* One connection *)

States == OpenStates \cup TerminalStates

LEMMA EventTypes ==
    /\ <<"Connected">> \in ConnectionEvents
    /\ <<"Message">> \in ConnectionEvents
    /\ <<"FailedToConnect">> \in ConnectionEvents
    /\ <<"Lost", TRUE>> \in ConnectionEvents
    /\ <<"Lost", FALSE>> \in ConnectionEvents
    /\ <<"Closed", TRUE>> \in ConnectionEvents
    /\ <<"Closed", FALSE>> \in ConnectionEvents
  <1> DEFINE Pairs == {<<e, b>> : e \in {"Lost", "Closed"}, b \in BOOLEAN}
             Single == {<<"Connected">>, <<"Message">>, <<"FailedToConnect">>}
  <1>1. \A b \in BOOLEAN : <<"Lost", b>> \in Pairs /\ <<"Closed", b>> \in Pairs
    OBVIOUS
  <1>2. /\ <<"Connected">> \in Single
        /\ <<"Message">> \in Single
        /\ <<"FailedToConnect">> \in Single
    OBVIOUS
  <1>3. ConnectionEvents = Single \cup Pairs
    BY DEF ConnectionEvents
  <1> HIDE DEF Single, Pairs
  <1>4. \A x \in Single : x \in ConnectionEvents
    BY <1>3
  <1>5. \A x \in Pairs : x \in ConnectionEvents
    BY <1>3
  <1>6. \A b \in BOOLEAN : /\ <<"Lost", b>> \in ConnectionEvents
                           /\ <<"Closed", b>> \in ConnectionEvents
    BY <1>1, <1>5
  <1> QED
    BY <1>2, <1>4, <1>6

\* The fields of a connection have their types.
Typed(c) == c \in ConnectionRecords

LEMMA LastThresholdBounds ==
    /\ LastThreshold \in Nat
    /\ InitThreshold <= LastThreshold
    /\ DropThreshold <= LastThreshold
    /\ ClosingThreshold <= LastThreshold
    /\ DropThreshold \in Nat
  BY StatesAssumption DEF LastThreshold

LEMMA SteppedIsAge ==
    ASSUME NEW t \in Nat, NEW age \in Ages(t)
    PROVE  Stepped(age, t) \in Ages(t)
  BY DEF Stepped, Ages

LEMMA ZeroIsAge == \A t \in Nat : 0 \in Ages(t)
  BY DEF Ages

LEMMA FreshTyped ==
    ASSUME NEW a \in Nat
    PROVE  /\ Typed(Fresh(a))
           /\ Fresh(a).events = <<>> /\ Fresh(a).unread = FALSE
           /\ Fresh(a).state = "Connecting" /\ Fresh(a).peer = a
  <1>1. 0 \in Ages(LastThreshold) /\ 0 \in Ages(DropThreshold)
    BY ZeroIsAge, LastThresholdBounds
  <1>2. <<>> \in Seq(ConnectionEvents)
    OBVIOUS
  <1> QED
    BY <1>1, <1>2 DEF Typed, Fresh, ConnectionRecords, OpenStates

LEMMA ElapseTyped ==
    ASSUME NEW c, Typed(c)
    PROVE  /\ Typed(Elapse(c))
           /\ Elapse(c).events = c.events /\ Elapse(c).unread = c.unread
           /\ Elapse(c).state = c.state /\ Elapse(c).peer = c.peer
           /\ Elapse(c).remote = c.remote
  <1>1. /\ Stepped(c.sinceRecv, LastThreshold) \in Ages(LastThreshold)
        /\ Stepped(c.sinceSend, DropThreshold) \in Ages(DropThreshold)
    BY SteppedIsAge, LastThresholdBounds DEF Typed, ConnectionRecords
  <1> QED
    BY <1>1 DEF Typed, Elapse, ConnectionRecords

LEMMA CloseTyped ==
    ASSUME NEW c, Typed(c)
    PROVE  /\ Typed(Close(c))
           /\ Close(c).events = c.events /\ Close(c).unread = c.unread
           /\ Close(c).state = "Closing" /\ Close(c).peer = c.peer
           /\ Close(c).remote = c.remote
  BY DEF Typed, Close, ConnectionRecords, OpenStates

LEMMA ResetTyped ==
    ASSUME NEW c, Typed(c)
    PROVE  /\ Typed(Reset(c))
           /\ Reset(c).events = c.events /\ Reset(c).unread = FALSE
           /\ Reset(c).state = "Connecting" /\ Reset(c).peer = c.peer
  <1>1. 0 \in Ages(LastThreshold) /\ 0 \in Ages(DropThreshold)
    BY ZeroIsAge, LastThresholdBounds
  <1> QED
    BY <1>1 DEF Typed, Reset, ConnectionRecords, OpenStates

LEMMA DrainedTyped ==
    ASSUME NEW c, Typed(c)
    PROVE  /\ Typed(Drained(c))
           /\ Drained(c).events = <<>> /\ Drained(c).unread = FALSE
           /\ Drained(c).state = c.state /\ Drained(c).peer = c.peer
           /\ Drained(c).remote = c.remote
  <1>1. <<>> \in Seq(ConnectionEvents)
    OBVIOUS
  <1> QED
    BY <1>1 DEF Typed, Drained, ConnectionRecords

LEMMA SetPeerAddrTyped ==
    ASSUME NEW c, Typed(c), NEW a \in Nat
    PROVE  /\ Typed(SetPeerAddr(c, a))
           /\ SetPeerAddr(c, a).events = c.events
           /\ SetPeerAddr(c, a).state = c.state
           /\ SetPeerAddr(c, a).peer = a
           /\ SetPeerAddr(c, a).remote = c.remote
  BY DEF Typed, SetPeerAddr, ConnectionRecords

-----------------------------------------------------------------------------
(* receive_packet() and send_packet() *)

\* Packets as long as their header, and any that reach a connection.
WholePackets == [id : Ids, kind : PacketKinds, addr : Nat]
ArrivingPackets == [id : Ids, kind : ArrivingKinds, addr : Nat]

LEMMA WholeOrShort ==
    ASSUME NEW p \in ArrivingPackets
    PROVE  /\ p \in WholePackets \/ p.kind = "short"
           /\ p.id \in Ids /\ p.addr \in Nat
  BY DEF ArrivingPackets, WholePackets, ArrivingKinds

LEMMA WholeIsNotShort == \A p \in WholePackets : p.kind # "short"
  BY DEF WholePackets, PacketKinds

\* A connection as the server keeps it between calls.
Settled(c) == Typed(c) /\ c.events = <<>> /\ c.unread = FALSE

LEMMA EmitTyped ==
    ASSUME NEW c, Typed(c), NEW s \in States, NEW e \in ConnectionEvents
    PROVE  /\ Typed(Emit([c EXCEPT !.state = s], e))
           /\ Emit([c EXCEPT !.state = s], e).state = s
           /\ Emit([c EXCEPT !.state = s], e).events = Append(c.events, e)
           /\ Emit([c EXCEPT !.state = s], e).unread = c.unread
           /\ Emit([c EXCEPT !.state = s], e).peer = c.peer
           /\ Emit([c EXCEPT !.state = s], e).remote = c.remote
           /\ Emit([c EXCEPT !.state = s], e).sinceRecv = c.sinceRecv
           /\ Emit([c EXCEPT !.state = s], e).sinceSend = c.sinceSend
  <1>1. c.events \in Seq(ConnectionEvents)
    BY DEF Typed, ConnectionRecords
  <1>2. Append(c.events, e) \in Seq(ConnectionEvents)
    BY <1>1
  <1> QED
    BY <1>2 DEF Typed, ConnectionRecords, Emit, States

LEMMA AppendToEmpty == \A x : Append(<<>>, x) = <<x>>
  OBVIOUS

\* update_receive_state() by state.
LEMMA UpdateReceiveEffect ==
    ASSUME NEW c, Settled(c), NEW p \in WholePackets
    PROVE  LET u == UpdateReceiveState(c, p)
           IN  /\ Typed(u) /\ u.unread = FALSE
               /\ u.peer = c.peer /\ u.remote = c.remote
               /\ \/ /\ c.state = "Connecting" /\ u.state = "Connected"
                     /\ u.events = <<<<"Connected">>>>
                  \/ /\ c.state = "Connected" /\ p.kind = "closure"
                     /\ u.state = "Closed"
                     /\ u.events = <<<<"Closed", TRUE>>>>
                  \/ u = c /\ ~(c.state = "Connected" /\ p.kind = "closure")
                     /\ c.state # "Connecting"
  <1> DEFINE u == UpdateReceiveState(c, p)
  <1>1. CASE c.state = "Connecting"
    <2>1. u = Emit([c EXCEPT !.state = "Connected"], <<"Connected">>)
      BY <1>1 DEF UpdateReceiveState
    <2>2. "Connected" \in States
      BY DEF States, OpenStates
    <2>3. /\ Typed(c) /\ c.events = <<>> /\ c.unread = FALSE
          /\ <<"Connected">> \in ConnectionEvents
      BY EventTypes DEF Settled
    <2>4. /\ Typed(u) /\ u.state = "Connected" /\ u.events = Append(c.events, <<"Connected">>)
          /\ u.unread = c.unread /\ u.peer = c.peer /\ u.remote = c.remote
      BY <2>1, <2>2, <2>3, EmitTyped
    <2>5. u.events = <<<<"Connected">>>>
      BY <2>3, <2>4, AppendToEmpty
    <2> HIDE DEF u
    <2> QED
      BY <1>1, <2>3, <2>4, <2>5 DEF u
  <1>2. CASE c.state = "Connected" /\ p.kind = "closure"
    <2> DEFINE event == <<"Closed", TRUE>>
    <2>1. u = Emit([c EXCEPT !.state = "Closed"], event)
      BY <1>2 DEF UpdateReceiveState
    <2>2. "Closed" \in States
      BY DEF States, TerminalStates
    <2>3. /\ Typed(c) /\ c.events = <<>> /\ c.unread = FALSE
          /\ event \in ConnectionEvents
      BY EventTypes DEF Settled
    <2> HIDE DEF event, u
    <2>4. /\ Typed(u) /\ u.state = "Closed" /\ u.events = Append(c.events, event)
          /\ u.unread = c.unread /\ u.peer = c.peer /\ u.remote = c.remote
      BY <2>1, <2>2, <2>3, EmitTyped
    <2>5. u.events = <<event>>
      BY <2>3, <2>4, AppendToEmpty
    <2> QED
      BY <1>2, <2>3, <2>4, <2>5 DEF u, event
  <1>3. CASE c.state # "Connecting" /\ ~(c.state = "Connected" /\ p.kind = "closure")
    <2>1. u = c
      BY <1>3 DEF UpdateReceiveState
    <2> QED
      BY <1>3, <2>1 DEF Settled
  <1> QED
    BY <1>1, <1>2, <1>3

\* What the server sees of receive_packet().
LEMMA ReceiveEffect ==
    ASSUME NEW c, Settled(c), NEW p \in WholePackets,
           NEW newer \in BOOLEAN, NEW carries \in BOOLEAN
    PROVE  LET d == ReceivePacket(c, p, newer, carries)
           IN  /\ Typed(d) /\ d.peer = c.peer
               /\ IF Consumes(c, p, newer)
                  THEN d.remote = p.addr
                  ELSE d.remote = c.remote /\ d.unread = FALSE
               /\ \/ /\ c.state = "Connecting" /\ d.state = "Connected"
                     /\ d.events = <<<<"Connected">>>>
                  \/ /\ c.state = "Connected" /\ d.state = "Closed"
                     /\ d.events = <<<<"Closed", TRUE>>>>
                     /\ d.unread = FALSE /\ ~Consumes(c, p, newer)
                  \/ /\ c.state \in {"Connected", "Closing"}
                     /\ d.state = c.state /\ d.events = <<>>
                  \/ /\ c.state \in TerminalStates /\ d = c
                     /\ ~Consumes(c, p, newer)
  <1> DEFINE u == UpdateReceiveState(c, p)
             d == ReceivePacket(c, p, newer, carries)
  <1>1. /\ Typed(u) /\ u.unread = FALSE
        /\ u.peer = c.peer /\ u.remote = c.remote
        /\ \/ /\ c.state = "Connecting" /\ u.state = "Connected"
              /\ u.events = <<<<"Connected">>>>
           \/ /\ c.state = "Connected" /\ p.kind = "closure"
              /\ u.state = "Closed"
              /\ u.events = <<<<"Closed", TRUE>>>>
           \/ u = c /\ ~(c.state = "Connected" /\ p.kind = "closure")
              /\ c.state # "Connecting"
    BY UpdateReceiveEffect
  <1>2. c.state \in States /\ c.events = <<>>
    BY DEF Settled, Typed, ConnectionRecords, States
  <1> HIDE DEF u
  <1>3. CASE Consumes(c, p, newer)
    <2> DEFINE read == u.unread \/ (carries /\ p.kind = "data")
    <2>0. read \in BOOLEAN
      BY <1>1
    <2> HIDE DEF read
    <2>1. d = [u EXCEPT !.sinceRecv = 0,
                        !.remote = p.addr,
                        !.unread = read]
      BY <1>3 DEF ReceivePacket, Consumes, read, u
    <2>2. 0 \in Ages(LastThreshold)
      BY ZeroIsAge, LastThresholdBounds
    <2>3. p.addr \in Nat
      BY DEF WholePackets
    <2> HIDE DEF d
    <2>4. /\ Typed(d)
          /\ d.peer = u.peer /\ d.remote = p.addr
          /\ d.state = u.state /\ d.events = u.events
      BY <1>1, <2>0, <2>1, <2>2, <2>3 DEF Typed, ConnectionRecords
    <2>5. /\ c.state \in {"Connecting", "Connected", "Closing"}
          /\ c.state = "Connected" => p.kind # "closure"
      BY <1>3 DEF Consumes
    <2> QED
      BY <1>1, <1>2, <1>3, <2>4, <2>5 DEF d
  <1>4. CASE ~Consumes(c, p, newer)
    <2>1. d = u
      BY <1>4, WholeIsNotShort DEF ReceivePacket, u
    <2>2. c.state \notin {"Connecting", "Closing"}
      BY <1>4, WholeIsNotShort DEF Consumes
    <2>3. c.state = "Connected" \/ c.state \in TerminalStates
      BY <1>2, <2>2 DEF States, OpenStates
    <2>4. "Connected" \notin TerminalStates
      BY DEF TerminalStates
    <2> HIDE DEF d
    <2> QED
      BY <1>1, <1>2, <1>4, <2>1, <2>2, <2>3, <2>4 DEF Settled, d
  <1> QED
    BY <1>3, <1>4

\* What it does to the state and the addresses, whatever it reports.
LEMMA ReceiveOutcome ==
    ASSUME NEW c, Settled(c), NEW p \in WholePackets,
           NEW newer \in BOOLEAN, NEW carries \in BOOLEAN
    PROVE  LET d == ReceivePacket(c, p, newer, carries)
           IN  /\ d.peer = c.peer
               /\ IF Consumes(c, p, newer)
                  THEN d.remote = p.addr
                  ELSE d.remote = c.remote
               /\ \/ c.state = "Connecting" /\ d.state = "Connected"
                  \/ c.state = "Connected" /\ d.state = "Closed"
                  \/ c.state \in {"Connected", "Closing"} /\ d.state = c.state
                  \/ c.state \in TerminalStates /\ d = c
  <1> DEFINE d == ReceivePacket(c, p, newer, carries)
  <1>1. /\ Typed(d) /\ d.peer = c.peer
        /\ IF Consumes(c, p, newer)
           THEN d.remote = p.addr
           ELSE d.remote = c.remote /\ d.unread = FALSE
        /\ \/ /\ c.state = "Connecting" /\ d.state = "Connected"
              /\ d.events = <<<<"Connected">>>>
           \/ /\ c.state = "Connected" /\ d.state = "Closed"
              /\ d.events = <<<<"Closed", TRUE>>>>
              /\ d.unread = FALSE /\ ~Consumes(c, p, newer)
           \/ /\ c.state \in {"Connected", "Closing"}
              /\ d.state = c.state /\ d.events = <<>>
           \/ /\ c.state \in TerminalStates /\ d = c
              /\ ~Consumes(c, p, newer)
    BY ReceiveEffect
  <1> HIDE DEF d
  <1>2. CASE Consumes(c, p, newer)
    BY <1>1, <1>2 DEF d
  <1>3. CASE ~Consumes(c, p, newer)
    BY <1>1, <1>3 DEF d
  <1> QED
    BY <1>2, <1>3

\* An ending, and the state that comes with it.
Ends(e, state) ==
    /\ e \in ConnectionEvents
    /\ \/ e[1] = "Lost" /\ state = "Lost"
       \/ e[1] = "Closed" /\ state = "Closed"

\* How long a connection in this state may be silent.
Patience(state) ==
    CASE state = "Connecting" -> InitThreshold
      [] state = "Connected" -> DropThreshold
      [] state = "Closing" -> ClosingThreshold

\* update_send_state() by state.
LEMMA UpdateSendEffect ==
    ASSUME NEW c, Settled(c)
    PROVE  LET u == UpdateSendState(c)
           IN  /\ Typed(u) /\ u.unread = FALSE
               /\ u.peer = c.peer /\ u.remote = c.remote
               /\ \/ /\ c.state = "Connecting" /\ u.state = "FailedToConnect"
                     /\ u.events = <<<<"FailedToConnect">>>>
                  \/ /\ c.state \in {"Connected", "Closing"}
                     /\ \E e \in ConnectionEvents :
                           Ends(e, u.state) /\ u.events = <<e>>
                  \/ /\ u = c
                     /\ Open(c) => c.sinceRecv <= Patience(c.state)
  <1> DEFINE u == UpdateSendState(c)
  <1>1. /\ Typed(c) /\ c.events = <<>> /\ c.unread = FALSE /\ c.state \in States
        /\ c.sinceRecv \in Nat /\ c.sinceSend \in Nat
        /\ {InitThreshold, DropThreshold, ClosingThreshold} \subseteq Nat
    BY StatesAssumption, LastThresholdBounds
    DEF Settled, Typed, ConnectionRecords, States, Ages
  <1>2. ASSUME NEW s \in States, NEW e \in ConnectionEvents,
               u = Emit([c EXCEPT !.state = s], e)
        PROVE  /\ Typed(u) /\ u.unread = FALSE /\ u.state = s
               /\ u.peer = c.peer /\ u.remote = c.remote
               /\ u.events = <<e>>
    <2> HIDE DEF u
    <2>1. /\ Typed(u) /\ u.state = s /\ u.events = Append(c.events, e)
          /\ u.unread = c.unread /\ u.peer = c.peer /\ u.remote = c.remote
      BY <1>1, <1>2, EmitTyped
    <2> QED
      BY <1>1, <2>1, AppendToEmpty
  <1>3. ASSUME NEW s \in {"Lost", "Closed"}, NEW b \in BOOLEAN
        PROVE  /\ <<s, b>> \in ConnectionEvents /\ s \in States
               /\ Ends(<<s, b>>, s)
    <2>1. <<s, b>> \in ConnectionEvents
      BY EventTypes
    <2> DEFINE e == <<s, b>>
    <2>2. e[1] = s
      OBVIOUS
    <2> HIDE DEF e
    <2>3. Ends(e, s)
      BY <2>1, <2>2 DEF Ends, e
    <2> QED
      BY <2>1, <2>3 DEF States, TerminalStates, e
  <1>4. CASE c.state = "Connecting" /\ c.sinceRecv > InitThreshold
    <2>1. u = Emit([c EXCEPT !.state = "FailedToConnect"], <<"FailedToConnect">>)
      BY <1>4 DEF UpdateSendState
    <2>2. "FailedToConnect" \in States
      BY DEF States, TerminalStates
    <2> HIDE DEF u
    <2> QED
      BY <1>2, <1>4, <2>1, <2>2, EventTypes DEF u
  <1>5. CASE c.state = "Connected" /\ c.sinceRecv > DropThreshold
    <2> DEFINE e == <<"Lost", TRUE>>
    <2>0. ~(c.sinceRecv <= DropThreshold)
      BY <1>1, <1>5, LastThresholdBounds
    <2>1. u = Emit([c EXCEPT !.state = "Lost"], e)
      BY <1>5, <2>0 DEF UpdateSendState
    <2>2. e \in ConnectionEvents /\ "Lost" \in States /\ Ends(e, "Lost")
      BY <1>3
    <2> HIDE DEF u, e
    <2> QED
      BY <1>2, <1>5, <2>1, <2>2 DEF u
  <1>6. CASE /\ c.state = "Connected" /\ c.sinceRecv <= DropThreshold
             /\ c.sinceSend > DropThreshold
    <2> DEFINE e == <<"Lost", FALSE>>
    <2>0. ~(c.sinceRecv > DropThreshold)
      BY <1>1, <1>6, LastThresholdBounds
    <2>1. u = Emit([c EXCEPT !.state = "Lost"], e)
      BY <1>6, <2>0 DEF UpdateSendState
    <2>2. e \in ConnectionEvents /\ "Lost" \in States /\ Ends(e, "Lost")
      BY <1>3
    <2> HIDE DEF u, e
    <2> QED
      BY <1>2, <1>6, <2>1, <2>2 DEF u
  <1>7. CASE c.state = "Closing" /\ c.sinceRecv > ClosingThreshold
    <2> DEFINE e == <<"Closed", FALSE>>
    <2>1. u = Emit([c EXCEPT !.state = "Closed"], e)
      BY <1>1, <1>7 DEF UpdateSendState
    <2>2. e \in ConnectionEvents /\ "Closed" \in States /\ Ends(e, "Closed")
      BY <1>3
    <2> HIDE DEF u, e
    <2> QED
      BY <1>2, <1>7, <2>1, <2>2 DEF u
  <1>8. CASE /\ ~(c.state = "Connecting" /\ c.sinceRecv > InitThreshold)
             /\ ~(c.state = "Connected" /\ c.sinceRecv > DropThreshold)
             /\ ~(/\ c.state = "Connected" /\ c.sinceRecv <= DropThreshold
                  /\ c.sinceSend > DropThreshold)
             /\ ~(c.state = "Closing" /\ c.sinceRecv > ClosingThreshold)
    <2>1. u = c
      BY <1>8 DEF UpdateSendState
    <2>2. Open(c) => c.sinceRecv <= Patience(c.state)
      BY <1>1, <1>8 DEF Open, OpenStates, Patience
    <2> HIDE DEF u
    <2> QED
      BY <1>1, <2>1, <2>2 DEF u
  <1> QED
    BY <1>4, <1>5, <1>6, <1>7, <1>8

\* What the server sees of send_packet().
LEMMA SendEffect ==
    ASSUME NEW c, Settled(c), NEW env
    PROVE  LET d == SendPacket(c, env)
           IN  /\ Typed(d) /\ d.unread = FALSE
               /\ d.peer = c.peer /\ d.remote = c.remote
               /\ \/ /\ Open(c) /\ d.state = c.state /\ d.events = <<>>
                     /\ d.sinceRecv <= Patience(d.state)
                  \/ /\ c.state = "Connecting" /\ d.state = "FailedToConnect"
                     /\ d.events = <<<<"FailedToConnect">>>>
                  \/ /\ c.state \in {"Connected", "Closing"}
                     /\ \E e \in ConnectionEvents :
                           Ends(e, d.state) /\ d.events = <<e>>
                  \/ ~Open(c) /\ d = c
  <1> DEFINE u == UpdateSendState(c)
             d == SendPacket(c, env)
  <1>1. /\ Typed(u) /\ u.unread = FALSE
        /\ u.peer = c.peer /\ u.remote = c.remote
        /\ \/ /\ c.state = "Connecting" /\ u.state = "FailedToConnect"
              /\ u.events = <<<<"FailedToConnect">>>>
           \/ /\ c.state \in {"Connected", "Closing"}
              /\ \E e \in ConnectionEvents :
                    Ends(e, u.state) /\ u.events = <<e>>
           \/ /\ u = c
              /\ Open(c) => c.sinceRecv <= Patience(c.state)
    BY UpdateSendEffect
  <1>2. c.events = <<>>
    BY DEF Settled
  <1> HIDE DEF u
  <1>3. CASE ~Open(u) \/ env = "skipped"
    <2>1. d = u
      BY <1>3 DEF SendPacket, u
    <2> HIDE DEF d
    <2> QED
      BY <1>1, <1>2, <2>1 DEF d
  <1>4. CASE Open(u) /\ env # "skipped"
    <2> DEFINE since == IF env = "sent" THEN 0 ELSE u.sinceSend
    <2>1. d = [u EXCEPT !.sinceSend = since, !.unread = FALSE]
      BY <1>4 DEF SendPacket, u
    <2>2. since \in Ages(DropThreshold)
      BY <1>1, ZeroIsAge, LastThresholdBounds DEF Typed, ConnectionRecords
    <2> HIDE DEF d, since
    <2>3. /\ Typed(d) /\ d.unread = FALSE
          /\ d.peer = u.peer /\ d.remote = u.remote
          /\ d.state = u.state /\ d.events = u.events
          /\ d.sinceRecv = u.sinceRecv
      BY <1>1, <2>1, <2>2 DEF Typed, ConnectionRecords
    <2>4. u = c /\ c.sinceRecv <= Patience(c.state)
      BY <1>1, <1>4 DEF Open, OpenStates, Ends
    <2> QED
      BY <1>1, <1>2, <1>4, <2>3, <2>4 DEF d
  <1> QED
    BY <1>3, <1>4

-----------------------------------------------------------------------------
(* Events and what they tell *)

Announces(e) == e[1] \in {"Connected", "Message"}

\* What an application that knew k before the events of s knows before the
\* i-th of them, and after all.
Before(k, s, i) ==
    IF i = 1 THEN k ELSE IF Announces(s[i - 1]) THEN "in" ELSE "out"
Finally(k, s) == Before(k, s, Len(s) + 1)
Tells(k, s) ==
    \A i \in DOMAIN s : s[i][1] = "Connected" <=> Before(k, s, i) = "out"

LEMMA NothingTells == \A k : Tells(k, <<>>) /\ Finally(k, <<>>) = k
  BY DEF Tells, Finally, Before

LEMMA MoreTells ==
    ASSUME NEW k, NEW s \in Seq(ConnectionEvents), NEW e \in ConnectionEvents,
           Tells(k, s), e[1] = "Connected" <=> Finally(k, s) = "out"
    PROVE  /\ s \o <<e>> \in Seq(ConnectionEvents)
           /\ Tells(k, s \o <<e>>)
           /\ Finally(k, s \o <<e>>) = IF Announces(e) THEN "in" ELSE "out"
  <1> DEFINE t == s \o <<e>>
  <1>1. /\ t \in Seq(ConnectionEvents) /\ Len(t) = Len(s) + 1
        /\ \A i \in 1..Len(s) : t[i] = s[i]
        /\ t[Len(s) + 1] = e
        /\ Len(s) \in Nat /\ DOMAIN s = 1..Len(s) /\ DOMAIN t = 1..(Len(s) + 1)
    OBVIOUS
  <1> HIDE DEF t
  <1>2. \A i \in 1..(Len(s) + 1) : Before(k, t, i) = Before(k, s, i)
    BY <1>1 DEF Before
  <1>3. Tells(k, t)
    BY <1>1, <1>2 DEF Tells, Finally
  <1>4. Finally(k, t) = IF Announces(e) THEN "in" ELSE "out"
    BY <1>1 DEF Finally, Before
  <1> QED
    BY <1>1, <1>3, <1>4 DEF t

LEMMA FewerTell ==
    ASSUME NEW k, NEW s \in Seq(ConnectionEvents), s # <<>>, Tells(k, s)
    PROVE  LET known2 == IF Announces(Head(s)) THEN "in" ELSE "out"
           IN  /\ Tail(s) \in Seq(ConnectionEvents)
               /\ Tells(known2, Tail(s))
               /\ Finally(known2, Tail(s)) = Finally(k, s)
  <1> DEFINE k2 == IF Announces(Head(s)) THEN "in" ELSE "out"
             t == Tail(s)
  <1>1. /\ t \in Seq(ConnectionEvents) /\ Len(t) = Len(s) - 1
        /\ \A i \in 1..Len(t) : t[i] = s[i + 1]
        /\ Head(s) = s[1] /\ Len(s) \in Nat \ {0}
        /\ DOMAIN s = 1..Len(s) /\ DOMAIN t = 1..Len(t)
    OBVIOUS
  <1> HIDE DEF t
  <1>2. \A i \in 1..(Len(t) + 1) : Before(k2, t, i) = Before(k, s, i + 1)
    BY <1>1 DEF Before
  <1>3. Tells(k2, t)
    <2> SUFFICES ASSUME NEW i \in 1..Len(t)
                 PROVE  t[i][1] = "Connected" <=> Before(k2, t, i) = "out"
      BY <1>1 DEF Tells
    <2>1. i + 1 \in DOMAIN s /\ t[i] = s[i + 1]
      BY <1>1
    <2>2. Before(k2, t, i) = Before(k, s, i + 1)
      BY <1>1, <1>2
    <2> QED
      BY <2>1, <2>2 DEF Tells
  <1>4. Finally(k2, t) = Finally(k, s)
    BY <1>1, <1>2 DEF Finally
  <1> QED
    BY <1>1, <1>3, <1>4 DEF t

\* drain() of what a received packet left.
LEMMA DrainTells ==
    ASSUME NEW k, NEW s \in Seq(ConnectionEvents), Tells(k, s),
           NEW c, Typed(c), c.unread \in BOOLEAN
    PROVE  /\ c.events = <<>> /\ (c.unread => Finally(k, s) = "in")
              => /\ s \o Drain(c) \in Seq(ConnectionEvents)
                 /\ Tells(k, s \o Drain(c))
                 /\ Finally(k, s \o Drain(c)) = Finally(k, s)
           /\ c.events = <<<<"Connected">>>> /\ Finally(k, s) = "out"
              => /\ s \o Drain(c) \in Seq(ConnectionEvents)
                 /\ Tells(k, s \o Drain(c))
                 /\ Finally(k, s \o Drain(c)) = "in"
  <1> DEFINE m == <<"Message">>
             n == <<"Connected">>
  <1>1. /\ m \in ConnectionEvents /\ n \in ConnectionEvents
        /\ m[1] = "Message" /\ n[1] = "Connected"
        /\ Announces(m) /\ Announces(n)
    BY EventTypes DEF Announces
  <1> HIDE DEF m, n
  <1>2. ASSUME c.events = <<>>, c.unread, Finally(k, s) = "in"
        PROVE  /\ s \o Drain(c) \in Seq(ConnectionEvents)
               /\ Tells(k, s \o Drain(c))
               /\ Finally(k, s \o Drain(c)) = "in"
    <2>1. Drain(c) = <<m>>
      BY <1>2 DEF Drain, m
    <2>2. m[1] = "Connected" <=> Finally(k, s) = "out"
      BY <1>1, <1>2
    <2> QED
      BY <1>1, <2>1, <2>2, MoreTells
  <1>3. ASSUME c.events = <<>>, ~c.unread
        PROVE  s \o Drain(c) = s
    <2>1. Drain(c) = <<>>
      BY <1>3 DEF Drain
    <2> QED
      BY <2>1
  <1>4. ASSUME c.events = <<n>>, Finally(k, s) = "out"
        PROVE  /\ s \o Drain(c) \in Seq(ConnectionEvents)
               /\ Tells(k, s \o Drain(c))
               /\ Finally(k, s \o Drain(c)) = "in"
    <2>1. /\ s \o <<n>> \in Seq(ConnectionEvents)
          /\ Tells(k, s \o <<n>>)
          /\ Finally(k, s \o <<n>>) = "in"
      BY <1>1, <1>4, MoreTells
    <2>2. CASE ~c.unread
      <3>1. Drain(c) = <<n>>
        BY <1>4, <2>2 DEF Drain
      <3> QED
        BY <2>1, <3>1
    <2>3. CASE c.unread
      <3>1. Drain(c) = <<n>> \o <<m>>
        BY <1>4, <2>3 DEF Drain, m
      <3>2. s \o Drain(c) = (s \o <<n>>) \o <<m>>
        BY <1>1, <3>1
      <3> DEFINE longer == s \o <<n>>
      <3>3. /\ longer \in Seq(ConnectionEvents) /\ Tells(k, longer)
            /\ m[1] = "Connected" <=> Finally(k, longer) = "out"
        BY <1>1, <2>1
      <3> HIDE DEF longer
      <3>4. /\ longer \o <<m>> \in Seq(ConnectionEvents)
            /\ Tells(k, longer \o <<m>>)
            /\ Finally(k, longer \o <<m>>) = "in"
        BY <1>1, <3>3, MoreTells
      <3> QED
        BY <3>2, <3>4 DEF longer
    <2> QED
      BY <2>2, <2>3
  <1> QED
    BY <1>2, <1>3, <1>4 DEF n

-----------------------------------------------------------------------------
(* The invariant of a server *)

ServerTypeOK ==
    /\ {listening, serverReceives, accepting, panicked} \subseteq BOOLEAN
    /\ causes \subseteq {"reset", "short"}
    /\ DOMAIN connections \subseteq Ids /\ DOMAIN addresses \subseteq Ids
    /\ dropped \subseteq Ids
    /\ pending \in [Ids -> Seq(ConnectionEvents)]
    /\ known \in [Ids -> {"in", "out"}]

\* Between the calls no connection holds events or messages, one that waits for
\* its first packet was reset or made for a short one, and there are none
\* without a socket.
AllSettled ==
    /\ \A id \in DOMAIN connections :
          /\ Settled(connections[id])
          /\ connections[id].state = "Connecting" => causes # {}
    /\ ~listening => DOMAIN connections = {}
    /\ accepting => listening

Live(id) ==
    id \in DOMAIN connections
    /\ connections[id].state \in {"Connected", "Closing"}

\* EventsTellConnections in terms of Tells.
EventsTell ==
    ~panicked => \A id \in Ids :
        /\ Tells(known[id], pending[id])
        /\ Finally(known[id], pending[id]) = "in" <=> Live(id)

ServerInv ==
    /\ ServerTypeOK /\ AllSettled
    /\ CollectionsAgree /\ EventsTell /\ PanicHasCause

LEMMA EventsTellIsSame == EventsTell <=> EventsTellConnections
  <1>1. \A id, i : KnownBefore(id, i) = Before(known[id], pending[id], i)
    BY DEF KnownBefore, Before, Announces
  <1> QED
    BY <1>1 DEF EventsTell, EventsTellConnections, Tells, Finally, Live

LEMMA FinallyIn ==
    ASSUME NEW k \in {"in", "out"}, NEW s \in Seq(ConnectionEvents)
    PROVE  Finally(k, s) \in {"in", "out"}
  BY DEF Finally, Before

LEMMA ServerInvInit == ServerInit => ServerInv
  <1> SUFFICES ASSUME ServerInit PROVE ServerInv
    OBVIOUS
  <1>1. /\ DOMAIN connections = {} /\ DOMAIN addresses = {}
        /\ \A id \in Ids : pending[id] = <<>> /\ known[id] = "out"
    BY DEF ServerInit, Nothing, NoEvents
  <1>2. <<>> \in Seq(ConnectionEvents)
    OBVIOUS
  <1>3. ServerTypeOK
    BY <1>1, <1>2 DEF ServerInit, ServerTypeOK, Nothing, NoEvents
  <1>4. AllSettled /\ CollectionsAgree /\ PanicHasCause
    BY <1>1 DEF AllSettled, CollectionsAgree, PanicHasCause, ServerInit
  <1>5. EventsTell
    BY <1>1, NothingTells DEF EventsTell, Live
  <1> QED
    BY <1>3, <1>4, <1>5 DEF ServerInv

LEMMA ListenKeeps == ServerInv /\ Listen => ServerInv'
  <1> SUFFICES ASSUME ServerInv, Listen PROVE ServerInv'
    OBVIOUS
  <1>1. ServerTypeOK'
    BY DEF ServerInv, Listen, ServerTypeOK
  <1>2. AllSettled' /\ CollectionsAgree'
    BY DEF ServerInv, Listen, AllSettled, CollectionsAgree
  <1>3. EventsTell' /\ PanicHasCause'
    BY DEF ServerInv, Listen, EventsTell, Live, PanicHasCause
  <1> QED
    BY <1>1, <1>2, <1>3 DEF ServerInv

LEMMA BeginAcceptKeeps == ServerInv /\ BeginAccept => ServerInv'
  <1> SUFFICES ASSUME ServerInv, BeginAccept PROVE ServerInv'
    OBVIOUS
  <1>1. ServerTypeOK'
    BY DEF ServerInv, BeginAccept, ServerTypeOK
  <1>2. AllSettled' /\ CollectionsAgree'
    BY DEF ServerInv, BeginAccept, ServerCalls, AllSettled, CollectionsAgree
  <1>3. EventsTell' /\ PanicHasCause'
    BY DEF ServerInv, BeginAccept, EventsTell, Live, PanicHasCause
  <1> QED
    BY <1>1, <1>2, <1>3 DEF ServerInv

LEMMA EndAcceptKeeps == ServerInv /\ EndAccept => ServerInv'
  <1> SUFFICES ASSUME ServerInv, EndAccept PROVE ServerInv'
    OBVIOUS
  <1>1. ServerTypeOK'
    BY DEF ServerInv, EndAccept, ServerTypeOK
  <1>2. AllSettled' /\ CollectionsAgree'
    BY DEF ServerInv, EndAccept, AllSettled, CollectionsAgree
  <1>3. EventsTell' /\ PanicHasCause'
    BY DEF ServerInv, EndAccept, EventsTell, Live, PanicHasCause
  <1> QED
    BY <1>1, <1>2, <1>3 DEF ServerInv

LEMMA ShutdownKeeps == ServerInv /\ Shutdown => ServerInv'
  <1> SUFFICES ASSUME ServerInv, Shutdown PROVE ServerInv'
    OBVIOUS
  <1>1. /\ DOMAIN connections' = {} /\ DOMAIN addresses' = {}
        /\ \A id \in Ids : pending'[id] = <<>> /\ known'[id] = "out"
    BY DEF Shutdown, Nothing, NoEvents
  <1>2. <<>> \in Seq(ConnectionEvents)
    OBVIOUS
  <1>3. ServerTypeOK'
    BY <1>1, <1>2
    DEF ServerInv, Shutdown, ServerTypeOK, Nothing, NoEvents
  <1>4. AllSettled' /\ CollectionsAgree'
    BY <1>1 DEF AllSettled, CollectionsAgree, Shutdown, ServerCalls
  <1>5. EventsTell' /\ PanicHasCause'
    BY <1>1, NothingTells
    DEF EventsTell, Live, PanicHasCause, Shutdown, ServerCalls
  <1> QED
    BY <1>3, <1>4, <1>5 DEF ServerInv

LEMMA FetchEventKeeps ==
    ASSUME ServerInv, NEW id \in Ids, FetchEvent(id)
    PROVE  ServerInv'
  <1> DEFINE s == pending[id]
             k2 == IF Announces(Head(s)) THEN "in" ELSE "out"
  <1>1. /\ s \in Seq(ConnectionEvents) /\ s # <<>>
        /\ Tells(known[id], s)
    BY DEF ServerInv, ServerTypeOK, EventsTell, FetchEvent, ServerCalls
  <1>2. /\ Tail(s) \in Seq(ConnectionEvents)
        /\ Tells(k2, Tail(s))
        /\ Finally(k2, Tail(s)) = Finally(known[id], s)
    BY <1>1, FewerTell
  <1>3. /\ pending' = [pending EXCEPT ![id] = Tail(s)]
        /\ known' = [known EXCEPT ![id] = k2]
        /\ k2 \in {"in", "out"}
    BY DEF FetchEvent, Announces
  <1> HIDE DEF k2, s
  <1>4. ServerTypeOK'
    BY <1>2, <1>3 DEF ServerInv, ServerTypeOK, FetchEvent
  <1>5. AllSettled' /\ CollectionsAgree' /\ PanicHasCause'
    BY DEF ServerInv, AllSettled, CollectionsAgree, PanicHasCause,
           FetchEvent
  <1>6. EventsTell'
    <2> SUFFICES ASSUME ~panicked, NEW other \in Ids
                 PROVE  /\ Tells(known'[other], pending'[other])
                        /\ Finally(known'[other], pending'[other]) = "in"
                              <=> Live(other)
      BY DEF EventsTell, Live, FetchEvent
    <2>1. pending \in [Ids -> Seq(ConnectionEvents)]
          /\ known \in [Ids -> {"in", "out"}]
      BY DEF ServerInv, ServerTypeOK
    <2>2. /\ Tells(known[other], pending[other])
          /\ Finally(known[other], pending[other]) = "in" <=> Live(other)
      BY DEF ServerInv, EventsTell
    <2> QED
      BY <1>2, <1>3, <2>1, <2>2 DEF s
  <1> QED
    BY <1>4, <1>5, <1>6 DEF ServerInv

-----------------------------------------------------------------------------
(* receive_connection_packet() *)

\* What a packet leaves of connection `old', settled again.
LEMMA AcceptEffect ==
    ASSUME NEW old, Settled(old), NEW p \in WholePackets,
           NEW newer \in BOOLEAN, NEW carries \in BOOLEAN,
           NEW k \in {"in", "out"}, NEW s \in Seq(ConnectionEvents),
           Tells(k, s),
           Finally(k, s) = "in" <=> old.state \in {"Connected", "Closing"}
    PROVE  LET c == ReceivePacket(old, p, newer, carries)
           IN  /\ Typed(c) /\ ~Unmappable(c)
               /\ s \o Drain(c) \in Seq(ConnectionEvents)
               /\ Tells(k, s \o Drain(c))
               /\ Finally(k, s \o Drain(c)) = "in"
                     <=> c.state \in {"Connected", "Closing"}
  <1> DEFINE c == ReceivePacket(old, p, newer, carries)
  <1>1. /\ Typed(c)
        /\ \/ /\ old.state = "Connecting" /\ c.state = "Connected"
              /\ c.events = <<<<"Connected">>>>
           \/ /\ old.state = "Connected" /\ c.state = "Closed"
              /\ c.events = <<<<"Closed", TRUE>>>>
              /\ c.unread = FALSE
           \/ /\ old.state \in {"Connected", "Closing"}
              /\ c.state = old.state /\ c.events = <<>>
           \/ /\ old.state \in TerminalStates /\ c = old
    BY ReceiveEffect
  <1>2. /\ c.unread \in BOOLEAN /\ Finally(k, s) \in {"in", "out"}
        /\ old.events = <<>> /\ old.unread = FALSE
    BY <1>1, FinallyIn DEF Typed, ConnectionRecords, Settled
  <1> HIDE DEF c
  <1>3. CASE /\ old.state = "Connecting" /\ c.state = "Connected"
             /\ c.events = <<<<"Connected">>>>
    <2> DEFINE e == <<"Connected">>
    <2>1. e[1] # "FailedToConnect"
      OBVIOUS
    <2> HIDE DEF e
    <2>2. c.events = <<e>>
      BY <1>3 DEF e
    <2>3. ~Unmappable(c)
      BY <2>1, <2>2 DEF Unmappable
    <2> QED
      BY <1>1, <1>2, <1>3, <2>3, DrainTells DEF c
  <1>4. CASE /\ old.state = "Connected" /\ c.state = "Closed"
             /\ c.events = <<<<"Closed", TRUE>>>>
             /\ c.unread = FALSE
    <2> DEFINE e == <<"Closed", TRUE>>
    <2>1. /\ e[1] = "Closed" /\ e \in ConnectionEvents
      BY EventTypes
    <2> HIDE DEF e
    <2>2. c.events = <<e>>
      BY <1>4 DEF e
    <2>3. ~Unmappable(c)
      BY <2>1, <2>2 DEF Unmappable
    <2>4. Drain(c) = <<e>>
      <3>1. ~c.unread
        BY <1>4
      <3> QED
        BY <2>2, <3>1 DEF Drain
    <2>5. /\ e[1] = "Connected" <=> Finally(k, s) = "out"
          /\ ~Announces(e)
      BY <1>2, <1>4, <2>1 DEF Announces
    <2>6. /\ s \o <<e>> \in Seq(ConnectionEvents)
          /\ Tells(k, s \o <<e>>)
          /\ Finally(k, s \o <<e>>) = "out"
      BY <2>1, <2>5, MoreTells
    <2> QED
      BY <1>1, <1>4, <2>3, <2>4, <2>6 DEF c
  <1>5. CASE /\ old.state \in {"Connected", "Closing"}
             /\ c.state = old.state /\ c.events = <<>>
    <2>1. ~Unmappable(c)
      BY <1>5 DEF Unmappable
    <2> QED
      BY <1>1, <1>2, <1>5, <2>1, DrainTells DEF c
  <1>6. CASE old.state \in TerminalStates /\ c = old
    <2>1. ~Unmappable(c)
      BY <1>2, <1>6 DEF Unmappable
    <2>2. c.state \notin {"Connected", "Closing"}
      BY <1>6 DEF TerminalStates
    <2> QED
      BY <1>1, <1>2, <1>6, <2>1, <2>2, DrainTells DEF c
  <1> QED
    BY <1>1, <1>3, <1>4, <1>5, <1>6

\* Nothing but ages changes.
LEMMA AgeingKeeps ==
    ASSUME ServerInv, DOMAIN connections' = DOMAIN connections,
           \A id \in DOMAIN connections :
              /\ Settled(connections'[id])
              /\ connections'[id].state = connections[id].state
              /\ connections'[id].peer = connections[id].peer
              /\ connections'[id].remote = connections[id].remote,
           UNCHANGED <<listening, addresses, dropped, pending, serverReceives,
                       accepting, panicked, known, causes>>
    PROVE  ServerInv'
  <1>1. ServerTypeOK'
    BY DEF ServerInv, ServerTypeOK
  <1>2. AllSettled'
    BY DEF ServerInv, AllSettled
  <1>3. CollectionsAgree'
    BY DEF ServerInv, CollectionsAgree, Open
  <1>4. EventsTell'
    <2>1. \A id : Live(id)' <=> Live(id)
      BY DEF Live
    <2> QED
      BY <2>1 DEF ServerInv, EventsTell
  <1>5. PanicHasCause'
    BY DEF ServerInv, PanicHasCause
  <1> QED
    BY <1>1, <1>2, <1>3, <1>4, <1>5 DEF ServerInv

LEMMA ServerElapseKeeps ==
    ASSUME ServerInv, ServerElapse,
           UNCHANGED <<listening, addresses, dropped, pending, serverReceives,
                       accepting, panicked, known, causes>>
    PROVE  ServerInv'
  <1>1. DOMAIN connections' = DOMAIN connections
    BY DEF ServerElapse
  <1>2. ASSUME NEW id \in DOMAIN connections
        PROVE  /\ Settled(connections'[id])
               /\ connections'[id].state = connections[id].state
               /\ connections'[id].peer = connections[id].peer
               /\ connections'[id].remote = connections[id].remote
    <2> DEFINE c == connections[id]
               d == Elapse(c)
    <2>1. connections'[id] = d
      BY DEF ServerElapse
    <2>2. Settled(c)
      BY DEF ServerInv, AllSettled
    <2> HIDE DEF c
    <2>3. /\ Typed(d) /\ d.events = c.events /\ d.unread = c.unread
          /\ d.state = c.state /\ d.peer = c.peer /\ d.remote = c.remote
      BY <2>2, ElapseTyped DEF Settled
    <2> HIDE DEF d
    <2> QED
      BY <2>1, <2>2, <2>3 DEF Settled, c
  <1> QED
    BY <1>1, <1>2, AgeingKeeps

LEMMA WholeKnownKeeps ==
    ASSUME ServerInv, NEW p \in WholePackets,
           NEW newer \in BOOLEAN, NEW carries \in BOOLEAN,
           AcceptKnown(p, newer, carries)
    PROVE  ServerInv'
  <1> DEFINE id == p.id
             old == connections[id]
             c == ReceivePacket(old, p, newer, carries)
             moved == Moves(old, p, newer)
             turned == IF moved THEN SetPeerAddr(c, p.addr) ELSE c
             d == Drained(turned)
  <1>1. /\ id \in DOMAIN connections /\ ~panicked
        /\ connections' = Put(connections, id, d)
        /\ addresses' = IF moved THEN Put(addresses, id, p.addr) ELSE addresses
        /\ pending' = [pending EXCEPT ![id] = @ \o Drain(c)]
        /\ panicked' = Unmappable(c)
        /\ UNCHANGED <<listening, dropped, serverReceives, accepting, known,
                       causes>>
    BY DEF AcceptKnown
  <1>2. /\ id \in Ids /\ p.addr \in Nat
        /\ pending \in [Ids -> Seq(ConnectionEvents)]
        /\ known \in [Ids -> {"in", "out"}]
        /\ Settled(old) /\ (old.state = "Connecting" => causes # {})
        /\ Tells(known[id], pending[id])
        /\ Finally(known[id], pending[id]) = "in"
              <=> old.state \in {"Connected", "Closing"}
    BY <1>1 DEF ServerInv, ServerTypeOK, AllSettled, EventsTell, Live,
                WholePackets
  <1> HIDE DEF old
  <1>3. /\ Typed(c) /\ ~Unmappable(c)
        /\ pending[id] \o Drain(c) \in Seq(ConnectionEvents)
        /\ Tells(known[id], pending[id] \o Drain(c))
        /\ Finally(known[id], pending[id] \o Drain(c)) = "in"
              <=> c.state \in {"Connected", "Closing"}
    <2> DEFINE k == known[id]
               s == pending[id]
    <2>1. /\ k \in {"in", "out"} /\ s \in Seq(ConnectionEvents)
          /\ Settled(old) /\ Tells(k, s)
          /\ Finally(k, s) = "in" <=> old.state \in {"Connected", "Closing"}
      BY <1>2
    <2> HIDE DEF k, s, id
    <2> SUFFICES /\ Typed(c) /\ ~Unmappable(c)
                 /\ s \o Drain(c) \in Seq(ConnectionEvents)
                 /\ Tells(k, s \o Drain(c))
                 /\ Finally(k, s \o Drain(c)) = "in"
                       <=> c.state \in {"Connected", "Closing"}
      BY DEF k, s
    <2> QED
      BY <2>1, AcceptEffect
  <1>4. /\ c.peer = old.peer
        /\ IF Consumes(old, p, newer)
           THEN c.remote = p.addr
           ELSE c.remote = old.remote
        /\ old.state \in {"Connecting", "Closing"} => Consumes(old, p, newer)
        /\ c.state # "Connecting"
        /\ ~Open(old) => c = old
    <2>1. old.state \in {"Connecting", "Closing"} => Consumes(old, p, newer)
      BY WholeIsNotShort DEF Consumes
    <2>2. /\ c.peer = old.peer
          /\ IF Consumes(old, p, newer)
             THEN c.remote = p.addr
             ELSE c.remote = old.remote
          /\ \/ old.state = "Connecting" /\ c.state = "Connected"
             \/ old.state = "Connected" /\ c.state = "Closed"
             \/ old.state \in {"Connected", "Closing"} /\ c.state = old.state
             \/ old.state \in TerminalStates /\ c = old
      BY <1>2, ReceiveOutcome
    <2> HIDE DEF c
    <2>3. c.state # "Connecting" /\ (~Open(old) => c = old)
      BY <2>2 DEF Open, OpenStates, TerminalStates
    <2> QED
      BY <2>1, <2>2, <2>3
  <1> HIDE DEF c, moved
  <1>5. /\ Typed(turned) /\ turned.state = c.state /\ turned.remote = c.remote
        /\ turned.peer = IF moved THEN p.addr ELSE old.peer
    BY <1>2, <1>3, <1>4, SetPeerAddrTyped
  <1> HIDE DEF turned
  <1>6. /\ Settled(d) /\ d.state = c.state /\ d.remote = c.remote
        /\ d.peer = IF moved THEN p.addr ELSE old.peer
    BY <1>5, DrainedTyped DEF Settled
  <1> HIDE DEF d
  <1>7. /\ DOMAIN connections' = DOMAIN connections
        /\ connections'[id] = d
        /\ \A x \in DOMAIN connections :
              x # id => connections'[x] = connections[x]
    BY <1>1 DEF Put
  <1>8. /\ DOMAIN addresses = DOMAIN connections
        /\ DOMAIN addresses' = DOMAIN addresses
        /\ addresses'[id] = IF moved THEN p.addr ELSE addresses[id]
        /\ \A x \in DOMAIN addresses : x # id => addresses'[x] = addresses[x]
    BY <1>1 DEF Put, ServerInv, CollectionsAgree
  <1>9. ServerTypeOK'
    <2>1. pending' \in [Ids -> Seq(ConnectionEvents)]
      BY <1>1, <1>2, <1>3
    <2>2. {listening', serverReceives', accepting', panicked'}
             \subseteq BOOLEAN
      <3>1. panicked' \in BOOLEAN
        BY <1>1 DEF Unmappable
      <3> QED
        BY <1>1, <3>1 DEF ServerInv, ServerTypeOK
    <2>3. /\ DOMAIN connections' \subseteq Ids /\ DOMAIN addresses' \subseteq Ids
          /\ dropped' \subseteq Ids /\ known' \in [Ids -> {"in", "out"}]
          /\ causes' \subseteq {"reset", "short"}
      BY <1>1, <1>2, <1>7, <1>8 DEF ServerInv, ServerTypeOK
    <2> QED
      BY <2>1, <2>2, <2>3 DEF ServerTypeOK
  <1>10. AllSettled'
    BY <1>1, <1>4, <1>6, <1>7 DEF ServerInv, AllSettled
  <1>11. CollectionsAgree'
    <2>1. addresses[id] = old.peer
          /\ (old.state # "Connecting" => addresses[id] = old.remote)
          /\ (id \in dropped => ~Open(old))
      BY <1>1 DEF ServerInv, CollectionsAgree, old
    <2>2. addresses'[id] = d.peer
      BY <1>6, <1>8, <2>1
    <2>3. addresses'[id] = d.remote
      <3>1. CASE Consumes(old, p, newer)
        <4>1. c.remote = p.addr
          BY <1>4, <3>1
        <4>2. moved <=> p.addr # old.peer
          BY <3>1 DEF moved, Moves
        <4> QED
          BY <1>6, <1>8, <2>1, <4>1, <4>2
      <3>2. CASE ~Consumes(old, p, newer)
        <4>1. ~moved
          BY <3>2 DEF moved, Moves
        <4> QED
          BY <1>4, <1>6, <1>8, <2>1, <3>2, <4>1
      <3> QED
        BY <3>1, <3>2
    <2>4. id \in dropped => ~Open(d)
      BY <1>4, <1>6, <2>1 DEF Open
    <2>5. ASSUME NEW x \in DOMAIN connections', x # id
          PROVE  /\ addresses'[x] = connections'[x].peer
                 /\ connections'[x].state # "Connecting" /\ ~panicked' =>
                       addresses'[x] = connections'[x].remote
                 /\ x \in dropped' => ~Open(connections'[x])
      BY <1>1, <1>7, <1>8, <2>5 DEF ServerInv, CollectionsAgree
    <2>6. /\ DOMAIN addresses' = DOMAIN connections'
          /\ dropped' \subseteq DOMAIN connections'
      BY <1>1, <1>7, <1>8 DEF ServerInv, CollectionsAgree
    <2>7. /\ addresses'[id] = connections'[id].peer
          /\ addresses'[id] = connections'[id].remote
          /\ id \in dropped' => ~Open(connections'[id])
      BY <1>1, <1>7, <2>2, <2>3, <2>4
    <2> QED
      BY <2>5, <2>6, <2>7 DEF CollectionsAgree
  <1>12. EventsTell'
    <2> SUFFICES ASSUME NEW x \in Ids
                 PROVE  /\ Tells(known'[x], pending'[x])
                        /\ Finally(known'[x], pending'[x]) = "in" <=> Live(x)'
      BY DEF EventsTell
    <2>1. CASE x = id
      BY <1>1, <1>2, <1>3, <1>6, <1>7, <2>1 DEF Live
    <2>2. CASE x # id
      BY <1>1, <1>2, <1>7, <2>2 DEF Live, ServerInv, EventsTell
    <2> QED
      BY <2>1, <2>2
  <1>13. PanicHasCause'
    BY <1>1, <1>3 DEF PanicHasCause
  <1> QED
    BY <1>9, <1>10, <1>11, <1>12, <1>13 DEF ServerInv

\* A packet too short for a connection leaves it as it is.
LEMMA ShortKnownKeeps ==
    ASSUME ServerInv, NEW p, p.id \in Ids, p.kind = "short",
           NEW newer \in BOOLEAN, NEW carries \in BOOLEAN,
           AcceptKnown(p, newer, carries)
    PROVE  ServerInv'
  <1> DEFINE id == p.id
             old == connections[id]
             d == Drained(old)
  <1>1. /\ ReceivePacket(old, p, newer, carries) = old
        /\ Moves(old, p, newer) = FALSE
    BY DEF ReceivePacket, Moves, Consumes
  <1>2. /\ id \in DOMAIN connections /\ ~panicked
        /\ connections' = Put(connections, id, d)
        /\ pending' = [pending EXCEPT ![id] = @ \o Drain(old)]
        /\ panicked' = Unmappable(old)
        /\ UNCHANGED <<addresses, listening, dropped, serverReceives, accepting,
                       known, causes>>
    BY <1>1 DEF AcceptKnown
  <1>3. \A x \in DOMAIN connections : Settled(connections[x])
    BY DEF ServerInv, AllSettled
  <1>4. Settled(old) /\ pending \in [Ids -> Seq(ConnectionEvents)]
    BY <1>2, <1>3 DEF ServerInv, ServerTypeOK
  <1> HIDE DEF old
  <1>5. panicked' = panicked
    <2>1. panicked \in BOOLEAN
      BY DEF ServerInv, ServerTypeOK
    <2>2. ~Unmappable(old)
      BY <1>4 DEF Settled, Unmappable
    <2> QED
      BY <1>2, <2>1, <2>2 DEF Unmappable
  <1>6. pending' = pending
    <2>1. Drain(old) = <<>>
      <3>1. old.events = <<>> /\ ~old.unread
        BY <1>4 DEF Settled
      <3> QED
        BY <3>1 DEF Drain
    <2>2. pending[id] \in Seq(ConnectionEvents)
      BY <1>4
    <2>3. pending[id] \o Drain(old) = pending[id]
      BY <2>1, <2>2
    <2> QED
      BY <1>2, <1>4, <2>3
  <1>7. /\ Settled(d) /\ d.state = old.state /\ d.peer = old.peer
        /\ d.remote = old.remote
    BY <1>4, DrainedTyped DEF Settled
  <1> HIDE DEF d
  <1>8. DOMAIN connections' = DOMAIN connections
    BY <1>2 DEF Put
  <1>9. ASSUME NEW x \in DOMAIN connections
        PROVE  /\ Settled(connections'[x])
               /\ connections'[x].state = connections[x].state
               /\ connections'[x].peer = connections[x].peer
               /\ connections'[x].remote = connections[x].remote
    <2>1. connections'[x] = IF x = id THEN d ELSE connections[x]
      BY <1>2 DEF Put
    <2> QED
      BY <1>3, <1>7, <2>1 DEF old
  <1> QED
    BY <1>2, <1>5, <1>6, <1>8, <1>9, AgeingKeeps

LEMMA AcceptKnownKeeps ==
    ASSUME ServerInv, NEW p \in ArrivingPackets,
           NEW newer \in BOOLEAN, NEW carries \in BOOLEAN,
           AcceptKnown(p, newer, carries)
    PROVE  ServerInv'
  BY WholeOrShort, WholeKnownKeeps, ShortKnownKeeps

LEMMA WholeNewKeeps ==
    ASSUME ServerInv, NEW p \in WholePackets,
           NEW newer \in BOOLEAN, NEW carries \in BOOLEAN,
           AcceptNew(p, newer, carries)
    PROVE  ServerInv'
  <1> DEFINE id == p.id
             fresh == Fresh(p.addr)
             c == ReceivePacket(fresh, p, newer, carries)
             d == Drained(c)
  <1>1. Settled(fresh) /\ fresh.state = "Connecting" /\ fresh.peer = p.addr
    BY FreshTyped DEF WholePackets, Settled
  <1>2. Consumes(fresh, p, newer)
    BY <1>1, WholeIsNotShort DEF Consumes
  <1>3. /\ id \notin DOMAIN connections /\ ~panicked
        /\ connections' = Put(connections, id, d)
        /\ addresses' = Put(addresses, id, p.addr)
        /\ pending' = [pending EXCEPT ![id] = @ \o Drain(c)]
        /\ panicked' = Unmappable(c)
        /\ UNCHANGED <<listening, dropped, serverReceives, accepting, known,
                       causes>>
    BY <1>2 DEF AcceptNew
  <1> HIDE DEF fresh
  <1>4. /\ id \in Ids /\ p.addr \in Nat
        /\ pending \in [Ids -> Seq(ConnectionEvents)]
        /\ known \in [Ids -> {"in", "out"}]
        /\ Tells(known[id], pending[id])
        /\ Finally(known[id], pending[id]) = "in"
              <=> fresh.state \in {"Connected", "Closing"}
    BY <1>1, <1>3 DEF ServerInv, ServerTypeOK, EventsTell, Live, WholePackets
  <1>5. /\ Typed(c) /\ ~Unmappable(c)
        /\ pending[id] \o Drain(c) \in Seq(ConnectionEvents)
        /\ Tells(known[id], pending[id] \o Drain(c))
        /\ Finally(known[id], pending[id] \o Drain(c)) = "in"
              <=> c.state \in {"Connected", "Closing"}
    <2> DEFINE k == known[id]
               s == pending[id]
    <2>1. /\ k \in {"in", "out"} /\ s \in Seq(ConnectionEvents)
          /\ Settled(fresh) /\ Tells(k, s)
          /\ Finally(k, s) = "in" <=> fresh.state \in {"Connected", "Closing"}
      BY <1>1, <1>4
    <2> HIDE DEF k, s, id
    <2> SUFFICES /\ Typed(c) /\ ~Unmappable(c)
                 /\ s \o Drain(c) \in Seq(ConnectionEvents)
                 /\ Tells(k, s \o Drain(c))
                 /\ Finally(k, s \o Drain(c)) = "in"
                       <=> c.state \in {"Connected", "Closing"}
      BY DEF k, s
    <2> QED
      BY <2>1, AcceptEffect
  <1>6. /\ c.state = "Connected" /\ c.peer = p.addr
        /\ c.remote = p.addr
    <2>1. /\ c.peer = fresh.peer
          /\ IF Consumes(fresh, p, newer)
             THEN c.remote = p.addr
             ELSE c.remote = fresh.remote /\ c.unread = FALSE
          /\ \/ fresh.state = "Connecting" /\ c.state = "Connected"
             \/ fresh.state = "Connected" /\ c.state = "Closed"
             \/ fresh.state \in {"Connected", "Closing"}
             \/ fresh.state \in TerminalStates
      BY <1>1, ReceiveEffect
    <2> HIDE DEF c
    <2> QED
      BY <1>1, <1>2, <2>1 DEF TerminalStates
  <1> HIDE DEF c
  <1>7. /\ Settled(d) /\ d.state = "Connected"
        /\ d.peer = p.addr /\ d.remote = p.addr
    <2>1. /\ Typed(d) /\ d.events = <<>> /\ d.unread = FALSE
          /\ d.state = c.state /\ d.peer = c.peer /\ d.remote = c.remote
      BY <1>5, DrainedTyped
    <2> HIDE DEF d
    <2> QED
      BY <1>6, <2>1 DEF Settled
  <1> HIDE DEF d
  <1>8. /\ DOMAIN connections' = DOMAIN connections \cup {id}
        /\ connections'[id] = d
        /\ \A x \in DOMAIN connections :
              x # id /\ connections'[x] = connections[x]
    BY <1>3 DEF Put
  <1>9. /\ DOMAIN addresses = DOMAIN connections
        /\ DOMAIN addresses' = DOMAIN addresses \cup {id}
        /\ addresses'[id] = p.addr
        /\ \A x \in DOMAIN addresses : addresses'[x] = addresses[x]
    BY <1>3 DEF Put, ServerInv, CollectionsAgree
  <1>10. ServerTypeOK'
    <2>1. pending' \in [Ids -> Seq(ConnectionEvents)]
      BY <1>3, <1>4, <1>5
    <2>2. panicked' \in BOOLEAN
      BY <1>3 DEF Unmappable
    <2>3. {listening', serverReceives', accepting', panicked'}
             \subseteq BOOLEAN
      BY <1>3, <2>2 DEF ServerInv, ServerTypeOK
    <2>4. /\ DOMAIN connections' \subseteq Ids /\ DOMAIN addresses' \subseteq Ids
          /\ dropped' \subseteq Ids /\ known' \in [Ids -> {"in", "out"}]
          /\ causes' \subseteq {"reset", "short"}
      BY <1>3, <1>4, <1>8, <1>9 DEF ServerInv, ServerTypeOK
    <2> QED
      BY <2>1, <2>3, <2>4 DEF ServerTypeOK
  <1>11. CollectionsAgree'
    <2>1. /\ DOMAIN addresses' = DOMAIN connections'
          /\ dropped' \subseteq DOMAIN connections'
          /\ id \notin dropped'
      BY <1>3, <1>8, <1>9 DEF ServerInv, CollectionsAgree
    <2>2. ASSUME NEW x \in DOMAIN connections
          PROVE  /\ addresses'[x] = connections'[x].peer
                 /\ connections'[x].state # "Connecting" /\ ~panicked' =>
                       addresses'[x] = connections'[x].remote
                 /\ x \in dropped' => ~Open(connections'[x])
      BY <1>3, <1>8, <1>9 DEF ServerInv, CollectionsAgree
    <2>3. /\ addresses'[id] = connections'[id].peer
          /\ addresses'[id] = connections'[id].remote
      BY <1>7, <1>8, <1>9
    <2> QED
      BY <1>8, <2>1, <2>2, <2>3 DEF CollectionsAgree
  <1>12. EventsTell'
    <2> SUFFICES ASSUME NEW x \in Ids
                 PROVE  /\ Tells(known'[x], pending'[x])
                        /\ Finally(known'[x], pending'[x]) = "in" <=> Live(x)'
      BY DEF EventsTell
    <2>1. CASE x = id
      BY <1>3, <1>4, <1>5, <1>6, <1>7, <1>8, <2>1 DEF Live
    <2>2. CASE x # id
      BY <1>3, <1>4, <1>8, <2>2 DEF Live, ServerInv, EventsTell
    <2> QED
      BY <2>1, <2>2
  <1>13. PanicHasCause'
    BY <1>3, <1>5 DEF PanicHasCause
  <1>14. AllSettled'
    BY <1>3, <1>7, <1>8 DEF ServerInv, AllSettled, AcceptNew
  <1> QED
    BY <1>10, <1>11, <1>12, <1>13, <1>14 DEF ServerInv

\* A packet too short for a connection leaves a new one behind.
LEMMA ShortNewKeeps ==
    ASSUME ServerInv, NEW p, p.id \in Ids, p.addr \in Nat, p.kind = "short",
           NEW newer \in BOOLEAN, NEW carries \in BOOLEAN,
           AcceptNew(p, newer, carries)
    PROVE  ServerInv'
  <1> DEFINE id == p.id
             fresh == Fresh(p.addr)
  <1>1. /\ ReceivePacket(fresh, p, newer, carries) = fresh
        /\ ~Consumes(fresh, p, newer)
    BY DEF ReceivePacket, Consumes
  <1>2. Settled(fresh) /\ fresh.state = "Connecting" /\ fresh.peer = p.addr
    BY FreshTyped DEF Settled
  <1>3. /\ id \notin DOMAIN connections /\ accepting
        /\ connections' = Put(connections, id, fresh)
        /\ addresses' = Put(addresses, id, p.addr)
        /\ causes' = causes \cup {"short"}
        /\ UNCHANGED <<listening, dropped, pending, serverReceives, accepting,
                       panicked, known>>
    BY <1>1 DEF AcceptNew
  <1> HIDE DEF fresh
  <1>4. /\ DOMAIN connections' = DOMAIN connections \cup {id}
        /\ connections'[id] = fresh
        /\ \A x \in DOMAIN connections :
              x # id /\ connections'[x] = connections[x]
    BY <1>3 DEF Put
  <1>5. /\ DOMAIN addresses = DOMAIN connections
        /\ DOMAIN addresses' = DOMAIN addresses \cup {id}
        /\ addresses'[id] = p.addr
        /\ \A x \in DOMAIN addresses : addresses'[x] = addresses[x]
    BY <1>3 DEF Put, ServerInv, CollectionsAgree
  <1>6. ServerTypeOK'
    BY <1>3, <1>4, <1>5 DEF ServerInv, ServerTypeOK
  <1>7. AllSettled'
    BY <1>2, <1>3, <1>4 DEF ServerInv, AllSettled
  <1>8. CollectionsAgree'
    <2>1. /\ DOMAIN addresses' = DOMAIN connections'
          /\ dropped' \subseteq DOMAIN connections'
          /\ id \notin dropped'
      BY <1>3, <1>4, <1>5 DEF ServerInv, CollectionsAgree
    <2>2. ASSUME NEW x \in DOMAIN connections
          PROVE  /\ addresses'[x] = connections'[x].peer
                 /\ connections'[x].state # "Connecting" /\ ~panicked' =>
                       addresses'[x] = connections'[x].remote
                 /\ x \in dropped' => ~Open(connections'[x])
      BY <1>3, <1>4, <1>5 DEF ServerInv, CollectionsAgree
    <2>3. /\ addresses'[id] = connections'[id].peer
          /\ connections'[id].state = "Connecting"
      BY <1>2, <1>4, <1>5
    <2> QED
      BY <1>4, <2>1, <2>2, <2>3 DEF CollectionsAgree
  <1>9. EventsTell'
    <2>1. \A x : Live(x)' <=> Live(x)
      BY <1>2, <1>4 DEF Live
    <2> QED
      BY <1>3, <2>1 DEF ServerInv, EventsTell
  <1>10. PanicHasCause'
    BY <1>3 DEF PanicHasCause
  <1> QED
    BY <1>6, <1>7, <1>8, <1>9, <1>10 DEF ServerInv

LEMMA AcceptNewKeeps ==
    ASSUME ServerInv, NEW p \in ArrivingPackets,
           NEW newer \in BOOLEAN, NEW carries \in BOOLEAN,
           AcceptNew(p, newer, carries)
    PROVE  ServerInv'
  BY WholeOrShort, WholeNewKeeps, ShortNewKeeps

-----------------------------------------------------------------------------
(* send() *)

LEMMA ServerSendKeeps ==
    ASSUME ServerInv, NEW env, ServerSend(env)
    PROVE  ServerInv'
  <1> DEFINE after(id) == SendPacket(connections[id], env[id])
  <1>1. /\ ~panicked /\ listening /\ ~accepting
        /\ pending = NoEvents
        /\ connections' = [id \in Staying |->
              IF id \in Over(env) THEN Drained(after(id)) ELSE after(id)]
        /\ addresses' = Without(addresses, dropped)
        /\ dropped' = Over(env)
        /\ pending' = [id \in Ids |-> IF id \in Over(env)
                                      THEN Drain(after(id)) ELSE <<>>]
        /\ panicked' = SendPanics(env)
        /\ serverReceives' = TRUE
        /\ UNCHANGED <<listening, accepting, known, causes>>
    BY DEF ServerSend, ServerCalls, Sent
  <1>2. /\ Staying = DOMAIN connections \ dropped
        /\ Over(env) = {id \in Staying : ~Open(after(id))}
        /\ DOMAIN connections \subseteq Ids
        /\ DOMAIN addresses = DOMAIN connections
        /\ dropped \subseteq DOMAIN connections
    BY DEF Staying, Over, Sent, ServerInv, ServerTypeOK, CollectionsAgree
  <1>3. ASSUME NEW id \in DOMAIN connections
        PROVE  /\ Settled(connections[id])
               /\ connections[id].state = "Connecting" => causes # {}
    BY DEF ServerInv, AllSettled
  <1>4. ASSUME NEW id \in DOMAIN connections
        PROVE  /\ Typed(after(id)) /\ after(id).unread = FALSE
               /\ after(id).peer = connections[id].peer
               /\ after(id).remote = connections[id].remote
               /\ \/ /\ Open(connections[id])
                     /\ after(id).state = connections[id].state
                     /\ after(id).events = <<>>
                     /\ after(id).sinceRecv <= Patience(after(id).state)
                  \/ /\ connections[id].state = "Connecting"
                     /\ after(id).state = "FailedToConnect"
                     /\ after(id).events = <<<<"FailedToConnect">>>>
                  \/ /\ connections[id].state \in {"Connected", "Closing"}
                     /\ \E e \in ConnectionEvents :
                           Ends(e, after(id).state) /\ after(id).events = <<e>>
                  \/ /\ ~Open(connections[id])
                     /\ after(id) = connections[id]
    <2> DEFINE c == connections[id]
               d == SendPacket(c, env[id])
    <2>1. Settled(c)
      BY <1>3
    <2> HIDE DEF c
    <2>2. /\ Typed(d) /\ d.unread = FALSE
          /\ d.peer = c.peer /\ d.remote = c.remote
          /\ \/ /\ Open(c) /\ d.state = c.state /\ d.events = <<>>
                /\ d.sinceRecv <= Patience(d.state)
             \/ /\ c.state = "Connecting" /\ d.state = "FailedToConnect"
                /\ d.events = <<<<"FailedToConnect">>>>
             \/ /\ c.state \in {"Connected", "Closing"}
                /\ \E e \in ConnectionEvents :
                      Ends(e, d.state) /\ d.events = <<e>>
             \/ ~Open(c) /\ d = c
      BY <2>1, SendEffect
    <2>3. after(id) = d
      BY DEF c
    <2> HIDE DEF d, after
    <2> QED
      BY <2>2, <2>3 DEF c
  <1> HIDE DEF after
  <1>5. ASSUME NEW id \in Staying
        PROVE  /\ Settled(connections'[id])
               /\ connections'[id].state = after(id).state
               /\ connections'[id].peer = connections[id].peer
               /\ connections'[id].remote = connections[id].remote
    <2>1. id \in DOMAIN connections
      BY <1>2
    <2>2. CASE id \in Over(env)
      <3> DEFINE c == after(id)
                 d == Drained(c)
      <3>1. connections'[id] = d
        BY <1>1, <2>2
      <3>2. /\ Typed(c) /\ c.peer = connections[id].peer
            /\ c.remote = connections[id].remote
        BY <1>4, <2>1
      <3> HIDE DEF c
      <3>3. /\ Typed(d) /\ d.events = <<>> /\ d.unread = FALSE
            /\ d.state = c.state /\ d.peer = c.peer /\ d.remote = c.remote
        BY <3>2, DrainedTyped
      <3> HIDE DEF d
      <3> QED
        BY <3>1, <3>2, <3>3 DEF Settled, c
    <2>3. CASE id \notin Over(env)
      <3>1. connections'[id] = after(id) /\ Open(after(id))
        BY <1>1, <1>2, <2>3
      <3>2. after(id).events = <<>>
        BY <1>4, <2>1, <3>1 DEF Open, OpenStates, Ends
      <3> QED
        BY <1>4, <2>1, <3>1, <3>2 DEF Settled
    <2> QED
      BY <2>2, <2>3
  <1>6. DOMAIN connections' = Staying /\ DOMAIN addresses' = Staying
        /\ \A id \in Staying : addresses'[id] = addresses[id]
    BY <1>1, <1>2 DEF Without
  <1>7. ASSUME NEW id \in Over(env), Unmappable(after(id))
        PROVE  causes # {} /\ after(id).state = "FailedToConnect"
    <2>1. id \in DOMAIN connections /\ connections[id].events = <<>>
      BY <1>2, <1>3 DEF Settled
    <2>2. CASE after(id).events = <<>>
      BY <1>7, <2>2 DEF Unmappable
    <2>3. ASSUME NEW e \in ConnectionEvents,
                 Ends(e, after(id).state), after(id).events = <<e>>
          PROVE  FALSE
      BY <1>7, <2>3 DEF Unmappable, Ends
    <2>4. CASE /\ connections[id].state = "Connecting"
               /\ after(id).state = "FailedToConnect"
      BY <1>3, <2>1, <2>4
    <2> QED
      BY <1>4, <2>1, <2>2, <2>3, <2>4
  <1>8. PanicHasCause'
    <2>1. SendPanics(env) => \E id \in Over(env) : Unmappable(after(id))
      BY <1>2 DEF SendPanics, Sent, after
    <2> QED
      BY <1>1, <1>7, <2>1 DEF PanicHasCause
  <1>9. AllSettled'
    <2>1. ASSUME NEW id \in Staying, connections'[id].state = "Connecting"
          PROVE  causes # {}
      <3>1. id \in DOMAIN connections /\ after(id).state = "Connecting"
        BY <1>2, <1>5, <2>1
      <3>2. connections[id].state = "Connecting"
        BY <1>4, <3>1 DEF Ends
      <3> QED
        BY <1>3, <3>1, <3>2
    <2> QED
      BY <1>1, <1>5, <1>6, <2>1 DEF AllSettled
  <1>10. ASSUME ~panicked', NEW id \in Over(env)
         PROVE  /\ after(id).state # "FailedToConnect"
                \/ after(id) = connections[id]
    <2>1. ~Unmappable(after(id))
      BY <1>1, <1>10 DEF SendPanics, Sent, after
    <2> SUFFICES ASSUME after(id).events = <<<<"FailedToConnect">>>>
                 PROVE  FALSE
      BY <1>2, <1>4, <1>10 DEF Ends, Open, OpenStates
    <2> DEFINE e == <<"FailedToConnect">>
    <2>2. e[1] = "FailedToConnect"
      OBVIOUS
    <2> HIDE DEF e
    <2>3. after(id).events = <<e>>
      BY DEF e
    <2> QED
      BY <2>1, <2>2, <2>3 DEF Unmappable
  <1>11. CollectionsAgree'
    <2>1. dropped' \subseteq DOMAIN connections'
          /\ DOMAIN addresses' = DOMAIN connections'
      BY <1>1, <1>2, <1>6
    <2>2. ASSUME NEW id \in Staying
          PROVE  /\ addresses'[id] = connections'[id].peer
                 /\ connections'[id].state # "Connecting" /\ ~panicked' =>
                       addresses'[id] = connections'[id].remote
                 /\ id \in dropped' => ~Open(connections'[id])
      <3>1. /\ addresses[id] = connections[id].peer
            /\ connections[id].state # "Connecting" =>
                  addresses[id] = connections[id].remote
        BY <1>1, <1>2 DEF ServerInv, CollectionsAgree
      <3>2. ASSUME connections[id].state = "Connecting",
                   connections'[id].state # "Connecting", ~panicked'
            PROVE  FALSE
        <4>1. after(id).state = "FailedToConnect" /\ after(id) # connections[id]
          BY <1>2, <1>4, <1>5, <3>2 DEF Open, OpenStates
        <4>2. id \in Over(env)
          BY <1>2, <4>1 DEF Open, OpenStates
        <4> QED
          BY <1>10, <3>2, <4>1, <4>2
      <3>3. id \in dropped' => ~Open(connections'[id])
        BY <1>1, <1>2, <1>5 DEF Open
      <3> QED
        BY <1>5, <1>6, <3>1, <3>2, <3>3
    <2> QED
      BY <1>6, <2>1, <2>2 DEF CollectionsAgree
  <1>12. ASSUME NEW id \in Over(env)
         PROVE  Drain(after(id)) \in Seq(ConnectionEvents)
    <2>1. Typed(after(id)) /\ ~after(id).unread
      BY <1>2, <1>4
    <2>2. after(id).events \in Seq(ConnectionEvents)
      BY <2>1 DEF Typed, ConnectionRecords
    <2> QED
      BY <2>1, <2>2 DEF Drain
  <1>13. ServerTypeOK'
    <2>1. pending' \in [Ids -> Seq(ConnectionEvents)]
      <3>1. <<>> \in Seq(ConnectionEvents)
        OBVIOUS
      <3> QED
        BY <1>1, <1>12, <3>1
    <2>2. panicked' \in BOOLEAN
      BY <1>1 DEF SendPanics
    <2>3. {listening', serverReceives', accepting', panicked'}
             \subseteq BOOLEAN
      BY <1>1, <2>2 DEF ServerInv, ServerTypeOK
    <2>4. /\ DOMAIN connections' \subseteq Ids /\ DOMAIN addresses' \subseteq Ids
          /\ dropped' \subseteq Ids /\ known' \in [Ids -> {"in", "out"}]
          /\ causes' \subseteq {"reset", "short"}
      BY <1>1, <1>2, <1>6 DEF ServerInv, ServerTypeOK
    <2> QED
      BY <2>1, <2>3, <2>4 DEF ServerTypeOK
  <1>14. EventsTell'
    <2> SUFFICES ASSUME ~panicked', NEW id \in Ids
                 PROVE  /\ Tells(known'[id], pending'[id])
                        /\ Finally(known'[id], pending'[id]) = "in"
                              <=> Live(id)'
      BY DEF EventsTell
    <2>1. /\ known[id] \in {"in", "out"} /\ known'[id] = known[id]
          /\ known[id] = "in" <=> Live(id)
      <3>1. pending[id] = <<>>
        BY <1>1 DEF NoEvents
      <3> QED
        BY <1>1, <3>1, NothingTells DEF ServerInv, ServerTypeOK, EventsTell
    <2>2. CASE id \notin Staying
      <3>1. pending'[id] = <<>> /\ ~Live(id)'
        BY <1>1, <1>2, <1>6, <2>2 DEF Live
      <3>2. ~Live(id)
        BY <1>2, <2>2
        DEF Live, ServerInv, CollectionsAgree, Open, OpenStates
      <3> QED
        BY <2>1, <3>1, <3>2, NothingTells
    <2>3. CASE id \in Staying /\ id \notin Over(env)
      <3>1. pending'[id] = <<>> /\ Open(after(id))
        BY <1>1, <1>2, <2>3
      <3>2. after(id).state = connections[id].state
        BY <1>2, <1>4, <2>3, <3>1 DEF Open, OpenStates, Ends
      <3>3. Live(id)' <=> Live(id)
        BY <1>2, <1>5, <1>6, <2>3, <3>2 DEF Live
      <3> QED
        BY <2>1, <3>1, <3>3, NothingTells
    <2>4. CASE id \in Over(env)
      <3>1. /\ id \in Staying /\ id \in DOMAIN connections
            /\ pending'[id] = Drain(after(id)) /\ ~Open(after(id))
            /\ Typed(after(id)) /\ ~after(id).unread
        BY <1>1, <1>2, <1>4, <2>4
      <3>2. ~Live(id)'
        BY <1>5, <3>1 DEF Live, Open, OpenStates
      <3>3. Drain(after(id)) = after(id).events
        <4>1. after(id).events \in Seq(ConnectionEvents)
          BY <3>1 DEF Typed, ConnectionRecords
        <4> QED
          BY <3>1, <4>1 DEF Drain
      <3>4. CASE after(id) = connections[id]
        <4>1. after(id).events = <<>> /\ ~Live(id)
          BY <1>3, <3>1, <3>4 DEF Settled, Live, Open, OpenStates
        <4> QED
          BY <2>1, <3>1, <3>2, <3>3, <4>1, NothingTells
      <3>5. ASSUME connections[id].state \in {"Connected", "Closing"},
                   NEW e \in ConnectionEvents,
                   Ends(e, after(id).state), after(id).events = <<e>>
            PROVE  /\ Tells(known'[id], pending'[id])
                   /\ Finally(known'[id], pending'[id]) = "in" <=> Live(id)'
        <4>1. known[id] = "in"
          BY <2>1, <3>1, <3>5 DEF Live
        <4>2. /\ e[1] # "Connected" /\ ~Announces(e)
          BY <3>5 DEF Ends, Announces
        <4>3. <<>> \in Seq(ConnectionEvents) /\ <<>> \o <<e>> = <<e>>
          OBVIOUS
        <4>4. Tells(known[id], <<e>>) /\ Finally(known[id], <<e>>) = "out"
          <5> DEFINE k == known[id]
                     s == <<>>
          <5>1. /\ s \in Seq(ConnectionEvents) /\ Tells(k, s)
                /\ e[1] = "Connected" <=> Finally(k, s) = "out"
                /\ s \o <<e>> = <<e>>
            BY <4>1, <4>2, <4>3, NothingTells
          <5> HIDE DEF k, s
          <5>2. /\ Tells(k, s \o <<e>>)
                /\ Finally(k, s \o <<e>>) = IF Announces(e) THEN "in" ELSE "out"
            BY <5>1, MoreTells
          <5> QED
            BY <4>2, <5>1, <5>2 DEF k
        <4> QED
          BY <2>1, <3>1, <3>2, <3>3, <3>5, <4>4
      <3> QED
        BY <1>4, <1>10, <2>4, <3>1, <3>4, <3>5 DEF Open
    <2> QED
      BY <2>2, <2>3, <2>4
  <1> QED
    BY <1>8, <1>9, <1>11, <1>13, <1>14 DEF ServerInv

\* After send() a connection is within its patience, or listed as dropped.
Attended ==
    \A id \in DOMAIN connections :
        IF Open(connections[id])
        THEN connections[id].sinceRecv <= Patience(connections[id].state)
        ELSE id \in dropped

LEMMA SendAttends ==
    ASSUME ServerInv, NEW env, ServerSend(env)
    PROVE  Attended'
  <1> SUFFICES ASSUME NEW id \in DOMAIN connections'
               PROVE  IF Open(connections'[id])
                      THEN connections'[id].sinceRecv
                              <= Patience(connections'[id].state)
                      ELSE id \in dropped'
    BY DEF Attended
  <1> DEFINE c == connections[id]
             d == SendPacket(c, env[id])
  <1>1. /\ id \in Staying /\ id \in DOMAIN connections
        /\ dropped' = Over(env)
        /\ id \in Over(env) <=> ~Open(d)
        /\ connections'[id] = IF id \in Over(env) THEN Drained(d) ELSE d
    BY DEF ServerSend, Sent, Over, Staying
  <1>2. Settled(c)
    BY <1>1 DEF ServerInv, AllSettled
  <1> HIDE DEF c
  <1>3. /\ Typed(d) /\ d.unread = FALSE
        /\ d.peer = c.peer /\ d.remote = c.remote
        /\ \/ /\ Open(c) /\ d.state = c.state /\ d.events = <<>>
              /\ d.sinceRecv <= Patience(d.state)
           \/ /\ c.state = "Connecting" /\ d.state = "FailedToConnect"
              /\ d.events = <<<<"FailedToConnect">>>>
           \/ /\ c.state \in {"Connected", "Closing"}
              /\ \E e \in ConnectionEvents :
                    Ends(e, d.state) /\ d.events = <<e>>
           \/ ~Open(c) /\ d = c
    BY <1>2, SendEffect
  <1> HIDE DEF d
  <1>4. Open(d) => d.sinceRecv <= Patience(d.state)
    BY <1>3 DEF Open, OpenStates, Ends
  <1>5. Drained(d).state = d.state
    BY <1>3, DrainedTyped
  <1> QED
    BY <1>1, <1>4, <1>5 DEF Open

-----------------------------------------------------------------------------
(* The application's calls on a connection, and time *)

LEMMA CloseConnectionKeeps ==
    ASSUME ServerInv, NEW id \in Ids, CloseConnection(id)
    PROVE  ServerInv'
  <1> DEFINE c == connections[id]
             d == Close(c)
  <1>1. /\ id \in DOMAIN connections /\ listening /\ ~panicked
        /\ known[id] = "in" /\ pending[id] = <<>>
        /\ connections' = [connections EXCEPT ![id] = d]
        /\ UNCHANGED <<listening, addresses, dropped, pending, serverReceives,
                       accepting, panicked, known, causes>>
    BY DEF CloseConnection, Usable, ServerCalls
  <1>2. Settled(c) /\ c.state \in {"Connected", "Closing"}
    BY <1>1, NothingTells DEF ServerInv, AllSettled, EventsTell, Live
  <1> HIDE DEF c
  <1>3. /\ Settled(d) /\ d.state = "Closing" /\ d.peer = c.peer
        /\ d.remote = c.remote
    BY <1>2, CloseTyped DEF Settled
  <1> HIDE DEF d
  <1>4. /\ DOMAIN connections' = DOMAIN connections
        /\ connections'[id] = d
        /\ \A x \in DOMAIN connections :
              x # id => connections'[x] = connections[x]
    BY <1>1
  <1>5. ServerTypeOK'
    BY <1>1, <1>4 DEF ServerInv, ServerTypeOK
  <1>6. AllSettled'
    BY <1>1, <1>3, <1>4 DEF ServerInv, AllSettled
  <1>7. CollectionsAgree'
    <2>1. /\ addresses[id] = c.peer /\ addresses[id] = c.remote
          /\ id \notin dropped
      BY <1>1, <1>2 DEF ServerInv, CollectionsAgree, c, Open, OpenStates
    <2>2. /\ addresses'[id] = connections'[id].peer
          /\ addresses'[id] = connections'[id].remote
          /\ id \notin dropped'
      BY <1>1, <1>3, <1>4, <2>1
    <2>3. ASSUME NEW x \in DOMAIN connections, x # id
          PROVE  /\ addresses'[x] = connections'[x].peer
                 /\ connections'[x].state # "Connecting" /\ ~panicked' =>
                       addresses'[x] = connections'[x].remote
                 /\ x \in dropped' => ~Open(connections'[x])
      BY <1>1, <1>4, <2>3 DEF ServerInv, CollectionsAgree
    <2>4. /\ DOMAIN addresses' = DOMAIN connections'
          /\ dropped' \subseteq DOMAIN connections'
      BY <1>1, <1>4 DEF ServerInv, CollectionsAgree
    <2> QED
      BY <1>4, <2>2, <2>3, <2>4 DEF CollectionsAgree
  <1>8. EventsTell'
    <2>1. \A x : Live(x)' <=> Live(x)
      BY <1>2, <1>3, <1>4 DEF Live, c
    <2> QED
      BY <1>1, <2>1 DEF ServerInv, EventsTell
  <1>9. PanicHasCause'
    BY <1>1 DEF ServerInv, PanicHasCause
  <1> QED
    BY <1>5, <1>6, <1>7, <1>8, <1>9 DEF ServerInv

LEMMA ResetConnectionKeeps ==
    ASSUME ServerInv, NEW id \in Ids, ResetConnection(id)
    PROVE  ServerInv'
  <1> DEFINE c == connections[id]
             d == Reset(c)
  <1>1. /\ id \in DOMAIN connections /\ listening /\ ~panicked
        /\ known[id] = "in" /\ pending[id] = <<>>
        /\ connections' = [connections EXCEPT ![id] = d]
        /\ known' = [known EXCEPT ![id] = "out"]
        /\ causes' = causes \cup {"reset"}
        /\ UNCHANGED <<listening, addresses, dropped, pending, serverReceives,
                       accepting, panicked>>
    BY DEF ResetConnection, Usable, ServerCalls
  <1>2. /\ Settled(c) /\ c.state \in {"Connected", "Closing"}
        /\ known \in [Ids -> {"in", "out"}]
    BY <1>1, NothingTells
    DEF ServerInv, AllSettled, EventsTell, Live, ServerTypeOK
  <1> HIDE DEF c
  <1>3. Settled(d) /\ d.state = "Connecting" /\ d.peer = c.peer
    BY <1>2, ResetTyped DEF Settled
  <1> HIDE DEF d
  <1>4. /\ DOMAIN connections' = DOMAIN connections
        /\ connections'[id] = d
        /\ \A x \in DOMAIN connections :
              x # id => connections'[x] = connections[x]
    BY <1>1
  <1>5. ServerTypeOK'
    BY <1>1, <1>2, <1>4 DEF ServerInv, ServerTypeOK
  <1>6. AllSettled'
    BY <1>1, <1>3, <1>4 DEF ServerInv, AllSettled
  <1>7. CollectionsAgree'
    <2>1. addresses[id] = c.peer /\ id \notin dropped
      BY <1>1, <1>2 DEF ServerInv, CollectionsAgree, c, Open, OpenStates
    <2>2. /\ addresses'[id] = connections'[id].peer
          /\ connections'[id].state = "Connecting"
          /\ id \notin dropped'
      BY <1>1, <1>3, <1>4, <2>1
    <2>3. ASSUME NEW x \in DOMAIN connections, x # id
          PROVE  /\ addresses'[x] = connections'[x].peer
                 /\ connections'[x].state # "Connecting" /\ ~panicked' =>
                       addresses'[x] = connections'[x].remote
                 /\ x \in dropped' => ~Open(connections'[x])
      BY <1>1, <1>4, <2>3 DEF ServerInv, CollectionsAgree
    <2>4. /\ DOMAIN addresses' = DOMAIN connections'
          /\ dropped' \subseteq DOMAIN connections'
      BY <1>1, <1>4 DEF ServerInv, CollectionsAgree
    <2> QED
      BY <1>4, <2>2, <2>3, <2>4 DEF CollectionsAgree
  <1>8. EventsTell'
    <2> SUFFICES ASSUME NEW x \in Ids
                 PROVE  /\ Tells(known'[x], pending'[x])
                        /\ Finally(known'[x], pending'[x]) = "in" <=> Live(x)'
      BY DEF EventsTell
    <2>1. CASE x = id
      <3>1. known'[x] = "out" /\ pending'[x] = <<>> /\ ~Live(x)'
        BY <1>1, <1>2, <1>3, <1>4, <2>1 DEF Live
      <3> QED
        BY <3>1, NothingTells
    <2>2. CASE x # id
      BY <1>1, <1>2, <1>4, <2>2 DEF Live, ServerInv, EventsTell
    <2> QED
      BY <2>1, <2>2
  <1>9. PanicHasCause'
    BY <1>1 DEF PanicHasCause
  <1> QED
    BY <1>5, <1>6, <1>7, <1>8, <1>9 DEF ServerInv

LEMMA ServerRestKeeps == ServerInv /\ UNCHANGED serverVars => ServerInv'
  <1> SUFFICES ASSUME ServerInv, UNCHANGED serverVars PROVE ServerInv'
    OBVIOUS
  <1>1. ServerTypeOK' /\ AllSettled' /\ CollectionsAgree'
    BY DEF serverVars, ServerInv, ServerTypeOK, AllSettled, CollectionsAgree
  <1>2. EventsTell' /\ PanicHasCause'
    BY DEF serverVars, ServerInv, EventsTell, Live, PanicHasCause
  <1> QED
    BY <1>1, <1>2 DEF ServerInv
=============================================================================
