------------------------- MODULE ClientServerProofs -------------------------
(***************************************************************************)
(* Theorems about a Server and its clients, for all thresholds, any number *)
(* of sessions and packets, a perfect network and one that loses, repeats  *)
(* and reorders.                                                           *)
(***************************************************************************)
EXTENDS ClientServer, ServerProofs

-----------------------------------------------------------------------------
(* The client's connection keeps its type *)

\* A change of state is reported, and nothing else is.
Reports(c, d) ==
    \/ d.state = c.state /\ d.events = c.events
    \/ /\ c.state = "Connecting" /\ d.state = "Connected"
       /\ d.events = Append(c.events, <<"Connected">>)
    \/ /\ c.state \notin TerminalStates /\ d.state \in TerminalStates
       /\ \E e \in ConnectionEvents : Ending(e) /\ d.events = Append(c.events, e)

LEMMA UpdateReceiveTyped ==
    ASSUME NEW c, Typed(c), NEW p
    PROVE  /\ Typed(UpdateReceiveState(c, p))
           /\ Reports(c, UpdateReceiveState(c, p))
           /\ UpdateReceiveState(c, p).unread = c.unread
  <1> DEFINE u == UpdateReceiveState(c, p)
  <1>1. CASE c.state = "Connecting"
    <2>1. u = Emit([c EXCEPT !.state = "Connected"], <<"Connected">>)
      BY <1>1 DEF UpdateReceiveState
    <2>2. "Connected" \in States
      BY DEF States, OpenStates
    <2> DEFINE event == <<"Connected">>
    <2>3. event \in ConnectionEvents
      BY EventTypes
    <2> HIDE DEF event, u
    <2>4. /\ Typed(u) /\ u.unread = c.unread /\ u.state = "Connected"
          /\ u.events = Append(c.events, event)
      BY <2>1, <2>2, <2>3, EmitTyped DEF event
    <2>5. Reports(c, u)
      BY <1>1, <2>4 DEF Reports, event
    <2> QED
      BY <2>4, <2>5 DEF u
  <1>2. CASE c.state = "Connected" /\ p.kind = "closure"
    <2> DEFINE event == <<"Closed", TRUE>>
    <2>1. u = Emit([c EXCEPT !.state = "Closed"], event)
      BY <1>2 DEF UpdateReceiveState
    <2>2. "Closed" \in States /\ event \in ConnectionEvents
      BY EventTypes DEF States, TerminalStates
    <2> HIDE DEF event, u
    <2>3. /\ Typed(u) /\ u.unread = c.unread /\ u.state = "Closed"
          /\ u.events = Append(c.events, event)
      BY <2>1, <2>2, EmitTyped
    <2>4. Ending(event)
      BY DEF Ending, event
    <2>5. Reports(c, u)
      BY <1>2, <2>2, <2>3, <2>4 DEF Reports, TerminalStates
    <2> QED
      BY <2>3, <2>5 DEF u
  <1>3. CASE c.state # "Connecting" /\ ~(c.state = "Connected" /\ p.kind = "closure")
    BY <1>3 DEF UpdateReceiveState, Reports
  <1> QED
    BY <1>1, <1>2, <1>3

LEMMA ReceiveTyped ==
    ASSUME NEW c, Typed(c), NEW p, p.addr \in Nat,
           NEW newer, NEW carries \in BOOLEAN
    PROVE  /\ Typed(ReceivePacket(c, p, newer, carries))
           /\ Reports(c, ReceivePacket(c, p, newer, carries))
  <1> DEFINE u == UpdateReceiveState(c, p)
             read == u.unread \/ (carries /\ p.kind = "data")
             d == ReceivePacket(c, p, newer, carries)
             r == p.addr
  <1>1. Typed(u) /\ Reports(c, u)
    BY UpdateReceiveTyped
  <1>2. /\ p.kind = "short" => d = c
        /\ p.kind # "short" => d = IF Consumes(c, p, newer)
              THEN [u EXCEPT !.sinceRecv = 0, !.remote = r, !.unread = read]
              ELSE u
    BY DEF ReceivePacket, Consumes
  <1> HIDE DEF u
  <1>3. read \in BOOLEAN
    BY <1>1 DEF Typed, ConnectionRecords
  <1>4. 0 \in Ages(LastThreshold)
    BY ZeroIsAge, LastThresholdBounds
  <1>5. r \in Nat
    OBVIOUS
  <1> HIDE DEF read, d, r
  <1>6. Typed([u EXCEPT !.sinceRecv = 0, !.remote = r, !.unread = read])
    BY <1>1, <1>3, <1>4, <1>5 DEF Typed, ConnectionRecords
  <1>7. CASE d = c
    <2>1. Reports(c, c)
      BY <1>1 DEF Reports
    <2> QED
      BY <1>7, <2>1 DEF d
  <1>8. CASE p.kind # "short"
    <2>1. Typed(d) /\ d.state = u.state /\ d.events = u.events
      BY <1>1, <1>2, <1>6, <1>8 DEF Typed, ConnectionRecords
    <2>2. Reports(c, d)
      BY <1>1, <2>1 DEF Reports
    <2> QED
      BY <2>1, <2>2 DEF d
  <1> QED
    BY <1>2, <1>7, <1>8

LEMMA UpdateSendTyped ==
    ASSUME NEW c, Typed(c)
    PROVE  /\ Typed(UpdateSendState(c)) /\ Reports(c, UpdateSendState(c))
           /\ UpdateSendState(c).unread = c.unread
  <1> DEFINE u == UpdateSendState(c)
  <1>1. /\ c.sinceRecv \in Nat /\ c.sinceSend \in Nat
    BY LastThresholdBounds DEF Typed, ConnectionRecords, Ages
  <1>2. /\ InitThreshold \in Nat /\ DropThreshold \in Nat
        /\ ClosingThreshold \in Nat
    BY StatesAssumption
  <1>3. ASSUME NEW s \in TerminalStates, NEW e \in ConnectionEvents, Ending(e),
               c.state \notin TerminalStates, u = Emit([c EXCEPT !.state = s], e)
        PROVE  Typed(u) /\ u.unread = c.unread /\ Reports(c, u)
    <2> HIDE DEF u
    <2>1. s \in States
      BY DEF States
    <2>2. /\ Typed(u) /\ u.unread = c.unread /\ u.state = s
          /\ u.events = Append(c.events, e)
      BY <1>3, <2>1, EmitTyped
    <2> QED
      BY <1>3, <2>2 DEF Reports
  <1>4. TerminalStates = {"FailedToConnect", "Lost", "Closed"}
    BY DEF TerminalStates
  <1>5. CASE c.state = "Connecting" /\ c.sinceRecv > InitThreshold
    <2> DEFINE e == <<"FailedToConnect">>
    <2>1. u = Emit([c EXCEPT !.state = "FailedToConnect"], e)
      BY <1>5 DEF UpdateSendState
    <2>2. e \in ConnectionEvents /\ Ending(e)
      BY EventTypes DEF Ending
    <2>3. c.state \notin TerminalStates
      BY <1>4, <1>5
    <2> HIDE DEF u, e
    <2> QED
      BY <1>3, <1>4, <2>1, <2>2, <2>3 DEF u
  <1>6. CASE c.state = "Connected" /\ c.sinceRecv > DropThreshold
    <2> DEFINE e == <<"Lost", TRUE>>
    <2>0. ~(c.sinceRecv <= DropThreshold)
      BY <1>1, <1>2, <1>6
    <2>1. u = Emit([c EXCEPT !.state = "Lost"], e)
      BY <1>6, <2>0 DEF UpdateSendState
    <2>2. e \in ConnectionEvents /\ Ending(e)
      BY EventTypes DEF Ending
    <2>3. c.state \notin TerminalStates
      BY <1>4, <1>6
    <2> HIDE DEF u, e
    <2> QED
      BY <1>3, <1>4, <2>1, <2>2, <2>3 DEF u
  <1>7. CASE /\ c.state = "Connected" /\ c.sinceRecv <= DropThreshold
             /\ c.sinceSend > DropThreshold
    <2> DEFINE e == <<"Lost", FALSE>>
    <2>0. ~(c.sinceRecv > DropThreshold)
      BY <1>1, <1>2, <1>7
    <2>1. u = Emit([c EXCEPT !.state = "Lost"], e)
      BY <1>7, <2>0 DEF UpdateSendState
    <2>2. e \in ConnectionEvents /\ Ending(e)
      BY EventTypes DEF Ending
    <2>3. c.state \notin TerminalStates
      BY <1>4, <1>7
    <2> HIDE DEF u, e
    <2> QED
      BY <1>3, <1>4, <2>1, <2>2, <2>3 DEF u
  <1>8. CASE c.state = "Closing" /\ c.sinceRecv > ClosingThreshold
    <2> DEFINE e == <<"Closed", FALSE>>
    <2>1. u = Emit([c EXCEPT !.state = "Closed"], e)
      BY <1>8 DEF UpdateSendState
    <2>2. e \in ConnectionEvents /\ Ending(e)
      BY EventTypes DEF Ending
    <2>3. c.state \notin TerminalStates
      BY <1>4, <1>8
    <2> HIDE DEF u, e
    <2> QED
      BY <1>3, <1>4, <2>1, <2>2, <2>3 DEF u
  <1>9. CASE /\ ~(c.state = "Connecting" /\ c.sinceRecv > InitThreshold)
             /\ ~(c.state = "Connected" /\ c.sinceRecv > DropThreshold)
             /\ ~(/\ c.state = "Connected" /\ c.sinceRecv <= DropThreshold
                  /\ c.sinceSend > DropThreshold)
             /\ ~(c.state = "Closing" /\ c.sinceRecv > ClosingThreshold)
    BY <1>9 DEF UpdateSendState, Reports
  <1> QED
    BY <1>5, <1>6, <1>7, <1>8, <1>9

LEMMA SendTyped ==
    ASSUME NEW c, Typed(c), NEW env
    PROVE  /\ Typed(SendPacket(c, env)) /\ Reports(c, SendPacket(c, env))
           /\ ~c.unread => ~SendPacket(c, env).unread
  <1> DEFINE u == UpdateSendState(c)
             d == SendPacket(c, env)
             since == IF env = "sent" THEN 0 ELSE u.sinceSend
  <1>1. Typed(u) /\ u.unread = c.unread /\ Reports(c, u)
    BY UpdateSendTyped
  <1>2. d = IF ~Open(u) \/ env = "skipped" THEN u
            ELSE [u EXCEPT !.sinceSend = since, !.unread = FALSE]
    BY DEF SendPacket
  <1> HIDE DEF u
  <1>3. since \in Ages(DropThreshold)
    BY <1>1, ZeroIsAge, LastThresholdBounds DEF Typed, ConnectionRecords
  <1> HIDE DEF d, since
  <1>4. /\ Typed([u EXCEPT !.sinceSend = since, !.unread = FALSE])
        /\ ~[u EXCEPT !.sinceSend = since, !.unread = FALSE].unread
    BY <1>1, <1>3 DEF Typed, ConnectionRecords
  <1>5. /\ Typed(d) /\ (~c.unread => ~d.unread)
        /\ d.state = u.state /\ d.events = u.events
    BY <1>1, <1>2, <1>4 DEF Typed, ConnectionRecords
  <1>6. Reports(c, d)
    BY <1>1, <1>5 DEF Reports
  <1> QED
    BY <1>5, <1>6 DEF d

LEMMA DrainTyped ==
    ASSUME NEW c, Typed(c)
    PROVE  Drain(c) \in Seq(ConnectionEvents)
  <1>1. c.events \in Seq(ConnectionEvents) /\ <<"Message">> \in ConnectionEvents
    BY EventTypes DEF Typed, ConnectionRecords
  <1> DEFINE m == <<"Message">>
  <1> HIDE DEF m
  <1>2. Drain(c) = c.events \o IF c.unread THEN <<m>> ELSE <<>>
    BY DEF Drain, m
  <1>3. m \in ConnectionEvents
    BY <1>1 DEF m
  <1> QED
    BY <1>1, <1>2, <1>3

-----------------------------------------------------------------------------
(* What the client's events tell *)

\* ClientKnowsState for an application that knew k before these events.
Story(k, events, state) ==
    /\ \A i, j \in DOMAIN events :
          i < j /\ events[i][1] # "Message" /\ events[j][1] # "Message"
          => events[i] = <<"Connected">> /\ Ending(events[j])
    /\ \A i \in DOMAIN events :
          /\ events[i] = <<"Connected">> => k = "yet"
          /\ Ending(events[i]) => k # "over"
    /\ KnowsAfter(k, events) = "over" <=> state \in TerminalStates
    /\ state = "Connected" => KnowsAfter(k, events) = "in"
    /\ state = "Connecting" => KnowsAfter(k, events) = "yet"

LEMMA EndingOrNot ==
    ASSUME NEW e \in ConnectionEvents
    PROVE  /\ e[1] # "Message" <=> e = <<"Connected">> \/ Ending(e)
           /\ ~(e = <<"Connected">> /\ Ending(e))
  <1>1. CASE e \in {<<"Connected">>, <<"Message">>, <<"FailedToConnect">>}
    BY <1>1 DEF Ending
  <1>2. ASSUME NEW x \in {"Lost", "Closed"}, NEW b \in BOOLEAN, e = <<x, b>>
        PROVE  e[1] # "Message" /\ Ending(e) /\ e # <<"Connected">>
    BY <1>2 DEF Ending
  <1> QED
    BY <1>1, <1>2 DEF ConnectionEvents

LEMMA EmptyStory ==
    ASSUME NEW k \in {"yet", "in"},
           NEW state \in States, state = "Connecting" => k = "yet",
           state = "Connected" => k = "in", state \notin TerminalStates
    PROVE  Story(k, <<>>, state)
  BY DEF Story, KnowsAfter

\* s and one more event.
LEMMA OneMore ==
    ASSUME NEW s \in Seq(ConnectionEvents), NEW e \in ConnectionEvents
    PROVE  /\ Append(s, e) \in Seq(ConnectionEvents)
           /\ Len(s) \in Nat /\ DOMAIN s = 1..Len(s)
           /\ DOMAIN Append(s, e) = 1..(Len(s) + 1)
           /\ \A i \in 1..Len(s) : Append(s, e)[i] = s[i]
           /\ Append(s, e)[Len(s) + 1] = e
  OBVIOUS

LEMMA MessageKeepsStory ==
    ASSUME NEW k, NEW s \in Seq(ConnectionEvents), NEW state
    PROVE  Story(k, Append(s, <<"Message">>), state) <=> Story(k, s, state)
  <1> DEFINE m == <<"Message">>
             t == Append(s, m)
  <1>1. m \in ConnectionEvents /\ m[1] = "Message" /\ ~Ending(m)
        /\ m # <<"Connected">>
    BY EventTypes DEF Ending
  <1> HIDE DEF m
  <1>2. /\ Len(s) \in Nat /\ DOMAIN s = 1..Len(s) /\ DOMAIN t = 1..(Len(s) + 1)
        /\ \A i \in 1..Len(s) : t[i] = s[i]
        /\ t[Len(s) + 1] = m
    BY <1>1, OneMore
  <1> HIDE DEF t
  <1>3. KnowsAfter(k, t) = KnowsAfter(k, s)
    BY <1>1, <1>2 DEF KnowsAfter
  <1>4. \A i \in DOMAIN t : t[i][1] # "Message" => i \in DOMAIN s /\ t[i] = s[i]
    BY <1>1, <1>2
  <1>5. \A i \in DOMAIN t : t[i] = <<"Connected">> \/ Ending(t[i])
                            => i \in DOMAIN s /\ t[i] = s[i]
    BY <1>1, <1>2
  <1>6. \A i \in DOMAIN s : i \in DOMAIN t /\ t[i] = s[i]
    BY <1>2
  <1>7. Story(k, s, state) => Story(k, t, state)
    BY <1>3, <1>4, <1>5 DEF Story
  <1>8. Story(k, t, state) => Story(k, s, state)
    BY <1>3, <1>6 DEF Story
  <1> QED
    BY <1>7, <1>8 DEF t, m

LEMMA ConnectedTellsStory ==
    ASSUME NEW k, NEW s \in Seq(ConnectionEvents), Story(k, s, "Connecting")
    PROVE  Story(k, Append(s, <<"Connected">>), "Connected")
  <1> DEFINE e == <<"Connected">>
             t == Append(s, e)
  <1>1. e \in ConnectionEvents /\ e[1] # "Message" /\ ~Ending(e)
    BY EventTypes DEF Ending
  <1>2. KnowsAfter(k, s) = "yet"
    BY DEF Story
  <1>3. k = "yet" /\ \A i \in DOMAIN s : s[i] # e /\ ~Ending(s[i])
    BY <1>2 DEF KnowsAfter
  <1> HIDE DEF e
  <1>4. /\ Len(s) \in Nat /\ DOMAIN s = 1..Len(s) /\ DOMAIN t = 1..(Len(s) + 1)
        /\ \A i \in 1..Len(s) : t[i] = s[i]
        /\ t[Len(s) + 1] = e
    BY <1>1, OneMore
  <1> HIDE DEF t
  <1>5. \A i \in 1..Len(s) : t[i] \in ConnectionEvents
    BY <1>4
  <1>6. \A i \in 1..Len(s) : t[i][1] = "Message"
    BY <1>3, <1>4, <1>5, EndingOrNot DEF e
  <1>7. \A i \in DOMAIN t : ~Ending(t[i])
    BY <1>1, <1>3, <1>4
  <1>8. KnowsAfter(k, t) = "in"
    BY <1>4, <1>7 DEF KnowsAfter, e
  <1>9. \A i, j \in DOMAIN t : i < j => t[i][1] = "Message"
    BY <1>4, <1>6
  <1>10. "Connected" \notin TerminalStates
    BY DEF TerminalStates
  <1>11. Story(k, t, "Connected")
    BY <1>3, <1>7, <1>8, <1>9, <1>10 DEF Story
  <1> QED
    BY <1>11 DEF t, e

LEMMA EndingTellsStory ==
    ASSUME NEW k, NEW s \in Seq(ConnectionEvents), NEW state, NEW new,
           Story(k, s, state), state \notin TerminalStates, new \in TerminalStates,
           NEW e \in ConnectionEvents, Ending(e)
    PROVE  Story(k, Append(s, e), new)
  <1> DEFINE t == Append(s, e)
  <1>1. e[1] # "Message" /\ e # <<"Connected">>
    BY EndingOrNot
  <1>2. KnowsAfter(k, s) # "over"
    BY DEF Story
  <1>3. k # "over" /\ \A i \in DOMAIN s : ~Ending(s[i])
    BY <1>2 DEF KnowsAfter, Story
  <1>4. /\ Len(s) \in Nat /\ DOMAIN s = 1..Len(s) /\ DOMAIN t = 1..(Len(s) + 1)
        /\ \A i \in 1..Len(s) : t[i] = s[i]
        /\ t[Len(s) + 1] = e
    BY OneMore
  <1> HIDE DEF t
  <1>5. \A i \in 1..Len(s) : s[i] \in ConnectionEvents
    BY <1>4
  <1>6. \A i \in 1..Len(s) : s[i][1] # "Message" => s[i] = <<"Connected">>
    BY <1>3, <1>4, <1>5, EndingOrNot
  <1>7. KnowsAfter(k, t) = "over"
    BY <1>4 DEF KnowsAfter
  <1>8. \A i, j \in 1..Len(s) :
           i < j /\ s[i][1] # "Message" /\ s[j][1] # "Message" => FALSE
    BY <1>3, <1>4 DEF Story
  <1>9. \A i, j \in DOMAIN t :
           i < j /\ t[i][1] # "Message" /\ t[j][1] # "Message"
           => t[i] = <<"Connected">> /\ Ending(t[j])
    BY <1>4, <1>6, <1>8
  <1>10. \A i \in DOMAIN t : /\ t[i] = <<"Connected">> => k = "yet"
                             /\ Ending(t[i]) => k # "over"
    <2>1. \A i \in 1..Len(s) : s[i] = <<"Connected">> => k = "yet"
      BY <1>4 DEF Story
    <2>2. \A i \in DOMAIN t : i \in 1..Len(s) \/ i = Len(s) + 1
      BY <1>4
    <2>3. \A i \in DOMAIN t : t[i] = <<"Connected">> => k = "yet"
      BY <1>1, <1>4, <2>1, <2>2
    <2> QED
      BY <1>3, <2>3
  <1>11. new # "Connected" /\ new # "Connecting"
    BY DEF TerminalStates
  <1> QED
    BY <1>7, <1>9, <1>10, <1>11 DEF Story, t

\* The application fetches the first of the events.
LEMMA FetchKeepsStory ==
    ASSUME NEW k, NEW s \in Seq(ConnectionEvents), s # <<>>, NEW state,
           Story(k, s, state)
    PROVE  LET e == Head(s)
               k2 == IF e[1] = "Message" THEN k
                     ELSE IF e[1] = "Connected" THEN "in" ELSE "over"
           IN  Story(k2, Tail(s), state)
  <1> DEFINE e == Head(s)
             t == Tail(s)
             k2 == IF e[1] = "Message" THEN k
                   ELSE IF e[1] = "Connected" THEN "in" ELSE "over"
  <1>1. /\ Len(s) \in Nat \ {0} /\ DOMAIN s = 1..Len(s)
        /\ DOMAIN t = 1..(Len(s) - 1) /\ s[1] = e /\ e \in ConnectionEvents
        /\ \A i \in DOMAIN t : t[i] = s[i + 1]
    OBVIOUS
  <1> HIDE DEF e, t
  <1>2. \A i \in DOMAIN t : i + 1 \in DOMAIN s /\ 1 < i + 1
    BY <1>1
  <1>3. \A i, j \in DOMAIN t : i < j => i + 1 < j + 1
    BY <1>1
  <1>4. \A i \in DOMAIN s : i = 1 \/ \E j \in DOMAIN t : i = j + 1 /\ t[j] = s[i]
    <2> SUFFICES ASSUME NEW i \in DOMAIN s, i # 1
                 PROVE  \E j \in DOMAIN t : i = j + 1 /\ t[j] = s[i]
      OBVIOUS
    <2>1. i - 1 \in DOMAIN t /\ i = (i - 1) + 1
      BY <1>1
    <2> QED
      BY <1>1, <2>1
  <1>5. \A i, j \in DOMAIN t :
           i < j /\ t[i][1] # "Message" /\ t[j][1] # "Message"
           => t[i] = <<"Connected">> /\ Ending(t[j])
    BY <1>1, <1>2, <1>3 DEF Story
  <1>6. CASE e[1] = "Message"
    <2>1. e # <<"Connected">> /\ ~Ending(e) /\ k2 = k
      BY <1>1, <1>6, EndingOrNot
    <2>2. KnowsAfter(k, t) = KnowsAfter(k, s)
      <3>1. (\E i \in DOMAIN t : Ending(t[i])) <=> (\E i \in DOMAIN s : Ending(s[i]))
        BY <1>1, <1>2, <1>4, <2>1
      <3>2. (\E i \in DOMAIN t : t[i] = <<"Connected">>)
            <=> (\E i \in DOMAIN s : s[i] = <<"Connected">>)
        BY <1>1, <1>2, <1>4, <2>1
      <3> QED
        BY <3>1, <3>2 DEF KnowsAfter
    <2>3. \A i \in DOMAIN t : /\ t[i] = <<"Connected">> => k = "yet"
                              /\ Ending(t[i]) => k # "over"
      BY <1>1, <1>2 DEF Story
    <2> QED
      BY <1>5, <2>1, <2>2, <2>3 DEF Story, e, t
  <1>7. ASSUME e[1] # "Message", NEW i \in DOMAIN t, t[i][1] # "Message"
        PROVE  e = <<"Connected">> /\ Ending(t[i])
    <2>1. 1 \in DOMAIN s /\ i + 1 \in DOMAIN s /\ 1 < i + 1
      BY <1>1, <1>2
    <2>2. s[1] = e /\ s[i + 1] = t[i]
      BY <1>1
    <2> QED
      BY <1>7, <2>1, <2>2 DEF Story
  <1>8. \A i \in DOMAIN t : t[i] \in ConnectionEvents
    BY <1>1, <1>2
  <1>9. CASE e[1] = "Connected"
    <2>1. e = <<"Connected">> /\ ~Ending(e) /\ k2 = "in" /\ e[1] # "Message"
      BY <1>1, <1>9, EndingOrNot DEF Ending
    <2>2. \A i \in DOMAIN t : t[i] # <<"Connected">>
      BY <1>7, <1>8, <2>1, EndingOrNot
    <2>3. KnowsAfter(k2, t) = KnowsAfter(k, s)
      <3>1. (\E i \in DOMAIN t : Ending(t[i])) <=> (\E i \in DOMAIN s : Ending(s[i]))
        BY <1>1, <1>2, <1>4, <2>1
      <3>2. \E i \in DOMAIN s : s[i] = <<"Connected">>
        BY <1>1, <2>1
      <3> QED
        BY <2>1, <2>2, <3>1, <3>2 DEF KnowsAfter
    <2> QED
      BY <1>5, <2>1, <2>2, <2>3 DEF Story, e, t
  <1>10. CASE Ending(e)
    <2>1. e # <<"Connected">> /\ k2 = "over" /\ e[1] # "Message"
      BY <1>1, <1>10, EndingOrNot DEF Ending
    <2>2. \A i \in DOMAIN t : t[i] # <<"Connected">> /\ ~Ending(t[i])
      BY <1>7, <1>8, <2>1, EndingOrNot
    <2>3. KnowsAfter(k2, t) = "over" /\ KnowsAfter(k, s) = "over"
      BY <1>1, <1>10, <2>1, <2>2 DEF KnowsAfter
    <2> QED
      BY <1>5, <2>1, <2>2, <2>3 DEF Story, e, t
  <1> QED
    BY <1>1, <1>6, <1>9, <1>10 DEF Ending

\* A step that reports what it does keeps the story.
LEMMA ReportsTell ==
    ASSUME NEW k, NEW queue \in Seq(ConnectionEvents), NEW c, Typed(c), NEW d,
           Story(k, queue \o c.events, c.state), Reports(c, d)
    PROVE  Story(k, queue \o d.events, d.state)
  <1>1. c.events \in Seq(ConnectionEvents)
    BY DEF Typed, ConnectionRecords
  <1>2. queue \o c.events \in Seq(ConnectionEvents)
    BY <1>1
  <1>3. ASSUME NEW e \in ConnectionEvents
        PROVE  queue \o Append(c.events, e) = Append(queue \o c.events, e)
    BY <1>1
  <1>4. CASE /\ c.state = "Connecting" /\ d.state = "Connected"
             /\ d.events = Append(c.events, <<"Connected">>)
    <2> DEFINE e == <<"Connected">>
    <2>1. e \in ConnectionEvents
      BY EventTypes
    <2>2. Story(k, Append(queue \o c.events, e), "Connected")
      BY <1>2, <1>4, ConnectedTellsStory
    <2> HIDE DEF e
    <2>3. queue \o d.events = Append(queue \o c.events, e)
      BY <1>3, <1>4, <2>1 DEF e
    <2> QED
      BY <1>4, <2>2, <2>3
  <1>5. CASE /\ c.state \notin TerminalStates /\ d.state \in TerminalStates
             /\ \E e \in ConnectionEvents :
                   Ending(e) /\ d.events = Append(c.events, e)
    BY <1>2, <1>3, <1>5, EndingTellsStory
  <1> QED
    BY <1>4, <1>5 DEF Reports

\* drain() adds messages at most.
LEMMA DrainKeepsStory ==
    ASSUME NEW k, NEW queue \in Seq(ConnectionEvents), NEW c, Typed(c), NEW state
    PROVE  Story(k, queue \o Drain(c), state) <=> Story(k, queue \o c.events, state)
  <1> DEFINE m == <<"Message">>
  <1>1. c.events \in Seq(ConnectionEvents) /\ m \in ConnectionEvents
    BY EventTypes DEF Typed, ConnectionRecords
  <1>2. queue \o c.events \in Seq(ConnectionEvents)
    BY <1>1
  <1>3. CASE c.unread
    <2>1. Drain(c) = c.events \o <<m>>
      BY <1>3 DEF Drain
    <2> DEFINE s == queue \o c.events
    <2>3. Story(k, Append(s, m), state) <=> Story(k, s, state)
      <3> HIDE DEF s
      <3> QED
        BY <1>2, MessageKeepsStory DEF s
    <2> HIDE DEF m
    <2>2. queue \o Drain(c) = Append(s, m)
      BY <1>1, <2>1
    <2> QED
      BY <2>2, <2>3
  <1>4. CASE ~c.unread
    <2>1. Drain(c) = c.events \o <<>>
      BY <1>4 DEF Drain
    <2>2. Drain(c) = c.events
      BY <1>1, <2>1
    <2> QED
      BY <2>2
  <1> QED
    BY <1>3, <1>4

-----------------------------------------------------------------------------
(* The client's part of the invariant *)

ClientTypeOK ==
    /\ {online, clientReceives, receiving} \subseteq BOOLEAN
    /\ changes \in 0..MaxChanges
    /\ session \in 0..changes
    /\ addr \in 1..(changes + 1)
    /\ Typed(conn) /\ queued \in Seq(ConnectionEvents)
    /\ told \in {"yet", "in", "over", "unsure"}

\* Only the loop of receive() leaves messages in the connection, and what a
\* client can send has an id and an address of this run.
ClientInv ==
    /\ ClientTypeOK
    /\ conn.unread => receiving
    /\ receiving => online
    /\ online => session >= 1 /\ addr <= changes

LEMMA FreshClientTyped ==
    Typed(Fresh(ServerAddress)) /\ ~Fresh(ServerAddress).unread
  <1>1. ServerAddress \in Nat
    BY DEF ServerAddress
  <1> QED
    BY <1>1, FreshTyped

LEMMA ClientInvInit == ClientInit => ClientInv
  <1> SUFFICES ASSUME ClientInit PROVE ClientInv
    OBVIOUS
  <1>1. <<>> \in Seq(ConnectionEvents)
    OBVIOUS
  <1>2. Typed(conn) /\ ~conn.unread
    BY FreshClientTyped DEF ClientInit
  <1>3. /\ {online, clientReceives, receiving} \subseteq BOOLEAN
        /\ changes \in 0..MaxChanges
        /\ session \in 0..changes
        /\ addr \in 1..(changes + 1)
        /\ told \in {"yet", "in", "over", "unsure"}
        /\ ~online /\ ~receiving
    <2>1. /\ online = FALSE /\ clientReceives = FALSE /\ receiving = FALSE
          /\ changes = 0 /\ session = 0 /\ addr = 1
          /\ told = "yet"
      BY DEF ClientInit
    <2>2. {online, clientReceives, receiving} \subseteq BOOLEAN
      BY <2>1
    <2>3. /\ changes \in 0..MaxChanges
          /\ session \in 0..changes
          /\ addr \in 1..(changes + 1)
      BY <2>1, ClientAssumption
    <2> QED
      BY <2>1, <2>2, <2>3
  <1>4. queued \in Seq(ConnectionEvents)
    BY <1>1 DEF ClientInit
  <1> QED
    BY <1>2, <1>3, <1>4 DEF ClientInv, ClientTypeOK

LEMMA ConnectKeeps == ClientInv /\ Connect => ClientInv'
  <1> SUFFICES ASSUME ClientInv, Connect PROVE ClientInv'
    OBVIOUS
  <1>1. Typed(conn') /\ ~conn'.unread
    BY FreshClientTyped DEF Connect
  <1>2. ~receiving
    BY DEF Connect, ClientInv
  <1> QED
    BY <1>1, <1>2, ClientAssumption DEF Connect, ClientInv, ClientTypeOK

LEMMA BeginReceiveKeeps == ClientInv /\ BeginReceive => ClientInv'
  BY DEF ClientInv, ClientTypeOK, BeginReceive, ClientCalls

LEMMA TakePacketKeeps ==
    ASSUME ClientInv, NEW p, p.addr \in Nat,
           NEW newer, NEW carries \in BOOLEAN, TakePacket(p, newer, carries)
    PROVE  ClientInv'
  <1>1. Typed(conn')
    BY ReceiveTyped DEF ClientInv, ClientTypeOK, TakePacket
  <1> QED
    BY <1>1 DEF ClientInv, ClientTypeOK, TakePacket

LEMMA EndReceiveKeeps == ClientInv /\ EndReceive => ClientInv'
  <1> SUFFICES ASSUME ClientInv, EndReceive PROVE ClientInv'
    OBVIOUS
  <1>1. Typed(conn) /\ queued \in Seq(ConnectionEvents)
    BY DEF ClientInv, ClientTypeOK
  <1>2. Typed(conn') /\ conn'.unread = FALSE
    BY <1>1, DrainedTyped DEF EndReceive
  <1>3. queued' \in Seq(ConnectionEvents)
    <2> DEFINE more == Drain(conn)
    <2>1. more \in Seq(ConnectionEvents) /\ queued' = queued \o more
      BY <1>1, DrainTyped DEF EndReceive
    <2> HIDE DEF more
    <2> QED
      BY <1>1, <2>1
  <1> QED
    BY <1>2, <1>3 DEF ClientInv, ClientTypeOK, EndReceive

LEMMA ClientFetchKeeps == ClientInv /\ ClientFetch => ClientInv'
  <1> SUFFICES ASSUME ClientInv, ClientFetch PROVE ClientInv'
    OBVIOUS
  <1>1. queued' \in Seq(ConnectionEvents)
    BY DEF ClientInv, ClientTypeOK, ClientFetch
  <1>2. told' \in {"yet", "in", "over", "unsure"}
    <2>1. \/ told' = told
          \/ told' = "in"
          \/ told' = "over"
      BY DEF ClientFetch
    <2> QED
      BY <2>1 DEF ClientInv, ClientTypeOK
  <1> QED
    BY <1>1, <1>2 DEF ClientInv, ClientTypeOK, ClientFetch

LEMMA ClientSendKeeps ==
    ASSUME ClientInv, NEW env, ClientSend(env)
    PROVE  ClientInv'
  <1>1. Typed(conn) /\ ~conn.unread
    BY DEF ClientInv, ClientTypeOK, ClientSend, ClientCalls
  <1>2. Typed(conn') /\ ~conn'.unread
    BY <1>1, SendTyped DEF ClientSend
  <1> QED
    BY <1>2 DEF ClientInv, ClientTypeOK, ClientSend

LEMMA ResetClientKeeps == ClientInv /\ ResetClient => ClientInv'
  <1> SUFFICES ASSUME ClientInv, ResetClient PROVE ClientInv'
    OBVIOUS
  <1>1. Typed(conn') /\ conn'.unread = FALSE
    BY ResetTyped DEF ClientInv, ClientTypeOK, ResetClient
  <1>2. queued' \in Seq(ConnectionEvents) /\ told' \in {"yet", "unsure"}
    BY DEF ResetClient
  <1> QED
    BY <1>1, <1>2, ClientAssumption DEF ClientInv, ClientTypeOK, ResetClient

LEMMA DisconnectKeeps == ClientInv /\ Disconnect => ClientInv'
  <1> SUFFICES ASSUME ClientInv, Disconnect PROVE ClientInv'
    OBVIOUS
  <1>1. Typed(conn') /\ ~conn'.unread
    BY FreshClientTyped DEF Disconnect
  <1>2. queued' \in Seq(ConnectionEvents) /\ told' = "yet"
    BY DEF Disconnect
  <1> QED
    BY <1>1, <1>2 DEF ClientInv, ClientTypeOK, Disconnect, ClientCalls

LEMMA CloseClientKeeps == ClientInv /\ CloseClient => ClientInv'
  <1> SUFFICES ASSUME ClientInv, CloseClient PROVE ClientInv'
    OBVIOUS
  <1>1. Typed(conn') /\ conn'.unread = conn.unread
    BY CloseTyped DEF ClientInv, ClientTypeOK, CloseClient
  <1> QED
    BY <1>1 DEF ClientInv, ClientTypeOK, CloseClient

LEMMA RebindKeeps == ClientInv /\ Rebind => ClientInv'
  BY ClientAssumption DEF ClientInv, ClientTypeOK, Rebind

LEMMA ClientElapseKeeps ==
    ASSUME ClientInv, ClientElapse,
           UNCHANGED <<online, session, queued, clientReceives, receiving,
                       addr, changes, told>>
    PROVE  ClientInv'
  <1>1. Typed(conn') /\ conn'.unread = conn.unread
    BY ElapseTyped DEF ClientInv, ClientTypeOK, ClientElapse
  <1> QED
    BY <1>1 DEF ClientInv, ClientTypeOK

LEMMA ClientRestKeeps == ClientInv /\ UNCHANGED clientVars => ClientInv'
  BY DEF ClientInv, ClientTypeOK, clientVars

\* Where events can be: none are left when there is no socket, and when the
\* application fetches events, or sends, those of the connection are drained.
ClientStory ==
    /\ ~online => queued = <<>>
    /\ online /\ ~clientReceives => conn.events = <<>>
    /\ receiving => clientReceives
    /\ told # "unsure" => Story(told, queued \o conn.events, conn.state)

LEMMA FreshStory == Story("yet", <<>> \o Fresh(ServerAddress).events, "Connecting")
  <1>1. Fresh(ServerAddress).events = <<>> /\ <<>> \o <<>> = <<>>
    BY DEF Fresh
  <1>2. "Connecting" \in States /\ "Connecting" \notin TerminalStates
    BY DEF States, OpenStates, TerminalStates
  <1>3. Story("yet", <<>>, "Connecting")
    BY <1>2, EmptyStory
  <1> QED
    BY <1>1, <1>3

LEMMA ClientStoryInit == ClientInit => ClientStory
  <1> SUFFICES ASSUME ClientInit PROVE ClientStory
    OBVIOUS
  <1>1. conn.state = "Connecting" /\ conn.events = <<>>
    BY DEF ClientInit, Fresh
  <1> QED
    BY <1>1, FreshStory DEF ClientInit, ClientStory

LEMMA ConnectTells == ClientStory /\ Connect => ClientStory'
  <1> SUFFICES ASSUME ClientStory, Connect PROVE ClientStory'
    OBVIOUS
  <1>1. conn'.state = "Connecting" /\ conn' = Fresh(ServerAddress)
    BY DEF Connect, Fresh
  <1>2. queued' = <<>> /\ told' = "yet" /\ clientReceives' = TRUE
    BY DEF Connect, ClientStory
  <1> QED
    BY <1>1, <1>2, FreshStory DEF ClientStory

LEMMA DisconnectTells == ClientStory /\ Disconnect => ClientStory'
  <1> SUFFICES ASSUME ClientStory, Disconnect PROVE ClientStory'
    OBVIOUS
  <1>1. conn'.state = "Connecting" /\ conn' = Fresh(ServerAddress)
    BY DEF Disconnect, Fresh
  <1>2. queued' = <<>> /\ told' = "yet" /\ online' = FALSE /\ ~receiving'
    BY DEF Disconnect, ClientCalls
  <1> QED
    BY <1>1, <1>2, FreshStory DEF ClientStory

LEMMA TakePacketTells ==
    ASSUME ClientInv, ClientStory, NEW p, p.addr \in Nat,
           NEW newer, NEW carries \in BOOLEAN, TakePacket(p, newer, carries)
    PROVE  ClientStory'
  <1>1. Typed(conn) /\ queued \in Seq(ConnectionEvents)
    BY DEF ClientInv, ClientTypeOK
  <1>2. Reports(conn, conn')
    BY <1>1, ReceiveTyped DEF TakePacket
  <1>3. told # "unsure" => Story(told, queued \o conn'.events, conn'.state)
    BY <1>1, <1>2, ReportsTell DEF ClientStory
  <1> QED
    BY <1>3 DEF ClientStory, TakePacket

LEMMA EndReceiveTells == ClientInv /\ ClientStory /\ EndReceive => ClientStory'
  <1> SUFFICES ASSUME ClientInv, ClientStory, EndReceive PROVE ClientStory'
    OBVIOUS
  <1>1. Typed(conn) /\ queued \in Seq(ConnectionEvents) /\ (receiving => online)
    BY DEF ClientInv, ClientTypeOK
  <1>2. conn'.events = <<>> /\ conn'.state = conn.state
    BY <1>1 DEF EndReceive, Drained, Typed, ConnectionRecords
  <1>3. queued' \o conn'.events = queued \o Drain(conn)
    <2> DEFINE more == Drain(conn)
    <2>1. more \in Seq(ConnectionEvents) /\ queued' = queued \o more
      BY <1>1, DrainTyped DEF EndReceive
    <2> HIDE DEF more
    <2>2. queued' = queued \o more /\ queued \o more \in Seq(ConnectionEvents)
      BY <1>1, <2>1
    <2>3. queued' \o <<>> = queued'
      BY <2>2
    <2>4. queued' \o conn'.events = queued \o more
      BY <1>2, <2>2, <2>3, Zenon
    <2> QED
      BY <2>4 DEF more
  <1>4. told # "unsure" => Story(told, queued \o Drain(conn), conn.state)
    BY <1>1, DrainKeepsStory DEF ClientStory
  <1> QED
    BY <1>1, <1>2, <1>3, <1>4 DEF ClientStory, EndReceive

LEMMA ClientFetchTells == ClientInv /\ ClientStory /\ ClientFetch => ClientStory'
  <1> SUFFICES ASSUME ClientInv, ClientStory, ClientFetch PROVE ClientStory'
    OBVIOUS
  <1>1. /\ queued \in Seq(ConnectionEvents) /\ queued # <<>>
        /\ queued' = Tail(queued) /\ conn' = conn /\ conn.events = <<>>
        /\ online /\ ~receiving /\ ~clientReceives
        /\ UNCHANGED <<online, receiving, clientReceives>>
    BY DEF ClientInv, ClientTypeOK, ClientStory, ClientFetch, ClientCalls
  <1>2. queued \o conn.events = queued /\ queued' \o conn'.events = Tail(queued)
    <2>1. Tail(queued) \in Seq(ConnectionEvents)
      BY <1>1
    <2> QED
      BY <1>1, <2>1
  <1>3. told # "unsure" => Story(told', Tail(queued), conn.state)
    <2> SUFFICES ASSUME told # "unsure"
                 PROVE  Story(told', Tail(queued), conn.state)
      OBVIOUS
    <2> DEFINE e == Head(queued)
               k2 == IF e[1] = "Message" THEN told
                     ELSE IF e[1] = "Connected" THEN "in" ELSE "over"
    <2>1. told' = k2
      BY DEF ClientFetch
    <2>2. Story(told, queued, conn.state)
      BY <1>2 DEF ClientStory
    <2>3. Story(k2, Tail(queued), conn.state)
      BY <1>1, <2>2, FetchKeepsStory
    <2> QED
      BY <2>1, <2>3
  <1>4. told = "unsure" => told' = "unsure"
    BY DEF ClientFetch
  <1> QED
    BY <1>1, <1>2, <1>3, <1>4 DEF ClientStory

LEMMA ClientSendTells ==
    ASSUME ClientInv, ClientStory, NEW env, ClientSend(env)
    PROVE  ClientStory'
  <1>1. Typed(conn) /\ queued \in Seq(ConnectionEvents)
    BY DEF ClientInv, ClientTypeOK
  <1>2. Reports(conn, conn')
    BY <1>1, SendTyped DEF ClientSend
  <1>3. told # "unsure" => Story(told, queued \o conn'.events, conn'.state)
    BY <1>1, <1>2, ReportsTell DEF ClientStory
  <1> QED
    BY <1>3 DEF ClientStory, ClientSend, ClientCalls

LEMMA ResetClientTells == ClientInv /\ ClientStory /\ ResetClient => ClientStory'
  <1> SUFFICES ASSUME ClientInv, ClientStory, ResetClient PROVE ClientStory'
    OBVIOUS
  <1>1. conn'.events = conn.events /\ conn'.state = "Connecting"
    BY DEF ClientInv, ClientTypeOK, ResetClient, Reset, Typed, ConnectionRecords
  <1>2. told' # "unsure" => conn.events = <<>> /\ told' = "yet"
    BY DEF ResetClient
  <1>3. Story("yet", <<>> \o <<>>, "Connecting")
    BY FreshStory DEF Fresh
  <1> QED
    BY <1>1, <1>2, <1>3 DEF ClientStory, ResetClient, ClientCalls

LEMMA CloseClientTells == ClientInv /\ ClientStory /\ CloseClient => ClientStory'
  <1> SUFFICES ASSUME ClientInv, ClientStory, CloseClient PROVE ClientStory'
    OBVIOUS
  <1>1. /\ conn.events = <<>> /\ queued = <<>> /\ told \in {"yet", "in"}
        /\ UNCHANGED <<online, queued, clientReceives, receiving, told>>
    BY DEF ClientStory, CloseClient, ClientCalls
  <1>2. conn'.events = conn.events /\ conn'.state = "Closing"
    BY DEF ClientInv, ClientTypeOK, CloseClient, Close, Typed, ConnectionRecords
  <1>3. "Closing" \in States /\ "Closing" \notin TerminalStates
    BY DEF States, OpenStates, TerminalStates
  <1>4. Story(told, <<>>, "Closing")
    BY <1>1, <1>3, EmptyStory
  <1>5. <<>> \o <<>> = <<>>
    OBVIOUS
  <1> QED
    BY <1>1, <1>2, <1>4, <1>5 DEF ClientStory

LEMMA ClientElapseTells ==
    ASSUME ClientInv, ClientStory, ClientElapse,
           UNCHANGED <<online, session, queued, clientReceives, receiving,
                       addr, changes, told>>
    PROVE  ClientStory'
  <1>1. conn'.events = conn.events /\ conn'.state = conn.state
    BY DEF ClientInv, ClientTypeOK, ClientElapse, Elapse, Typed, ConnectionRecords
  <1> QED
    BY <1>1 DEF ClientStory

LEMMA ClientRestTells ==
    ASSUME ClientStory,
           \/ UNCHANGED clientVars \/ Rebind \/ BeginReceive
    PROVE  ClientStory'
  BY DEF ClientStory, clientVars, Rebind, BeginReceive, ClientCalls

-----------------------------------------------------------------------------
(* The whole system *)

\* What is on its way, the hosts that are awake, and the addresses.  A server
\* that sleeps has attended to all its connections.
NetworkInv ==
    /\ toServer \subseteq Packets /\ toClient \subseteq PacketKinds
    /\ due \subseteq {"server", "client"}
    /\ \A id \in DOMAIN addresses : addresses[id] \in 1..MaxChanges
    /\ accepting => "server" \in due
    /\ "server" \notin due => Attended

SystemInv == ServerInv /\ ClientInv /\ NetworkInv

LEMMA InitSystemInv == Init => SystemInv
  <1> SUFFICES ASSUME Init PROVE SystemInv
    OBVIOUS
  <1>1. ServerInv /\ ClientInv
    BY ServerInvInit, ClientInvInit DEF Init
  <1>2. DOMAIN connections = {} /\ DOMAIN addresses = {} /\ ~accepting
    BY DEF Init, ServerInit, Nothing
  <1>3. toServer = {} /\ toClient = {} /\ due = {}
    BY DEF Init
  <1>4. NetworkInv
    BY <1>2, <1>3 DEF NetworkInv, Attended
  <1> QED
    BY <1>1, <1>4 DEF SystemInv

LEMMA PacketsArrive ==
    ASSUME NEW p \in Packets, NEW q \in Arriving(p)
    PROVE  /\ q \in ArrivingPackets
           /\ q.addr \in 1..MaxChanges /\ q.addr \in Nat
  <1>1. /\ p \in ArrivingPackets /\ p.addr \in 1..MaxChanges
        /\ p.addr \in Nat
    BY ClientAssumption DEF Packets, ArrivingPackets, ArrivingKinds
  <1>2. q = p \/ q = [p EXCEPT !.kind = "short"]
    BY DEF Arriving
  <1> QED
    BY <1>1, <1>2 DEF ArrivingPackets, ArrivingKinds

LEMMA CarriedIsBoolean == \A n : Carried(n) \subseteq BOOLEAN
  BY DEF Carried

LEMMA NewerIsBoolean == NewerOrNot \subseteq BOOLEAN
  BY DEF NewerOrNot

\* What the server accepts.
LEMMA ServerAcceptsPacket ==
    ASSUME ServerAccepts, toServer \subseteq Packets
    PROVE  \E q, newer, carries :
              /\ q \in ArrivingPackets /\ q.addr \in 1..MaxChanges
              /\ q.kind = "short" => Truncates
              /\ newer \in BOOLEAN /\ carries \in BOOLEAN
              /\ \/ AcceptKnown(q, newer, carries)
                 \/ AcceptNew(q, TRUE, carries)
  <1>1. PICK p \in toServer :
           \E q \in Arriving(p) : \E carries \in Carried(Len(pending[p.id])) :
              \/ \E newer \in NewerOrNot : AcceptKnown(q, newer, carries)
              \/ AcceptNew(q, TRUE, carries)
    BY DEF ServerAccepts
  <1>2. PICK q \in Arriving(p), carries \in BOOLEAN :
           \/ \E newer \in NewerOrNot : AcceptKnown(q, newer, carries)
           \/ AcceptNew(q, TRUE, carries)
    BY <1>1, CarriedIsBoolean
  <1>3. PICK newer \in BOOLEAN :
           AcceptKnown(q, newer, carries) \/ AcceptNew(q, TRUE, carries)
    BY <1>2, NewerIsBoolean
  <1>4. q.kind = "short" => Truncates
    BY DEF Arriving, Packets, PacketKinds
  <1>5. q \in ArrivingPackets /\ q.addr \in 1..MaxChanges
    BY PacketsArrive
  <1> QED
    BY <1>3, <1>4, <1>5

\* What the client takes, if only of a server's packet.
LEMMA ClientTakesPacket ==
    ASSUME ClientTakes
    PROVE  \E p, newer, carries :
              /\ p.addr \in Nat /\ carries \in BOOLEAN
              /\ TakePacket(p, newer, carries)
  <1>1. PICK kind \in toClient :
           \E q \in Arriving([kind |-> kind, addr |-> ServerAddress]) :
           \E newer \in NewerOrNot : \E carries \in Carried(0) :
              TakePacket(q, newer, carries)
    BY DEF ClientTakes
  <1>2. PICK q \in Arriving([kind |-> kind, addr |-> ServerAddress]),
             newer \in NewerOrNot, carries \in Carried(0) :
           TakePacket(q, newer, carries)
    BY <1>1
  <1>3. q.addr \in Nat
    BY DEF Arriving, ServerAddress
  <1>4. carries \in BOOLEAN
    BY CarriedIsBoolean
  <1> QED
    BY <1>2, <1>3, <1>4

\* Whatever happens, the server's invariant is kept.
LEMMA NextServerInv ==
    ASSUME SystemInv, [Next]_csVars
    PROVE  ServerInv'
  <1> USE DEF SystemInv
  <1>1. CASE ServerStarts
    BY <1>1, ListenKeeps DEF ServerStarts
  <1>2. CASE ServerStops
    BY <1>2, ShutdownKeeps DEF ServerStops
  <1>3. CASE ServerLoop
    BY <1>3, BeginAcceptKeeps, EndAcceptKeeps, FetchEventKeeps DEF ServerLoop
  <1>4. CASE ServerAccepts
    <2>1. PICK q, newer, carries :
             /\ q \in ArrivingPackets
             /\ newer \in BOOLEAN /\ carries \in BOOLEAN
             /\ AcceptKnown(q, newer, carries) \/ AcceptNew(q, TRUE, carries)
      BY <1>4, ServerAcceptsPacket DEF NetworkInv
    <2> QED
      BY <2>1, AcceptKnownKeeps, AcceptNewKeeps
  <1>5. CASE ServerSends
    BY <1>5, ServerSendKeeps DEF ServerSends
  <1>6. CASE ServerUses
    <2>1. ASSUME NEW id \in ServerCloses, CloseConnection(id)
          PROVE  ServerInv'
      BY <2>1, CloseConnectionKeeps, ClientServerAssumption
    <2>2. ASSUME NEW id \in ServerResets, ResetConnection(id)
          PROVE  ServerInv'
      BY <2>2, ResetConnectionKeeps, ClientServerAssumption
    <2> QED
      BY <1>6, <2>1, <2>2 DEF ServerUses
  <1>7. CASE \/ ClientStarts \/ ClientStops \/ ClientLoop \/ ClientTakes
             \/ ClientSends \/ ClientUses \/ ClientMoves
             \/ \E p \in Packets : LoseToServer(p)
             \/ \E kind \in PacketKinds : LoseToClient(kind)
             \/ UNCHANGED csVars
    <2>1. UNCHANGED serverVars
      BY <1>7 DEF ClientStarts, ClientStops, ClientLoop, ClientTakes,
                  ClientSends, ClientUses, ClientMoves, LoseToServer,
                  LoseToClient, NoServerStep, csVars
    <2> QED
      BY <2>1, ServerRestKeeps
  <1>8. CASE Tick
    BY <1>8, ServerElapseKeeps DEF Tick
  <1> QED
    BY <1>1, <1>2, <1>3, <1>4, <1>5, <1>6, <1>7, <1>8 DEF Next

\* And so is the client's.
LEMMA NextClientInv ==
    ASSUME SystemInv, [Next]_csVars
    PROVE  ClientInv'
  <1> USE DEF SystemInv
  <1>1. CASE ClientStarts
    BY <1>1, ConnectKeeps DEF ClientStarts
  <1>2. CASE ClientStops
    BY <1>2, DisconnectKeeps DEF ClientStops
  <1>3. CASE ClientLoop
    BY <1>3, BeginReceiveKeeps, EndReceiveKeeps, ClientFetchKeeps
    DEF ClientLoop
  <1>4. CASE ClientTakes
    BY <1>4, ClientTakesPacket, TakePacketKeeps
  <1>5. CASE ClientSends
    BY <1>5, ClientSendKeeps DEF ClientSends
  <1>6. CASE ClientUses
    BY <1>6, ResetClientKeeps, CloseClientKeeps DEF ClientUses
  <1>7. CASE ClientMoves
    BY <1>7, RebindKeeps DEF ClientMoves
  <1>8. CASE \/ ServerStarts \/ ServerStops \/ ServerLoop \/ ServerAccepts
             \/ ServerSends \/ ServerUses
             \/ \E p \in Packets : LoseToServer(p)
             \/ \E kind \in PacketKinds : LoseToClient(kind)
             \/ UNCHANGED csVars
    <2>1. UNCHANGED clientVars
      BY <1>8 DEF ServerStarts, ServerStops, ServerLoop, ServerAccepts,
                  ServerSends, ServerUses, LoseToServer, LoseToClient,
                  NoClientStep, csVars
    <2> QED
      BY <2>1, ClientRestKeeps
  <1>9. CASE Tick
    BY <1>9, ClientElapseKeeps DEF Tick
  <1> QED
    BY <1>1, <1>2, <1>3, <1>4, <1>5, <1>6, <1>7, <1>8, <1>9 DEF Next

\* What is sent arrives as a packet, or is lost.
LEMMA CarryingKeeps ==
    ASSUME NEW P, NEW packets \in SUBSET P, NEW more \in SUBSET P,
           NEW result \in Carrying(packets, more)
    PROVE  result \subseteq P
  <1>1. \/ result = packets \cup more
        \/ \E left \in SUBSET packets : result = left \cup more
    BY DEF Carrying
  <1> QED
    BY <1>1

LEMMA PacketOfKinds == \A c, env : PacketOf(c, env) \subseteq PacketKinds
  BY DEF PacketOf, PacketKinds

LEMMA ServerPacketsKinds ==
    \A env, id, a : ServerPackets(env, id, a) \subseteq PacketKinds
  <1> TAKE env, id, a
  <1>1. PacketOf(connections[id], env[id]) \subseteq PacketKinds
    BY PacketOfKinds
  <1> QED
    BY <1>1 DEF ServerPackets

LEMMA ClientPacketsTyped ==
    ASSUME ClientInv, online, NEW env
    PROVE  ClientPackets(env) \subseteq Packets
  <1>1. /\ session \in Ids /\ addr \in 1..MaxChanges
    BY ClientServerAssumption, ClientAssumption DEF ClientInv, ClientTypeOK
  <1>2. \A k \in PacketOf(conn, env) : k \in PacketKinds
    BY PacketOfKinds
  <1> QED
    BY <1>1, <1>2 DEF ClientPackets, Packets

LEMMA NextPackets ==
    ASSUME SystemInv, [Next]_csVars
    PROVE  /\ toServer' \subseteq Packets /\ toClient' \subseteq PacketKinds
           /\ due' \subseteq {"server", "client"}
  <1> USE DEF SystemInv, NetworkInv
  <1>1. CASE \/ ServerStarts \/ ServerStops \/ ServerLoop \/ ServerUses
             \/ ClientStarts \/ ClientLoop \/ ClientUses \/ UNCHANGED csVars
    BY <1>1 DEF ServerStarts, ServerStops, ServerLoop, ServerUses,
                ClientStarts, ClientLoop, ClientUses, NoPackets, csVars
  <1>2. CASE ServerAccepts
    BY <1>2 DEF ServerAccepts, After
  <1>3. CASE ServerSends
    <2>1. toServer' = toServer /\ due' = due \ {"server"}
      BY <1>3 DEF ServerSends
    <2>2. PICK env \in [Ids -> Envs] :
             \/ toClient' \in Carrying(toClient,
                                       ServerPackets(env, session, addr))
             \/ toClient' = toClient
      BY <1>3 DEF ServerSends
    <2>3. ServerPackets(env, session, addr) \in SUBSET PacketKinds
      BY ServerPacketsKinds
    <2>4. toClient' \subseteq PacketKinds
      BY <2>2, <2>3, CarryingKeeps
    <2> QED
      BY <2>1, <2>4
  <1>4. CASE ClientStops \/ ClientMoves
    BY <1>4 DEF ClientStops, ClientMoves
  <1>5. CASE ClientTakes
    BY <1>5 DEF ClientTakes, After
  <1>6. CASE ClientSends
    <2>1. toClient' = toClient /\ due' = due \ {"client"}
      BY <1>6 DEF ClientSends
    <2>2. PICK env \in Envs :
             ClientSend(env) /\ toServer' \in Carrying(toServer, ClientPackets(env))
      BY <1>6 DEF ClientSends
    <2>3. ClientPackets(env) \in SUBSET Packets
      BY <2>2, ClientPacketsTyped DEF ClientSend, ClientCalls
    <2>4. toServer' \subseteq Packets
      BY <2>2, <2>3, CarryingKeeps
    <2> QED
      BY <2>1, <2>4
  <1>7. CASE \E p \in Packets : LoseToServer(p)
    BY <1>7 DEF LoseToServer
  <1>8. CASE \E kind \in PacketKinds : LoseToClient(kind)
    BY <1>8 DEF LoseToClient
  <1>9. CASE Tick
    BY <1>9 DEF Tick, NoPackets
  <1> QED
    BY <1>1, <1>2, <1>3, <1>4, <1>5, <1>6, <1>7, <1>8, <1>9 DEF Next

LEMMA NextAddresses ==
    ASSUME SystemInv, [Next]_csVars
    PROVE  \A id \in DOMAIN addresses' : addresses'[id] \in 1..MaxChanges
  <1> USE DEF SystemInv, NetworkInv
  <1>1. CASE UNCHANGED addresses
    BY <1>1
  <1>2. CASE ServerStops
    BY <1>2 DEF ServerStops, Shutdown, Nothing
  <1>3. CASE ServerAccepts
    <2>1. PICK q, newer, carries :
             /\ q.addr \in 1..MaxChanges
             /\ AcceptKnown(q, newer, carries) \/ AcceptNew(q, TRUE, carries)
      BY <1>3, ServerAcceptsPacket
    <2>2. addresses' \in {addresses, Put(addresses, q.id, q.addr)}
      BY <2>1 DEF AcceptKnown, AcceptNew
    <2> QED
      BY <2>1, <2>2 DEF Put
  <1>4. CASE ServerSends
    BY <1>4 DEF ServerSends, ServerSend, Without
  <1>5. \/ UNCHANGED addresses \/ ServerStops \/ ServerAccepts \/ ServerSends
    BY DEF Next, csVars, serverVars, ServerStarts, Listen, ServerLoop,
           BeginAccept, EndAccept, FetchEvent, ServerUses, CloseConnection,
           ResetConnection, ClientStarts, ClientStops, ClientLoop,
           ClientTakes, ClientSends, ClientUses, ClientMoves, LoseToServer,
           LoseToClient, NoServerStep, Tick
  <1> QED
    BY <1>1, <1>2, <1>3, <1>4, <1>5

LEMMA NextAwake ==
    ASSUME SystemInv, [Next]_csVars
    PROVE  accepting' => "server" \in due'
  <1> USE DEF SystemInv, NetworkInv
  <1>1. CASE accepting' = accepting /\ due' \in {due, due \ {"client"}}
    BY <1>1
  <1>2. CASE ServerLoop
    BY <1>2 DEF ServerLoop, ServerAwake
  <1>3. CASE ServerStops \/ ServerSends
    BY <1>3 DEF ServerStops, Shutdown, ServerSends, ServerSend, ServerCalls
  <1>4. CASE Tick
    BY <1>4 DEF Tick, AllAsleep
  <1>5. \/ accepting' = accepting /\ due' \in {due, due \ {"client"}}
        \/ ServerLoop \/ ServerStops \/ ServerSends \/ Tick
    BY DEF Next, csVars, serverVars, ServerStarts, Listen, ServerAccepts,
           AcceptKnown, AcceptNew, ServerUses, CloseConnection,
           ResetConnection, ClientStarts, ClientStops, ClientLoop,
           ClientTakes, ClientSends, ClientUses, ClientMoves, LoseToServer,
           LoseToClient, NoServerStep
  <1> QED
    BY <1>1, <1>2, <1>3, <1>4, <1>5

\* Between two calls of send() a connection may grow old, or end, only while
\* the server is awake.
LEMMA NextAttended ==
    ASSUME SystemInv, [Next]_csVars
    PROVE  "server" \notin due' => Attended'
  <1> USE DEF SystemInv, NetworkInv
  <1>1. CASE UNCHANGED <<connections, dropped>> /\ due' \in {due, due \ {"client"}}
    BY <1>1 DEF Attended
  <1>2. CASE ServerLoop \/ ServerAccepts \/ ServerUses
    <2>1. due' = due
      BY <1>2 DEF ServerLoop, ServerAccepts, ServerUses
    <2>2. "server" \in due
      BY <1>2 DEF ServerLoop, ServerUses, ServerAwake, ServerAccepts,
                  AcceptKnown, AcceptNew
    <2> QED
      BY <2>1, <2>2
  <1>3. CASE ServerStops
    BY <1>3 DEF ServerStops, Shutdown, Nothing, Attended
  <1>4. CASE ServerSends
    BY <1>4, SendAttends DEF ServerSends
  <1>5. CASE Tick
    <2>1. CASE listening
      BY <1>5, <2>1 DEF Tick
    <2>2. CASE ~listening
      BY <1>5, <2>2 DEF Tick, ServerElapse, ServerInv, AllSettled, Attended
    <2> QED
      BY <2>1, <2>2
  <1>6. \/ UNCHANGED <<connections, dropped>> /\ due' \in {due, due \ {"client"}}
        \/ ServerLoop \/ ServerAccepts \/ ServerUses
        \/ ServerStops \/ ServerSends \/ Tick
    BY DEF Next, csVars, serverVars, ServerStarts, Listen, ClientStarts,
           ClientStops, ClientLoop, ClientTakes, ClientSends, ClientUses,
           ClientMoves, LoseToServer, LoseToClient, NoServerStep
  <1> QED
    BY <1>1, <1>2, <1>3, <1>4, <1>5, <1>6

LEMMA NextClientStory ==
    ASSUME SystemInv, ClientStory, [Next]_csVars
    PROVE  ClientStory'
  <1> USE DEF SystemInv
  <1>1. CASE ClientStarts
    BY <1>1, ConnectTells DEF ClientStarts
  <1>2. CASE ClientStops
    BY <1>2, DisconnectTells DEF ClientStops
  <1>3. CASE ClientLoop
    BY <1>3, ClientRestTells, EndReceiveTells, ClientFetchTells DEF ClientLoop
  <1>4. CASE ClientTakes
    BY <1>4, ClientTakesPacket, TakePacketTells
  <1>5. CASE ClientSends
    BY <1>5, ClientSendTells DEF ClientSends
  <1>6. CASE ClientUses
    BY <1>6, ResetClientTells, CloseClientTells DEF ClientUses
  <1>7. CASE ClientMoves
    BY <1>7, ClientRestTells DEF ClientMoves
  <1>8. CASE \/ ServerStarts \/ ServerStops \/ ServerLoop \/ ServerAccepts
             \/ ServerSends \/ ServerUses
             \/ \E p \in Packets : LoseToServer(p)
             \/ \E kind \in PacketKinds : LoseToClient(kind)
             \/ UNCHANGED csVars
    <2>1. UNCHANGED clientVars
      BY <1>8 DEF ServerStarts, ServerStops, ServerLoop, ServerAccepts,
                  ServerSends, ServerUses, LoseToServer, LoseToClient,
                  NoClientStep, csVars
    <2> QED
      BY <2>1, ClientRestTells
  <1>9. CASE Tick
    BY <1>9, ClientElapseTells DEF Tick
  <1> QED
    BY <1>1, <1>2, <1>3, <1>4, <1>5, <1>6, <1>7, <1>8, <1>9 DEF Next

LEMMA NextSystemInv == SystemInv /\ [Next]_csVars => SystemInv'
  <1> SUFFICES ASSUME SystemInv, [Next]_csVars PROVE SystemInv'
    OBVIOUS
  <1>1. NetworkInv'
    BY NextPackets, NextAddresses, NextAwake, NextAttended DEF NetworkInv
  <1> QED
    BY <1>1, NextServerInv, NextClientInv DEF SystemInv

-----------------------------------------------------------------------------
(* The theorems *)

LEMMA SystemInvariant == Spec => []SystemInv
  <1>1. Init => SystemInv
    BY InitSystemInv
  <1>2. SystemInv /\ [Next]_csVars => SystemInv'
    BY NextSystemInv
  <1> QED
    BY <1>1, <1>2, PTL DEF Spec

\* The variables of the server, its clients and the network have their types:
\* every queue holds events, every packet comes from a session and an address
\* that there was.
THEOREM TypeCorrect == Spec => []TypeOK
  <1>1. SystemInv => TypeOK
    <2> SUFFICES ASSUME SystemInv PROVE TypeOK
      OBVIOUS
    <2>1. \A id \in DOMAIN connections : connections[id] \in ConnectionRecords
      BY DEF SystemInv, ServerInv, AllSettled, Settled, Typed
    <2> QED
      BY <2>1 DEF TypeOK, SystemInv, ServerInv, ServerTypeOK, ClientInv,
                  ClientTypeOK, NetworkInv, Typed
  <1> QED
    BY <1>1, SystemInvariant, PTL

\* The server's maps of connections and addresses and its list of dropped ids
\* agree, whatever its clients and the network do and whatever thresholds it
\* has: no removal in send() (server.rs l.271-274) misses, and no packet goes
\* to an address that the client has left.
THEOREM CollectionsAlwaysAgree == Spec => []CollectionsAgree
  <1>1. SystemInv => CollectionsAgree
    BY DEF SystemInv, ServerInv
  <1> QED
    BY <1>1, SystemInvariant, PTL

\* For any number of clients, sessions and packets the events of a server
\* announce each connection once and end it once, whether accept_receive() or
\* send() finds the end (server.rs l.366, l.293).
THEOREM EventsAlwaysTell == Spec => []EventsTellConnections
  <1>1. SystemInv => EventsTellConnections
    BY EventsTellIsSame DEF SystemInv, ServerInv
  <1> QED
    BY <1>1, SystemInvariant, PTL

\* Whatever arrives and however long nothing does, a server panics in send()
\* (server.rs l.272, l.282, l.418) only if the application has reset one of its
\* connections, or accept_receive() has made one for a packet too short (l.387).
THEOREM PanicsHaveCause == Spec => []PanicHasCause
  <1>1. SystemInv => PanicHasCause
    BY DEF SystemInv, ServerInv
  <1> QED
    BY <1>1, SystemInvariant, PTL

\* So an application that never calls reset() on a connection, in a network
\* where only whole packets carry the protocol's header and an id, has a server
\* that never panics.
THEOREM NeverPanicsUnprovoked ==
    ASSUME ServerResets = {}, ~Truncates
    PROVE  Spec => []~panicked
  <1> DEFINE NoCause == causes = {}
  <1>1. Init => NoCause
    BY DEF Init, ServerInit
  <1>2. SystemInv /\ NoCause /\ [Next]_csVars => NoCause'
    <2> SUFFICES ASSUME SystemInv, causes = {}, [Next]_csVars
                 PROVE  causes' = {}
      OBVIOUS
    <2>1. CASE ServerAccepts
      <3>1. PICK q, newer, carries :
               /\ q \in ArrivingPackets /\ (q.kind = "short" => Truncates)
               /\ AcceptKnown(q, newer, carries) \/ AcceptNew(q, TRUE, carries)
        BY <2>1, ServerAcceptsPacket DEF SystemInv, NetworkInv
      <3>2. Consumes(Fresh(q.addr), q, TRUE)
        BY <3>1 DEF Consumes, Fresh
      <3> QED
        BY <3>1, <3>2 DEF AcceptKnown, AcceptNew
    <2>2. CASE ServerStops
      BY <2>2 DEF ServerStops, Shutdown
    <2>3. UNCHANGED causes \/ ServerAccepts \/ ServerStops
      BY DEF Next, csVars, serverVars, ServerStarts, Listen, ServerLoop,
             BeginAccept, EndAccept, FetchEvent, ServerSends, ServerSend,
             ServerUses, CloseConnection, ClientStarts, ClientStops,
             ClientLoop, ClientTakes, ClientSends, ClientUses, ClientMoves,
             LoseToServer, LoseToClient, NoServerStep, Tick
    <2> QED
      BY <2>1, <2>2, <2>3
  <1>3. SystemInv /\ NoCause => ~panicked
    BY DEF SystemInv, ServerInv, PanicHasCause
  <1> HIDE DEF NoCause
  <1> QED
    BY <1>1, <1>2, <1>3, SystemInvariant, PTL DEF Spec

\* send_packet() finds no message to dismiss (connection.rs l.620) when the
\* applications run the documented loops: accept_receive() and receive() have
\* drained every connection before.
THEOREM NothingIsDismissed == Spec => []NothingDismissed
  <1>1. SystemInv => NothingDismissed
    BY DEF SystemInv, ServerInv, AllSettled, Settled, ClientInv,
           NothingDismissed
  <1> QED
    BY <1>1, SystemInvariant, PTL

\* A connection that has been silent for longer than its threshold is over and
\* listed for removal when the server sleeps (server.rs l.291), for all
\* thresholds and any number of connections.
THEOREM SilentConnectionsAlwaysEnd == Spec => []SilentConnectionsEnd
  <1>1. SystemInv => SilentConnectionsEnd
    BY DEF SystemInv, NetworkInv, AllAsleep, Attended, Patience,
           SilentConnectionsEnd
  <1> QED
    BY <1>1, SystemInvariant, PTL

\* A client's application that fetches its events knows the state of its
\* connection (client.rs l.253-263), for all thresholds and any number of calls
\* of connect(), reset(), close() and disconnect().
THEOREM ClientAlwaysKnows == Spec => []ClientKnowsState
  <1>1. Init => SystemInv /\ ClientStory
    BY InitSystemInv, ClientStoryInit DEF Init
  <1>2. SystemInv /\ ClientStory /\ [Next]_csVars => (SystemInv /\ ClientStory)'
    BY NextSystemInv, NextClientStory
  <1>3. SystemInv /\ ClientStory => ClientKnowsState
    <2> SUFFICES ASSUME SystemInv, ClientStory, told # "unsure"
                 PROVE  Story(told, queued \o Drain(conn), conn.state)
      BY DEF ClientKnowsState, Story
    <2>1. Typed(conn) /\ queued \in Seq(ConnectionEvents)
      BY DEF SystemInv, ClientInv, ClientTypeOK
    <2> QED
      BY <2>1, DrainKeepsStory DEF ClientStory
  <1> QED
    BY <1>1, <1>2, <1>3, PTL DEF Spec
=============================================================================
