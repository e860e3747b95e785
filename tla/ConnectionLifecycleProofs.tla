--------------------- MODULE ConnectionLifecycleProofs ---------------------
(***************************************************************************)
(* Proofs about ConnectionLifecycle, for all time-outs, whatever the       *)
(* network and the schedulers of the two ends do.                          *)
(***************************************************************************)
EXTENDS ConnectionLifecycle, SequenceTheorems, TLAPS

LEMMA PeerIsEnd == \A e \in Ends : Peer(e) \in Ends /\ Peer(Peer(e)) = e
  BY DEF Ends, Peer

LEMMA LongestIsAge ==
    /\ LongestThreshold \in Nat
    /\ InitThreshold <= LongestThreshold
    /\ DropThreshold <= LongestThreshold
    /\ ClosingThreshold <= LongestThreshold
  BY LifecycleAssumption DEF LongestThreshold

\* A counted age stays within what the thresholds can tell apart.
LEMMA OlderIsAge ==
    ASSUME NEW age \in Ages, NEW t \in Nat, t <= LongestThreshold
    PROVE  Older(age, t) \in Ages
  BY LongestIsAge DEF Older, Ages

-----------------------------------------------------------------------------
(* Type correctness *)

\* Only an end is ever to be removed.
LEMMA DroppingEnds == \A e \in Ends : Dropping(e) \subseteq Ends
  BY DEF Dropping

\* What Enter does, as far as types are concerned.
LEMMA EnterType ==
    ASSUME TypeOK, NEW e \in Ends,
           NEW s \in OpenStates \cup TerminalStates,
           NEW event \in {<<"Connected">>} \cup Outcomes,
           Enter(e, s, event)
    PROVE  /\ state' \in [Ends ->
                  OpenStates \cup TerminalStates \cup {"None", "Gone"}]
           /\ log' \in [Ends -> Seq({<<"Connected">>} \cup Outcomes)]
  <1> DEFINE Event == {<<"Connected">>} \cup Outcomes
  <1>1. log[e] \in Seq(Event)
    BY DEF TypeOK
  <1> HIDE DEF Event
  <1>2. event \in Event
    BY DEF Event
  <1>3. Append(log[e], event) \in Seq(Event)
    BY <1>1, <1>2
  <1>4. log \in [Ends -> Seq(Event)]
    BY DEF TypeOK, Event
  <1>5. log' \in [Ends -> Seq(Event)]
    BY <1>3, <1>4 DEF Enter
  <1>6. state' \in [Ends -> OpenStates \cup TerminalStates \cup {"None", "Gone"}]
    BY DEF Enter, TypeOK
  <1> QED
    BY <1>5, <1>6 DEF Event

\* Every variable keeps its type, for all thresholds and both ways of
\* calling close() (shared/connection.rs, the state machine of
\* receive_packet and send_packet).
THEOREM LifecycleTypeCorrect == Spec => []TypeOK
  <1>1. Init => TypeOK
    <2> SUFFICES ASSUME Init PROVE TypeOK
      OBVIOUS
    <2>1. 0 \in Ages
      BY LongestIsAge DEF Ages
    <2>2. <<>> \in Seq({<<"Connected">>} \cup Outcomes)
      OBVIOUS
    <2> QED
      BY <2>1, <2>2 DEF Init, TypeOK, OpenStates, Ends
  <1>2. TypeOK /\ [Next]_lifeVars => TypeOK'
    <2> SUFFICES ASSUME TypeOK, [Next]_lifeVars PROVE TypeOK'
      OBVIOUS
    <2>0. 0 \in Ages
      BY LongestIsAge DEF Ages
    <2>1. ASSUME NEW e \in Ends, NEW kind \in Kinds, Establish(e, kind)
          PROVE  TypeOK'
      <3>1. /\ state' \in [Ends ->
                  OpenStates \cup TerminalStates \cup {"None", "Gone"}]
            /\ log' \in [Ends -> Seq({<<"Connected">>} \cup Outcomes)]
        BY <2>1, EnterType DEF Establish, OpenStates
      <3> QED
        BY <3>1, <2>0, <2>1 DEF Establish, TypeOK
    <2>2. ASSUME NEW e \in Ends, NEW kind \in Kinds, Accept(e, kind)
          PROVE  TypeOK'
      BY <2>0, <2>2 DEF Accept, TypeOK
    <2>3. ASSUME NEW e \in Ends, NEW kind \in Kinds, Lose(e, kind)
          PROVE  TypeOK'
      BY <2>3 DEF Lose, TypeOK
    <2>4. ASSUME NEW e \in Ends, ClosedByRemote(e) PROVE TypeOK'
      <3>1. /\ state' \in [Ends ->
                  OpenStates \cup TerminalStates \cup {"None", "Gone"}]
            /\ log' \in [Ends -> Seq({<<"Connected">>} \cup Outcomes)]
        BY <2>4, EnterType DEF ClosedByRemote, TerminalStates, Outcomes
      <3> QED
        BY <3>1, <2>4 DEF ClosedByRemote, TypeOK
    <2>5. ASSUME NEW e \in Ends, TimeOut(e) PROVE TypeOK'
      <3>1. \E s \in TerminalStates : \E event \in Outcomes :
               Enter(e, s, event)
        <4>1. CASE state[e] = "Connecting"
          BY <2>5, <4>1 DEF TimeOut, TerminalStates, Outcomes
        <4>2. CASE state[e] = "Connected"
          <5>1. Enter(e, "Lost", <<"Lost", sinceRecv[e] > DropThreshold>>)
            BY <2>5, <4>2 DEF TimeOut
          <5>2. CASE sinceRecv[e] > DropThreshold
            <6>1. (sinceRecv[e] > DropThreshold) = TRUE
              BY <5>2
            <6> QED
              BY <5>1, <6>1 DEF TerminalStates, Outcomes
          <5>3. CASE ~(sinceRecv[e] > DropThreshold)
            <6>1. (sinceRecv[e] > DropThreshold) = FALSE
              BY <5>3
            <6> QED
              BY <5>1, <6>1 DEF TerminalStates, Outcomes
          <5> QED
            BY <5>2, <5>3
        <4>3. CASE state[e] = "Closing"
          BY <2>5, <4>3 DEF TimeOut, TerminalStates, Outcomes
        <4> QED
          BY <2>5, <4>1, <4>2, <4>3 DEF TimeOut, TimedOut
      <3>2. /\ state' \in [Ends ->
                  OpenStates \cup TerminalStates \cup {"None", "Gone"}]
            /\ log' \in [Ends -> Seq({<<"Connected">>} \cup Outcomes)]
        BY <3>1, EnterType
      <3>3. dropped' \subseteq Ends
        BY <2>5, DroppingEnds DEF TimeOut, TypeOK
      <3> QED
        BY <3>2, <3>3, <2>5 DEF TimeOut, TypeOK
    <2>6. ASSUME NEW e \in Ends, Transmit(e) PROVE TypeOK'
      <3>1. PICK left \in SUBSET net[Peer(e)] :
               net' = [net EXCEPT ![Peer(e)] =
                          left \cup {IF state[e] = "Closing" THEN "closure"
                                     ELSE "data"}]
        BY <2>6 DEF Transmit
      <3>2. net' \in [Ends -> SUBSET Kinds]
        BY <3>1, PeerIsEnd DEF TypeOK, Kinds
      <3> QED
        BY <2>0, <2>6, <3>2 DEF Transmit, TypeOK
    <2>7. ASSUME NEW e \in Ends, Withhold(e) PROVE TypeOK'
      <3>1. dropped' \subseteq Ends
        BY <2>7, DroppingEnds DEF Withhold, TypeOK
      <3> QED
        BY <2>7, <3>1 DEF Withhold, TypeOK
    <2>8. ASSUME NEW e \in Ends, Close(e) PROVE TypeOK'
      BY <2>8 DEF Close, TypeOK, OpenStates
    <2>9. ASSUME NEW e \in Ends, Die(e) PROVE TypeOK'
      BY <2>9 DEF Die, TypeOK
    <2>10. CASE Tick
      <3>1. sinceRecv' \in [Ends -> Ages]
        BY <2>0, <2>10, OlderIsAge, LongestIsAge DEF Tick, TypeOK
      <3>2. sinceSend' \in [Ends -> Ages]
        BY <2>0, <2>10, OlderIsAge, LongestIsAge, LifecycleAssumption
           DEF Tick, TypeOK
      <3> QED
        BY <2>10, <3>1, <3>2 DEF Tick, TypeOK
    <2>11. CASE UNCHANGED lifeVars
      BY <2>11 DEF lifeVars, TypeOK
    <2>12. ASSUME NEW e \in Ends, Forget(e) PROVE TypeOK'
      <3>1. /\ state' \in [Ends ->
                  OpenStates \cup TerminalStates \cup {"None", "Gone"}]
            /\ sinceRecv' \in [Ends -> Ages] /\ sinceSend' \in [Ends -> Ages]
            /\ due' \in [Ends -> BOOLEAN] /\ dropped' \subseteq Ends
            /\ net' \in [Ends -> SUBSET Kinds]
        BY <2>0, <2>12 DEF Forget, TypeOK
      <3>2. log' \in [Ends -> Seq({<<"Connected">>} \cup Outcomes)]
        <4> DEFINE Events == Seq({<<"Connected">>} \cup Outcomes)
        <4>1. <<>> \in Events /\ log \in [Ends -> Events]
          BY DEF TypeOK
        <4> HIDE DEF Events
        <4>2. log' \in [Ends -> Events]
          BY <2>12, <4>1 DEF Forget
        <4> QED
          BY <4>2 DEF Events
      <3> QED
        BY <3>1, <3>2 DEF TypeOK
    <2> QED
      BY <2>1, <2>2, <2>3, <2>4, <2>5, <2>6, <2>7, <2>8, <2>9, <2>10, <2>11,
         <2>12 DEF Next
  <1> QED
    BY <1>1, <1>2, PTL DEF Spec

-----------------------------------------------------------------------------
(* What the application is told *)

LEMMA AppendToEmpty == \A x : Append(<<>>, x) = <<x>>
  OBVIOUS

\* AppendProperties, with a name for the new sequence.
LEMMA AppendEffect ==
    ASSUME NEW S, NEW s \in Seq(S), NEW x \in S
    PROVE  \E app \in Seq(S) :
              /\ app = Append(s, x)
              /\ Len(app) = Len(s) + 1
              /\ \A i \in 1..Len(s) : app[i] = s[i]
              /\ app[Len(s) + 1] = x
  BY AppendProperties

LEMMA AppendMakesPair ==
    ASSUME NEW S, NEW one \in Seq(S), NEW two \in Seq(S), NEW x \in S,
           Len(one) = 1, Len(two) = 2, two[1] = one[1], two[2] = x
    PROVE  Append(one, x) = two
  <1>1. PICK app \in Seq(S) :
           /\ app = Append(one, x)
           /\ Len(app) = Len(one) + 1
           /\ \A i \in 1..Len(one) : app[i] = one[i]
           /\ app[Len(one) + 1] = x
    BY ONLY AppendEffect, one \in Seq(S), x \in S
  <1>2. Len(app) = 2 /\ app[1] = one[1] /\ app[2] = x
    BY ONLY <1>1, Len(one) = 1
  <1>3. \A i \in 1..Len(app) : app[i] = two[i]
    BY ONLY <1>2, Len(two) = 2, two[1] = one[1], two[2] = x
  <1>4. app = two
    BY ONLY <1>2, <1>3, SeqEqual, app \in Seq(S), two \in Seq(S), Len(two) = 2
  <1> QED
    BY ONLY <1>1, <1>4

LEMMA AppendToOne == \A a, x : Append(<<a>>, x) = <<a, x>>
  <1> TAKE a, x
  <1>1. <<a>> \in Seq({a, x}) /\ <<a, x>> \in Seq({a, x}) /\ x \in {a, x}
    OBVIOUS
  <1>2. /\ Len(<<a>>) = 1 /\ Len(<<a, x>>) = 2
        /\ <<a, x>>[1] = <<a>>[1] /\ <<a, x>>[2] = x
    OBVIOUS
  <1> QED
    BY <1>1, <1>2, AppendMakesPair, Zenon

LEMMA LogsOfStates ==
    /\ LogsOf("None") = {<<>>}
    /\ LogsOf("Connecting") = {<<>>}
    /\ LogsOf("Connected") = {<<<<"Connected">>>>}
    /\ LogsOf("Closing") = {<<>>, <<<<"Connected">>>>}
    /\ LogsOf("FailedToConnect") = {<<<<"FailedToConnect">>>>}
    /\ LogsOf("Lost") = {<<<<"Connected">>, <<"Lost", b>>>> : b \in BOOLEAN}
    /\ LogsOf("Closed") = {<<<<"Closed", FALSE>>>>,
                           <<<<"Connected">>, <<"Closed", FALSE>>>>,
                           <<<<"Connected">>, <<"Closed", TRUE>>>>}
  BY DEF LogsOf

\* An event that takes one end from a state to the next keeps the logs right.
LEMMA EnterKeepsLogs ==
    ASSUME TypeOK, LogMatchesState, NEW e \in Ends, NEW s, NEW event,
           Enter(e, s, event), Append(log[e], event) \in LogsOf(s)
    PROVE  LogMatchesState'
  BY DEF TypeOK, LogMatchesState, Enter

\* When close() is only called on connections that are not over, the events
\* tell the application the state of its connection: one Connected at most,
\* first; one last event, that of the state (shared/connection.rs,
\* update_receive_state and update_send_state).
THEOREM LogsMatchStates ==
    ASSUME ~CloseAnytime
    PROVE  Spec => []LogMatchesState
  <1>1. Init => LogMatchesState
    BY LogsOfStates DEF Init, LogMatchesState, Ends
  <1>2. TypeOK /\ LogMatchesState /\ [Next]_lifeVars => LogMatchesState'
    <2> SUFFICES ASSUME TypeOK, LogMatchesState, [Next]_lifeVars
                 PROVE  LogMatchesState'
      OBVIOUS
    <2>1. ASSUME NEW e \in Ends, NEW kind \in Kinds, Establish(e, kind)
          PROVE  LogMatchesState'
      <3>1. log[e] = <<>>
        BY <2>1, LogsOfStates DEF Establish, LogMatchesState
      <3>2. Append(log[e], <<"Connected">>) \in LogsOf("Connected")
        BY <3>1, AppendToEmpty, LogsOfStates
      <3> QED
        BY <2>1, <3>2, EnterKeepsLogs DEF Establish
    <2>2. ASSUME NEW e \in Ends, ClosedByRemote(e) PROVE LogMatchesState'
      <3>1. log[e] = <<<<"Connected">>>>
        BY <2>2, LogsOfStates DEF ClosedByRemote, LogMatchesState
      <3>2. Append(log[e], <<"Closed", TRUE>>) \in LogsOf("Closed")
        BY <3>1, AppendToOne, LogsOfStates
      <3> QED
        BY <2>2, <3>2, EnterKeepsLogs DEF ClosedByRemote
    <2>3. ASSUME NEW e \in Ends, TimeOut(e) PROVE LogMatchesState'
      <3>1. CASE state[e] = "Connecting"
        <4>1. log[e] = <<>>
          BY <3>1, LogsOfStates DEF LogMatchesState
        <4>2. Append(log[e], <<"FailedToConnect">>)
                 \in LogsOf("FailedToConnect")
          BY <4>1, AppendToEmpty, LogsOfStates
        <4>3. Enter(e, "FailedToConnect", <<"FailedToConnect">>)
          BY <2>3, <3>1 DEF TimeOut
        <4> QED
          BY <4>2, <4>3, EnterKeepsLogs
      <3>2. CASE state[e] = "Connected"
        <4> DEFINE byAge == sinceRecv[e] > DropThreshold
        <4>1. log[e] = <<<<"Connected">>>>
          BY <3>2, LogsOfStates DEF LogMatchesState
        <4>2. Enter(e, "Lost", <<"Lost", byAge>>)
          BY <2>3, <3>2 DEF TimeOut
        <4>3. byAge \in BOOLEAN
          BY LifecycleAssumption, LongestIsAge DEF TypeOK, Ages
        <4> HIDE DEF byAge
        <4>4. Append(log[e], <<"Lost", byAge>>) \in LogsOf("Lost")
          <5>1. Append(log[e], <<"Lost", byAge>>)
                   = <<<<"Connected">>, <<"Lost", byAge>>>>
            BY <4>1, AppendToOne
          <5>2. <<<<"Connected">>, <<"Lost", byAge>>>> \in
                   {<<<<"Connected">>, <<"Lost", b>>>> : b \in BOOLEAN}
            BY <4>3
          <5> QED
            BY <5>1, <5>2, LogsOfStates
        <4> QED
          BY <4>2, <4>4, EnterKeepsLogs
      <3>3. CASE state[e] = "Closing"
        <4>1. log[e] \in {<<>>, <<<<"Connected">>>>}
          BY <3>3, LogsOfStates DEF LogMatchesState
        <4>2. Append(log[e], <<"Closed", FALSE>>) \in LogsOf("Closed")
          BY <4>1, AppendToEmpty, AppendToOne, LogsOfStates
        <4>3. Enter(e, "Closed", <<"Closed", FALSE>>)
          BY <2>3, <3>3 DEF TimeOut
        <4> QED
          BY <4>2, <4>3, EnterKeepsLogs
      <3> QED
        BY <2>3, <3>1, <3>2, <3>3 DEF TimeOut, TimedOut
    <2>4. ASSUME NEW e \in Ends, Close(e) PROVE LogMatchesState'
      <3>1. log[e] \in LogsOf("Closing")
        BY <2>4, LogsOfStates DEF Close, LogMatchesState
      <3> QED
        BY <2>4, <3>1 DEF Close, LogMatchesState, TypeOK
    <2>5. ASSUME NEW e \in Ends, Die(e) PROVE LogMatchesState'
      BY <2>5 DEF Die, LogMatchesState, TypeOK
    <2>6. ASSUME UNCHANGED <<state, log>> PROVE LogMatchesState'
      BY <2>6 DEF LogMatchesState
    <2>7. ASSUME NEW e \in Ends, Transmit(e) \/ Withhold(e)
          PROVE  UNCHANGED <<state, log>>
      BY <2>7 DEF Transmit, Withhold
    <2>8. ASSUME NEW e \in Ends, NEW kind \in Kinds,
                 Accept(e, kind) \/ Lose(e, kind)
          PROVE  UNCHANGED <<state, log>>
      BY <2>8 DEF Accept, Lose
    <2>9. Tick \/ UNCHANGED lifeVars => UNCHANGED <<state, log>>
      BY DEF Tick, lifeVars
    <2>10. ASSUME NEW e \in Ends, Forget(e) PROVE LogMatchesState'
      <3>1. <<>> \in LogsOf("None")
        BY LogsOfStates
      <3> QED
        BY <2>10, <3>1 DEF Forget, LogMatchesState, TypeOK
    <2> QED
      BY <2>1, <2>2, <2>3, <2>4, <2>5, <2>6, <2>7, <2>8, <2>9, <2>10 DEF Next
  <1> QED
    BY <1>1, <1>2, LifecycleTypeCorrect, PTL DEF Spec

-----------------------------------------------------------------------------
(* Closed by the peer *)

\* Only an end whose application may close is ever closing, only such an end
\* has closure packets on their way, and only then the other one is told so.
ClosersOnly ==
    /\ \A e \in Ends : state[e] = "Closing" => e \in Closers
    /\ \A e \in Ends : "closure" \in net[e] => Peer(e) \in Closers
    /\ ClosedMeansPeerClosed

\* A new event other than Closed(true), or one that has its reason.
LEMMA EnterKeepsReason ==
    ASSUME TypeOK, ClosedMeansPeerClosed, NEW e \in Ends, NEW s, NEW event,
           event \in {<<"Connected">>} \cup Outcomes,
           Enter(e, s, event),
           event = <<"Closed", TRUE>> => Peer(e) \in Closers
    PROVE  ClosedMeansPeerClosed'
  <1> DEFINE Event == {<<"Connected">>} \cup Outcomes
  <1>1. log[e] \in Seq(Event)
    BY DEF TypeOK
  <1>2. log' = [log EXCEPT ![e] = Append(@, event)]
    BY DEF Enter
  <1>3. log'[e] = Append(log[e], event)
    BY <1>2 DEF TypeOK
  <1>4. \A x \in Ends : x # e => log'[x] = log[x]
    BY <1>2 DEF TypeOK
  <1> HIDE DEF Event
  <1>5. \A i \in DOMAIN log'[e] :
           \/ i \in DOMAIN log[e] /\ log'[e][i] = log[e][i]
           \/ log'[e][i] = event
    BY <1>1, <1>3
  <1> QED
    BY <1>4, <1>5 DEF ClosedMeansPeerClosed

\* Closed(true) is reported only to an end whose peer may close, whatever is
\* lost, repeated or delayed (shared/connection.rs l.682).
THEOREM ClosedOnlyByPeer == Spec => []ClosedMeansPeerClosed
  <1>1. Init => ClosersOnly
    BY DEF Init, ClosersOnly, ClosedMeansPeerClosed, Ends
  <1>2. TypeOK /\ ClosersOnly /\ [Next]_lifeVars => ClosersOnly'
    <2> SUFFICES ASSUME TypeOK, ClosersOnly, [Next]_lifeVars
                 PROVE  ClosersOnly'
      OBVIOUS
    <2>1. ASSUME NEW e \in Ends, NEW kind \in Kinds, Establish(e, kind)
          PROVE  ClosersOnly'
      <3>1. ClosedMeansPeerClosed'
        BY <2>1, EnterKeepsReason DEF Establish, ClosersOnly
      <3> QED
        BY <2>1, <3>1 DEF Establish, Enter, ClosersOnly, TypeOK
    <2>2. ASSUME NEW e \in Ends, ClosedByRemote(e) PROVE ClosersOnly'
      <3>1. ClosedMeansPeerClosed'
        BY <2>2, EnterKeepsReason DEF ClosedByRemote, ClosersOnly, Outcomes
      <3> QED
        BY <2>2, <3>1 DEF ClosedByRemote, Enter, ClosersOnly, TypeOK
    <2>3. ASSUME NEW e \in Ends, TimeOut(e) PROVE ClosersOnly'
      <3>1. CASE state[e] = "Connecting"
        <4>1. Enter(e, "FailedToConnect", <<"FailedToConnect">>)
          BY <2>3, <3>1 DEF TimeOut
        <4>2. ClosedMeansPeerClosed'
          BY <4>1, EnterKeepsReason DEF ClosersOnly, Outcomes
        <4> QED
          BY <2>3, <4>1, <4>2 DEF TimeOut, Enter, ClosersOnly, TypeOK
      <3>2. CASE state[e] = "Connected"
        <4> DEFINE byAge == sinceRecv[e] > DropThreshold
        <4>1. Enter(e, "Lost", <<"Lost", byAge>>)
          BY <2>3, <3>2 DEF TimeOut
        <4>2. byAge \in BOOLEAN
          BY LifecycleAssumption, LongestIsAge DEF TypeOK, Ages
        <4> HIDE DEF byAge
        <4>3. <<"Lost", byAge>> \in Outcomes
          BY <4>2 DEF Outcomes
        <4>4. ClosedMeansPeerClosed'
          BY <4>1, <4>3, EnterKeepsReason DEF ClosersOnly
        <4> QED
          BY <2>3, <4>1, <4>4 DEF TimeOut, Enter, ClosersOnly, TypeOK
      <3>3. CASE state[e] = "Closing"
        <4>1. Enter(e, "Closed", <<"Closed", FALSE>>)
          BY <2>3, <3>3 DEF TimeOut
        <4>2. <<"Closed", FALSE>> # <<"Closed", TRUE>>
          OBVIOUS
        <4>3. ClosedMeansPeerClosed'
          BY <4>1, <4>2, EnterKeepsReason DEF ClosersOnly, Outcomes
        <4> QED
          BY <2>3, <4>1, <4>3 DEF TimeOut, Enter, ClosersOnly, TypeOK
      <3> QED
        BY <2>3, <3>1, <3>2, <3>3 DEF TimeOut, TimedOut
    <2>4. ASSUME NEW e \in Ends, Transmit(e) PROVE ClosersOnly'
      <3>1. PICK left \in SUBSET net[Peer(e)] :
               net' = [net EXCEPT ![Peer(e)] =
                          left \cup {IF state[e] = "Closing" THEN "closure"
                                     ELSE "data"}]
        BY <2>4 DEF Transmit
      <3>2. ASSUME NEW x \in Ends, "closure" \in net'[x]
            PROVE  Peer(x) \in Closers
        BY <3>1, <3>2, PeerIsEnd DEF ClosersOnly, TypeOK
      <3> QED
        BY <2>4, <3>2 DEF Transmit, ClosersOnly, ClosedMeansPeerClosed
    <2>5. ASSUME NEW e \in Ends, Close(e) PROVE ClosersOnly'
      BY <2>5 DEF Close, ClosersOnly, ClosedMeansPeerClosed, TypeOK
    <2>6. ASSUME NEW e \in Ends, Die(e) PROVE ClosersOnly'
      BY <2>6 DEF Die, ClosersOnly, ClosedMeansPeerClosed, TypeOK
    <2>7. ASSUME NEW e \in Ends, NEW kind \in Kinds, Lose(e, kind)
          PROVE  ClosersOnly'
      BY <2>7 DEF Lose, ClosersOnly, ClosedMeansPeerClosed, TypeOK
    <2>8. ASSUME UNCHANGED <<state, log, net>> PROVE ClosersOnly'
      BY <2>8 DEF ClosersOnly, ClosedMeansPeerClosed
    <2>9. ASSUME NEW e \in Ends, Withhold(e) PROVE UNCHANGED <<state, log, net>>
      BY <2>9 DEF Withhold
    <2>10. ASSUME NEW e \in Ends, NEW kind \in Kinds, Accept(e, kind)
           PROVE  UNCHANGED <<state, log, net>>
      BY <2>10 DEF Accept
    <2>11. Tick \/ UNCHANGED lifeVars => UNCHANGED <<state, log, net>>
      BY DEF Tick, lifeVars
    <2>12. ASSUME NEW e \in Ends, Forget(e) PROVE ClosersOnly'
      <3>1. ClosedMeansPeerClosed'
        <4>1. \A x \in Ends : x # e => log'[x] = log[x]
          BY <2>12 DEF Forget, TypeOK
        <4>2. DOMAIN log'[e] = {}
          BY <2>12 DEF Forget, TypeOK
        <4> QED
          BY <4>1, <4>2 DEF ClosersOnly, ClosedMeansPeerClosed
      <3> QED
        BY <2>12, <3>1 DEF Forget, ClosersOnly, TypeOK
    <2> QED
      BY <2>1, <2>2, <2>3, <2>4, <2>5, <2>6, <2>7, <2>8, <2>9, <2>10, <2>11,
         <2>12 DEF Next
  <1>3. ClosersOnly => ClosedMeansPeerClosed
    BY DEF ClosersOnly
  <1> QED
    BY <1>1, <1>2, <1>3, LifecycleTypeCorrect, PTL DEF Spec
=============================================================================
