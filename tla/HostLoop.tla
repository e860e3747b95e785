------------------------------ MODULE HostLoop ------------------------------
(***************************************************************************)
(* The loop of a host with an established connection, receive() and        *)
(* send(true) in turns, and what it keeps count of: client.rs l.230-312    *)
(* with the Ticker, the StatsCollector and the rate limiter (of            *)
(* Connection::send_packet).                                               *)
(*                                                                         *)
(* The three do not read each other, except that a congested connection    *)
(* sends nothing.  `varying' says which of their inputs vary in a          *)
(* behaviour; the others are the calm ones.                                *)
(*                                                                         *)
(* A failure stops the process: an index out of bounds, or a subtraction   *)
(* that goes below zero where overflow is checked.                         *)
(*                                                                         *)
(* Bounds: when the time since the tick began and the overflow are above   *)
(* MaxTime together, no work is begun and no receive() is left out; a      *)
(* receive() is left out, and the configuration is set, once between two   *)
(* resets.  The histories stop when the properties no longer speak of      *)
(* them.                                                                   *)
(***************************************************************************)
EXTENDS Ticker, StatsCollector, BinaryRateLimiter, Integers, SequencesExt

CONSTANTS Configs,       \* a set of tick configurations
          Bytes,         \* how much may be sent and received in a tick
          WorkTimes,     \* how long the application may take
          MaxTime

ASSUME HostAssumption ==
    /\ Configs \subseteq TickConfigs
    /\ Bytes \subseteq Nat /\ WorkTimes \subseteq Nat
    /\ MaxTime \in Nat

VARIABLES varying,       \* "time", "sent", "received" or "rtt"
          ticker, stats, limiter,
          mayReceive,    \* should_receive
          failed,
          quiet,         \* all inputs have become calm, for good
          drift,         \* history: how long the ticks since the last reset
                         \* took, less how long they were due to take
          recent,        \* history: bytes of the last second, per direction
          odd            \* history: what else happened since the last reset

hostVars == <<varying, ticker, stats, limiter, mayReceive, failed, quiet,
              drift, recent, odd>>

meters == <<ticker, stats, limiter>>

Init ==
    /\ varying \in {"time", "rtt"} \cup Directions
    /\ \E config \in Configs :
          /\ ticker = NewTicker(config)
          /\ stats = NewStats(config.sendRate)
          /\ odd = IF config.recovery THEN {} ELSE {"noRecovery"}
    /\ limiter = NewLimiter
    /\ mayReceive = TRUE
    /\ failed = FALSE
    /\ quiet = FALSE
    /\ drift = 0
    /\ recent = [d \in Directions |-> <<>>]

Vary(input, values, calm) ==
    IF varying = input /\ ~quiet THEN values ELSE {calm}

\* The last `rate' numbers of a sequence and one more.
LastOf(s, bytes, rate) ==
    LET longer == Append(s, bytes)
    IN  IF Len(longer) > rate THEN Tail(longer) ELSE longer

\* receive(), of packets with so many bytes.
Receive ==
    /\ mayReceive /\ ~failed
    /\ \E bytes \in Vary("received", Bytes, 0) :
          IF SetBytesFails(stats, "received")
          THEN failed' = TRUE /\ UNCHANGED <<stats, recent>>
          ELSE /\ stats' = SetBytes(stats, "received", bytes)
               /\ recent' = [recent EXCEPT !["received"] =
                                LastOf(@, bytes, stats.rate)]
               /\ UNCHANGED failed
    /\ ticker' = BeginTick(ticker)
    /\ mayReceive' = FALSE
    /\ UNCHANGED <<varying, limiter, quiet, drift, odd>>

\* send(true), with or without receive() before it.
Send ==
    /\ ~failed
    /\ mayReceive => /\ varying # "rtt" /\ ~quiet /\ "skipped" \notin odd
                     /\ ticker.elapsed + ticker.overflow <= MaxTime
    /\ \E bad \in Vary("rtt", BOOLEAN, FALSE) :
          limiter' = LimiterUpdate(LimiterElapse(limiter), bad)
    /\ \E bytes \in IF should_send(limiter') THEN Vary("sent", Bytes, 0)
                    ELSE {0} :
          IF SetBytesFails(stats, "sent")
          THEN failed' = TRUE /\ UNCHANGED <<stats, recent>>
          ELSE /\ stats' = StatsTick(SetBytes(stats, "sent", bytes))
               /\ recent' = [recent EXCEPT !["sent"] =
                                LastOf(@, bytes, stats.rate)]
               /\ UNCHANGED failed
    /\ ticker' = EndTick(ticker)
    /\ mayReceive' = TRUE
    /\ odd' = IF mayReceive THEN odd \cup {"skipped"} ELSE odd
    /\ drift' = IF odd' \subseteq {"setConfig"}
                THEN (drift + SleepTime(ticker)) - TickDelay(ticker.config)
                ELSE 0
    /\ UNCHANGED <<varying, quiet>>

\* The application takes its time, in the middle of a tick or before one.
Work ==
    /\ ~failed
    /\ ticker.elapsed + ticker.overflow <= MaxTime
    /\ \E time \in Vary("time", WorkTimes, 0) :
          /\ time > 0
          /\ ticker' = TickerElapse(ticker, time)
          /\ drift' = IF mayReceive \/ ~(odd \subseteq {"setConfig"})
                      THEN drift ELSE drift + time
    /\ UNCHANGED <<varying, stats, limiter, mayReceive, failed, quiet,
                   recent, odd>>

\* reset(): a new beginning.
Reset ==
    /\ ~failed /\ ~quiet
    /\ ticker' = TickerReset(ticker)
    /\ stats' = StatsReset(stats)
    /\ limiter' = LimiterReset(limiter)
    /\ drift' = 0
    /\ recent' = [d \in Directions |-> <<>>]
    /\ odd' = IF ticker.config.recovery THEN {} ELSE {"noRecovery"}
    /\ UNCHANGED <<varying, mayReceive, failed, quiet>>

\* set_config()
SetConfig ==
    /\ ~failed /\ ~quiet /\ varying # "rtt" /\ "setConfig" \notin odd
    /\ \E config \in Configs :
          /\ ticker' = TickerSetConfig(ticker, config)
          /\ stats' = StatsSetConfig(stats, config.sendRate)
          /\ odd' = odd \cup {"setConfig"} \cup
                    (IF config.recovery THEN {} ELSE {"noRecovery"})
    /\ UNCHANGED <<varying, limiter, mayReceive, failed, quiet, drift,
                   recent>>

Calm ==
    /\ ~quiet /\ quiet' = TRUE
    /\ UNCHANGED <<varying, meters, mayReceive, failed, drift, recent, odd>>

Next == Receive \/ Send \/ Work \/ Reset \/ SetConfig \/ Calm

Spec == Init /\ [][Next]_hostVars

\* The application runs its loop.
FairSpec == Spec /\ WF_hostVars(Receive \/ Send)

-----------------------------------------------------------------------------
(* Properties *)

\* Types and limits: a tick never sleeps longer than its delay (and not less
\* than zero, ticker.rs l.86), the delay of the limiter stays within its clamps.
TypeOK ==
    /\ ticker.elapsed \in Nat /\ ticker.overflow \in Nat
    /\ SleepTime(ticker) \in 0..TickDelay(ticker.config)
    /\ stats.tick \in Nat
    /\ \A d \in Directions : stats.averages[d] \in Nat
    /\ limiter.tick \in 0..(MaxTick - 1)
    /\ limiter.delay \in MinDelay..MaxDelay
    /\ limiter.goodTime \in Nat /\ limiter.sinceGood \in Nat
    /\ {mayReceive, failed, quiet, limiter.bad} \subseteq BOOLEAN

\* No time is lost or made up twice: at the end of a tick the loop is behind its
\* schedule by exactly the overflow that later ticks will make up for
\* (ticker.rs l.56-86; time outside of ticks is not counted).  So the send rate
\* is kept in the long run however the work varies.
OnSchedule ==
    mayReceive /\ odd \subseteq {"setConfig"} =>
        drift = ticker.overflow

Total(s) == FoldLeft(LAMBDA a, b : a + b, 0, s)

\* From the first tick after new() or reset() on, the running sum is the number
\* of bytes of the last second (stats.rs l.88-101), and what was before a reset()
\* does not count; unless the rate was changed or a receive() was left out, which
\* it never gets over (only reset() ends this).  What average() returns between
\* a reset() and the next tick is left open: the code (l.116-117) and the comment
\* (l.113-114) disagree about it.
AverageIsLastSecond ==
    ~failed /\ odd \subseteq {"noRecovery"} =>
        \A d \in Directions :
            recent[d] # <<>> => stats.averages[d] = Total(recent[d])

\* Nothing fails as long as receive() and send() alternate and the configuration
\* stays: no index leaves the ring, no sum goes below zero.  (A tick beyond the
\* ring, left by set_config(), stays there over a reset().)
FailsOnlyWhenOdd ==
    failed => odd \cap {"setConfig", "skipped"} # {} \/ stats.tick > stats.rate

\* A congested connection still sends now and then (binary_rate_limiter.rs
\* l.143-160).
StillSends == []<>(failed \/ should_send(limiter))

\* When work is light and round-trips are short again, the loop catches up with
\* its schedule and congestion ends.
CalmRestores ==
    quiet ~> \/ failed
             \/ /\ ~congested(limiter)
                /\ ticker.config.recovery /\ ticker.config.recoveryRate > 0
                   => ticker.overflow = 0
=============================================================================
