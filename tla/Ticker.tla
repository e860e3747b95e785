------------------------------- MODULE Ticker -------------------------------
(***************************************************************************)
(* shared/ticker.rs: the sleep at the end of a tick, and the time by which *)
(* ticks have been late, which later ticks make up for.                    *)
(*                                                                         *)
(* Times are numbers of a unit (the source counts nanoseconds) of which a  *)
(* second has Second.  tick_start is kept as the time since then.  The     *)
(* recovery rate, a float from 0 to 1, is a number of RateSteps-ths.       *)
(***************************************************************************)
EXTENDS Naturals

CONSTANTS Second, RateSteps

ASSUME TickerAssumption == Second \in Nat \ {0} /\ RateSteps \in Nat \ {0}

\* The fields of Config that matter to a tick.
TickConfigs ==
    [sendRate : 1..Second, recovery : BOOLEAN, recoveryRate : 0..RateSteps]

Smaller(a, b) == IF a <= b THEN a ELSE b
Larger(a, b) == IF a >= b THEN a ELSE b

\* 1000000000 / config.send_rate
TickDelay(config) == Second \div config.sendRate

NewTicker(config) == [elapsed |-> 0, overflow |-> 0, config |-> config]

TickerSetConfig(t, config) == [t EXCEPT !.config = config]

BeginTick(t) == [t EXCEPT !.elapsed = 0]

TickerReset(t) == [t EXCEPT !.elapsed = 0, !.overflow = 0]

\* Time passes.
TickerElapse(t, time) == [t EXCEPT !.elapsed = @ + time]

\* The time a tick has left after its work, and the part of it that may be
\* given up.
Spare(t) == TickDelay(t.config) - Smaller(t.elapsed, TickDelay(t.config))

\* Mutant: the rate is an integer before it is multiplied.
CorrectionRounded(t) == Spare(t) * (t.config.recoveryRate \div RateSteps)

Correction(t) == (Spare(t) * t.config.recoveryRate) \div RateSteps

\* The overflow with that of the current tick.
FullOverflow(t) ==
    t.overflow + (t.elapsed - Smaller(t.elapsed, TickDelay(t.config)))

\* Mutant: whatever the overflow, a correction makes up for all of it.
RemainingForgiven(t) == IF Correction(t) > 0 THEN 0 ELSE FullOverflow(t)

\* cmp::max(0, tick_overflow - correction)
Remaining(t) == FullOverflow(t) - Smaller(FullOverflow(t), Correction(t))

\* end_tick(): how long it sleeps, and the ticker when it is awake again.
SleepTime(t) ==
    IF t.config.recovery
    THEN Spare(t) - Smaller(FullOverflow(t), Correction(t))
    ELSE Spare(t)

EndTick(t) ==
    [t EXCEPT !.elapsed = @ + SleepTime(t),
              !.overflow = IF t.config.recovery THEN Remaining(t) ELSE @]
=============================================================================
