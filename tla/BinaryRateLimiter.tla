------------------------- MODULE BinaryRateLimiter -------------------------
(***************************************************************************)
(* shared/binary_rate_limiter.rs: sends every packet in good mode, and one *)
(* in MaxTick while congested.                                             *)
(*                                                                         *)
(* The round-trip time is above the threshold ("bad" conditions) or not.   *)
(* An Instant is kept as its age, in ticks: that of last_bad_time counted  *)
(* as far as delay_until_good_mode may reach, that of last_good_time as    *)
(* far as TogglePeriod, the only value it is compared with.                *)
(***************************************************************************)
EXTENDS Naturals

CONSTANTS MaxTick,       \* max_tick, 3 for every send rate
          MinDelay,      \* MIN_GOOD_MODE_TIME_DELAY
          MaxDelay,      \* MAX_GOOD_MODE_TIME_DELAY
          TogglePeriod   \* the 10 seconds of update()

ASSUME LimiterAssumption ==
    /\ MaxTick \in Nat \ {0} /\ MinDelay \in Nat /\ MaxDelay \in Nat
    /\ TogglePeriod \in Nat \ {0}
    /\ MinDelay <= MaxDelay

NewLimiter ==
    [tick |-> 0, bad |-> FALSE, sinceBad |-> 0, sinceGood |-> 0,
     goodTime |-> 0, delay |-> MinDelay]

\* reset()
LimiterReset(l) == NewLimiter

LimiterElapse(l) ==
    [l EXCEPT !.sinceBad = IF @ > MaxDelay THEN @ ELSE @ + 1,
              !.sinceGood = IF @ > TogglePeriod THEN @ ELSE @ + 1]

congested(l) == l.bad

should_send(l) == ~congested(l) \/ l.tick = 0

\* The conditions are noted.
Noted(l, bad) ==
    IF bad THEN [l EXCEPT !.sinceBad = 0, !.goodTime = 0]
    ELSE [l EXCEPT !.goodTime = @ + l.sinceGood, !.sinceGood = 0]

\* Mutant: the delay is not clamped.
DoubledUnclamped(delay) == delay * 2

Doubled(delay) == IF delay * 2 > MaxDelay THEN MaxDelay ELSE delay * 2

\* Good mode and bad conditions.  (last_bad_time was set a moment ago, so that
\* the comparison always succeeds.)
Drop(l) ==
    [l EXCEPT !.bad = TRUE,
              !.delay = IF l.sinceBad < TogglePeriod THEN Doubled(@) ELSE @]

\* Good mode and good conditions.
Stay(l) ==
    IF l.goodTime < TogglePeriod THEN l
    ELSE [l EXCEPT !.goodTime = @ - TogglePeriod,
                   !.delay = IF @ < MinDelay THEN MinDelay ELSE @]

\* Bad mode, whatever the conditions.
Recover(l) == IF l.sinceBad > l.delay THEN [l EXCEPT !.bad = FALSE] ELSE l

\* Mutant: the tick stays at its largest value.
NextTickNoWrap(tick) == IF tick = MaxTick - 1 THEN tick ELSE tick + 1

NextTick(tick) == IF tick + 1 = MaxTick THEN 0 ELSE tick + 1

\* update()
LimiterUpdate(l, bad) ==
    LET Moded(n) == IF l.bad THEN Recover(n)
                    ELSE IF bad THEN Drop(n) ELSE Stay(n)
    IN  [Moded(Noted(l, bad)) EXCEPT !.tick = NextTick(@)]
=============================================================================
