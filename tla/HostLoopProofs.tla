--------------------------- MODULE HostLoopProofs ---------------------------
(***************************************************************************)
(* Theorems about the loop of a host, for all tick configurations, all     *)
(* working times and all limits of the rate limiter.                       *)
(***************************************************************************)
EXTENDS HostLoop, FoundationProofs

-----------------------------------------------------------------------------
(* The ticker *)

LEMMA SmallerBounds ==
    ASSUME NEW a \in Nat, NEW b \in Nat
    PROVE  /\ Smaller(a, b) \in Nat
           /\ Smaller(a, b) <= a /\ Smaller(a, b) <= b
  BY DEF Smaller

Tickers == [elapsed : Nat, overflow : Nat, config : TickConfigs]

LEMMA DelayIsNat ==
    ASSUME NEW config \in TickConfigs
    PROVE  TickDelay(config) \in Nat
  <1>1. config.sendRate \in Nat \ {0} /\ Second \in Nat
    BY TickerAssumption DEF TickConfigs
  <1> QED
    BY <1>1 DEF TickDelay

\* A part of the spare time is not more than all of it.
LEMMA PartIsLess ==
    ASSUME NEW a \in Nat, NEW n \in Nat \ {0}, NEW k \in 0..n
    PROVE  (a * k) \div n \in Nat /\ (a * k) \div n <= a
  <1>1. a * k \in Nat /\ a * n \in Nat /\ a * k <= a * n
    OBVIOUS
  <1>2. (a * k) \div n \in Nat /\ n * ((a * k) \div n) <= a * k
    BY <1>1
  <1>3. n * ((a * k) \div n) <= n * a
    BY <1>1, <1>2
  <1> DEFINE q == (a * k) \div n
  <1> HIDE DEF q
  <1>4. q \in Nat /\ n * q <= n * a
    BY <1>2, <1>3 DEF q
  <1>5. q <= a
    BY <1>4
  <1> QED
    BY <1>4, <1>5 DEF q

LEMMA TickTerms ==
    ASSUME NEW t \in Tickers
    PROVE  /\ TickDelay(t.config) \in Nat /\ t.elapsed \in Nat
           /\ t.overflow \in Nat
           /\ Smaller(t.elapsed, TickDelay(t.config)) \in Nat
           /\ Spare(t) \in 0..TickDelay(t.config)
           /\ Correction(t) \in 0..Spare(t)
           /\ FullOverflow(t) \in Nat
           /\ Smaller(FullOverflow(t), Correction(t)) \in 0..Spare(t)
           /\ Smaller(FullOverflow(t), Correction(t)) <= FullOverflow(t)
  <1>1. /\ t.config \in TickConfigs /\ t.elapsed \in Nat /\ t.overflow \in Nat
    BY DEF Tickers
  <1> DEFINE delay == TickDelay(t.config)
             due2 == Smaller(t.elapsed, delay)
  <1>2. delay \in Nat
    BY <1>1, DelayIsNat
  <1> HIDE DEF delay
  <1>3. due2 \in Nat /\ due2 <= t.elapsed /\ due2 <= delay
    BY <1>1, <1>2, SmallerBounds
  <1> HIDE DEF due2
  <1>4. Spare(t) \in 0..delay
    <2>1. Spare(t) = delay - due2
      BY DEF Spare, delay, due2
    <2> QED
      BY <1>2, <1>3, <2>1
  <1>5. FullOverflow(t) \in Nat
    <2>1. FullOverflow(t) = t.overflow + (t.elapsed - due2)
      BY DEF FullOverflow, delay, due2
    <2> QED
      BY <1>1, <1>3, <2>1
  <1>6. Correction(t) \in 0..Spare(t)
    <2>1. t.config.recoveryRate \in 0..RateSteps /\ RateSteps \in Nat \ {0}
      BY <1>1, TickerAssumption DEF TickConfigs
    <2>2. Spare(t) \in Nat
      BY <1>2, <1>4
    <2>3. Correction(t) \in Nat /\ Correction(t) <= Spare(t)
      BY <2>1, <2>2, PartIsLess DEF Correction
    <2> QED
      BY <2>2, <2>3
  <1>7. /\ Smaller(FullOverflow(t), Correction(t)) \in 0..Spare(t)
        /\ Smaller(FullOverflow(t), Correction(t)) <= FullOverflow(t)
    <2> DEFINE f == FullOverflow(t)
               c == Correction(t)
               s == Spare(t)
    <2>1. f \in Nat /\ c \in Nat /\ c <= s /\ s \in Nat
      BY <1>2, <1>4, <1>5, <1>6
    <2> HIDE DEF f, c, s
    <2>2. Smaller(f, c) \in Nat /\ Smaller(f, c) <= f /\ Smaller(f, c) <= c
      BY <2>1, SmallerBounds
    <2>3. Smaller(f, c) \in 0..s /\ Smaller(f, c) <= f
      BY <2>1, <2>2
    <2> QED
      BY <2>3 DEF f, c, s
  <1> QED
    BY <1>1, <1>2, <1>3, <1>4, <1>5, <1>6, <1>7 DEF delay, due2

\* end_tick() accounts for all time: what the tick took and slept is the delay
\* and what the overflow grew by.
LEMMA EndTickEffect ==
    ASSUME NEW t \in Tickers
    PROVE  /\ SleepTime(t) \in 0..TickDelay(t.config)
           /\ EndTick(t) \in Tickers
           /\ EndTick(t).config = t.config
           /\ t.config.recovery =>
                 EndTick(t).overflow =
                    (t.overflow + t.elapsed + SleepTime(t)) - TickDelay(t.config)
  <1> DEFINE delay == TickDelay(t.config)
             used == Smaller(t.elapsed, delay)
             made == Smaller(FullOverflow(t), Correction(t))
  <1>1. /\ delay \in Nat /\ t.elapsed \in Nat /\ t.overflow \in Nat
        /\ used \in Nat
        /\ Spare(t) \in 0..delay /\ FullOverflow(t) \in Nat
        /\ made \in 0..Spare(t) /\ made <= FullOverflow(t)
    BY TickTerms
  <1>2. /\ Spare(t) = delay - used
        /\ FullOverflow(t) = t.overflow + (t.elapsed - used)
        /\ Remaining(t) = FullOverflow(t) - made
        /\ SleepTime(t) = IF t.config.recovery THEN Spare(t) - made ELSE Spare(t)
    BY DEF Spare, FullOverflow, Remaining, SleepTime
  <1> HIDE DEF delay, used, made
  <1>3. SleepTime(t) \in 0..delay /\ Remaining(t) \in Nat
    BY <1>1, <1>2
  <1>4. EndTick(t) \in Tickers /\ EndTick(t).config = t.config
        /\ EndTick(t).overflow = IF t.config.recovery THEN Remaining(t)
                                 ELSE t.overflow
    <2> DEFINE sleep == SleepTime(t)
               left == Remaining(t)
    <2>1. EndTick(t) = [t EXCEPT !.elapsed = @ + sleep,
                           !.overflow = IF t.config.recovery THEN left ELSE @]
      BY DEF EndTick
    <2>2. sleep \in Nat /\ left \in Nat
      BY <1>1, <1>3
    <2> HIDE DEF sleep, left
    <2>3. t.elapsed + sleep \in Nat
      BY <1>1, <2>2
    <2> QED
      BY <2>1, <2>2, <2>3 DEF Tickers, left
  <1>5. t.config.recovery =>
           Remaining(t) = (t.overflow + t.elapsed + SleepTime(t)) - delay
    BY <1>1, <1>2
  <1> QED
    BY <1>3, <1>4, <1>5 DEF delay

-----------------------------------------------------------------------------
(* The statistics and the rate limiter *)

Rings(rate) ==
    [tick : Nat, rate : {rate}, buckets : [Directions -> [0..rate -> Nat]],
     averages : [Directions -> Nat]]

StatsTyped(s) == \E rate \in Nat \ {0} : s \in Rings(rate)

LEMMA ZerosTyped ==
    ASSUME NEW rate \in Nat
    PROVE  /\ Zeros(rate) \in [Directions -> [0..rate -> Nat]]
           /\ NoBytes \in [Directions -> Nat]
  BY DEF Zeros, NoBytes

LEMMA OldIndexInRing ==
    ASSUME NEW rate \in Nat, NEW s \in Rings(rate)
    PROVE  OldIndex(s) \in 0..rate
  <1>1. s.tick \in Nat /\ s.rate = rate
    BY DEF Rings
  <1>2. (s.tick + 1) % (rate + 1) \in 0..rate
    <2> DEFINE t == s.tick + 1
               r == rate + 1
    <2>1. t \in Nat /\ r \in Nat \ {0}
      BY <1>1
    <2> HIDE DEF t, r
    <2>2. t % r \in 0..(r - 1)
      BY <2>1
    <2>3. r - 1 = rate
      BY DEF r
    <2> QED
      BY <2>2, <2>3 DEF t, r
  <1> QED
    BY <1>1, <1>2 DEF OldIndex

LEMMA SetBytesTyped ==
    ASSUME NEW s, StatsTyped(s), NEW d \in Directions, NEW bytes \in Nat,
           ~SetBytesFails(s, d)
    PROVE  StatsTyped(SetBytes(s, d, bytes))
  <1>1. PICK rate \in Nat \ {0} : s \in Rings(rate)
    BY DEF StatsTyped
  <1>2. /\ s.tick \in Nat /\ s.rate = rate
        /\ s.buckets \in [Directions -> [0..rate -> Nat]]
        /\ s.averages \in [Directions -> Nat]
    BY <1>1 DEF Rings
  <1>3. OldIndex(s) \in 0..rate
    BY <1>1, OldIndexInRing
  <1> DEFINE old == s.buckets[d][OldIndex(s)]
             sum == (s.averages[d] - old) + bytes
  <1>4. old \in Nat /\ s.averages[d] \in Nat
    BY <1>2, <1>3
  <1>5. old <= s.averages[d] /\ s.tick \in 0..rate
    <2>1. ~(s.averages[d] < old) /\ ~(s.tick > rate)
      BY <1>2 DEF SetBytesFails
    <2> HIDE DEF old
    <2> QED
      BY <1>2, <1>4, <2>1
  <1>6. sum \in Nat
    <2> HIDE DEF old
    <2> QED
      BY <1>4, <1>5
  <1> DEFINE ring == [s.buckets[d] EXCEPT ![s.tick] = bytes]
  <1>7. ring \in [0..rate -> Nat]
    BY <1>2, <1>5
  <1>8. SetBytes(s, d, bytes) = [s EXCEPT !.averages[d] = sum,
                                          !.buckets[d] = ring]
    BY DEF SetBytes
  <1> HIDE DEF old, sum, ring
  <1>9. [s EXCEPT !.averages[d] = sum, !.buckets[d] = ring] \in Rings(rate)
    BY <1>1, <1>6, <1>7 DEF Rings
  <1> QED
    BY <1>8, <1>9 DEF StatsTyped

LEMMA StatsTickTyped ==
    ASSUME NEW s, StatsTyped(s)
    PROVE  StatsTyped(StatsTick(s))
  <1>1. PICK rate \in Nat \ {0} : s \in Rings(rate)
    BY DEF StatsTyped
  <1> DEFINE next == (s.tick + 1) % (s.rate + 1)
  <1>2. next \in Nat
    <2>1. next \in 0..rate
      BY <1>1, OldIndexInRing DEF OldIndex
    <2> QED
      BY <2>1
  <1>3. StatsTick(s) = [s EXCEPT !.tick = next]
    BY DEF StatsTick
  <1> HIDE DEF next
  <1>4. StatsTick(s) \in Rings(rate)
    BY <1>1, <1>2, <1>3 DEF Rings
  <1> QED
    BY <1>4 DEF StatsTyped

LEMMA NewStatsTyped ==
    ASSUME NEW rate \in Nat \ {0}
    PROVE  StatsTyped(NewStats(rate))
  <1>1. NewStats(rate) \in Rings(rate)
    BY ZerosTyped DEF NewStats, Rings
  <1> QED
    BY <1>1 DEF StatsTyped

LEMMA StatsChangesTyped ==
    ASSUME NEW s, StatsTyped(s)
    PROVE  /\ StatsTyped(StatsReset(s))
           /\ \A rate \in Nat \ {0} : StatsTyped(StatsSetConfig(s, rate))
  <1>1. PICK old \in Nat \ {0} : s \in Rings(old)
    BY DEF StatsTyped
  <1>2. s.rate = old
    BY <1>1 DEF Rings
  <1>3. StatsReset(s) \in Rings(old)
    BY <1>1, <1>2, ZerosTyped DEF Rings, StatsReset
  <1>4. ASSUME NEW rate \in Nat \ {0}
        PROVE  StatsSetConfig(s, rate) \in Rings(rate)
    BY <1>1, ZerosTyped DEF Rings, StatsSetConfig
  <1> QED
    BY <1>3, <1>4 DEF StatsTyped

Limiters ==
    [tick : 0..(MaxTick - 1), bad : BOOLEAN, sinceBad : Nat, sinceGood : Nat,
     goodTime : Nat, delay : MinDelay..MaxDelay]

LEMMA NewLimiterTyped == NewLimiter \in Limiters
  <1>1. 0 \in 0..(MaxTick - 1) /\ MinDelay \in MinDelay..MaxDelay
    BY LimiterAssumption
  <1> QED
    BY <1>1 DEF NewLimiter, Limiters

LEMMA LimiterElapseTyped ==
    ASSUME NEW l \in Limiters
    PROVE  LimiterElapse(l) \in Limiters
  <1> DEFINE bad == IF l.sinceBad > MaxDelay THEN l.sinceBad ELSE l.sinceBad + 1
             good == IF l.sinceGood > TogglePeriod THEN l.sinceGood
                     ELSE l.sinceGood + 1
  <1>1. bad \in Nat /\ good \in Nat
    BY DEF Limiters
  <1>2. LimiterElapse(l) = [l EXCEPT !.sinceBad = bad, !.sinceGood = good]
    BY DEF LimiterElapse
  <1> HIDE DEF bad, good
  <1> QED
    BY <1>1, <1>2 DEF Limiters

\* The mode, the delay and the times stay within their limits.
LEMMA LimiterUpdateTyped ==
    ASSUME NEW l \in Limiters, NEW bad \in BOOLEAN
    PROVE  LimiterUpdate(l, bad) \in Limiters
  <1> DEFINE n == Noted(l, bad)
             m == IF l.bad THEN Recover(n) ELSE IF bad THEN Drop(n) ELSE Stay(n)
             next == NextTick(m.tick)
  <1>1. n \in Limiters
    <2>1. CASE bad
      BY <2>1 DEF Noted, Limiters
    <2>2. CASE ~bad
      <3>1. l.goodTime + l.sinceGood \in Nat
        BY DEF Limiters
      <3> QED
        BY <2>2, <3>1 DEF Noted, Limiters
    <2> QED
      BY <2>1, <2>2
  <1> HIDE DEF n
  <1>2. Recover(n) \in Limiters
    BY <1>1 DEF Recover, Limiters
  <1>3. Drop(n) \in Limiters
    <2> DEFINE longer == IF n.sinceBad < TogglePeriod THEN Doubled(n.delay)
                         ELSE n.delay
    <2>1. Doubled(n.delay) \in MinDelay..MaxDelay /\ n.delay \in MinDelay..MaxDelay
      BY <1>1, LimiterAssumption DEF Doubled, Limiters
    <2>2. longer \in MinDelay..MaxDelay
      BY <2>1
    <2>3. Drop(n) = [n EXCEPT !.bad = TRUE, !.delay = longer]
      BY DEF Drop
    <2> HIDE DEF longer
    <2> QED
      BY <1>1, <2>2, <2>3 DEF Limiters
  <1>4. Stay(n) \in Limiters
    <2>1. CASE n.goodTime < TogglePeriod
      BY <1>1, <2>1 DEF Stay
    <2>2. CASE ~(n.goodTime < TogglePeriod)
      <3> DEFINE time == n.goodTime - TogglePeriod
                 least == IF n.delay < MinDelay THEN MinDelay ELSE n.delay
      <3>1. time \in Nat
        BY <1>1, <2>2, LimiterAssumption DEF Limiters
      <3>2. least \in MinDelay..MaxDelay
        BY <1>1, LimiterAssumption DEF Limiters
      <3>3. Stay(n) = [n EXCEPT !.goodTime = time, !.delay = least]
        BY <2>2 DEF Stay
      <3> HIDE DEF time, least
      <3> QED
        BY <1>1, <3>1, <3>2, <3>3 DEF Limiters
    <2> QED
      BY <2>1, <2>2
  <1>5. m \in Limiters
    BY <1>2, <1>3, <1>4
  <1>6. LimiterUpdate(l, bad) = [m EXCEPT !.tick = next]
    BY DEF LimiterUpdate, n
  <1> HIDE DEF m
  <1>7. next \in 0..(MaxTick - 1)
    <2>1. m.tick \in 0..(MaxTick - 1)
      BY <1>5 DEF Limiters
    <2> QED
      BY <2>1, LimiterAssumption DEF NextTick
  <1> HIDE DEF next
  <1> QED
    BY <1>5, <1>6, <1>7 DEF Limiters

-----------------------------------------------------------------------------
(* Sums *)

\* A sum is the last of the partial sums.
PartialSums(g, s) ==
    /\ g \in [0..Len(s) -> Nat]
    /\ g[0] = 0 /\ \A i \in 1..Len(s) : g[i] = g[i - 1] + s[i]

LEMMA TotalRuns ==
    ASSUME NEW s \in Seq(Nat)
    PROVE  \E g : PartialSums(g, s) /\ Total(s) = g[Len(s)]
  <1> DEFINE n == Len(s)
             Sum(it) == it = [S \in SUBSET (1..n) |->
                 IF S = {} THEN 0 ELSE it[S \ {Max(S)}] + s[Max(S)]]
             sum == CHOOSE it : Sum(it)
             F == [x \in Nat \X (1..n) |-> x[1] + s[x[2]]]
  <1>1. n \in Nat /\ DOMAIN s = 1..n /\ F \in [Nat \X (1..n) -> Nat]
    OBVIOUS
  <1>2. Total(s) = sum[1..n]
    BY <1>1 DEF Total, FoldLeft, MapThenFoldSet
  <1>3. PICK known \in [SUBSET (1..n) -> Nat] : Unfolds(known, n, 0, F)
    BY <1>1, FoldExists
  <1>4. Sum(known)
    <2>1. ASSUME NEW S \in SUBSET (1..n), S # {}
          PROVE  F[known[S \ {Max(S)}], Max(S)] = known[S \ {Max(S)}] + s[Max(S)]
      <3> DEFINE m == Max(S)
      <3>1. m \in 1..n /\ S \ {m} \in SUBSET (1..n)
        BY <1>1, <2>1, MaxOfRange
      <3> HIDE DEF m
      <3> QED
        BY <1>3, <3>1 DEF m
    <2> HIDE DEF F
    <2> QED
      BY <1>3, <2>1 DEF Unfolds
  <1>5. Sum(sum)
    BY <1>4
  <1> HIDE DEF sum
  <1>6. UnfoldsIn(sum, n, Nat, 0, F)
    <2>1. {} \in SUBSET (1..n)
      OBVIOUS
    <2>2. sum[{}] = 0
      BY <1>5, <2>1
    <2>3. ASSUME NEW S \in SUBSET (1..n), S # {}, sum[S \ {Max(S)}] \in Nat
          PROVE  sum[S] = F[sum[S \ {Max(S)}], Max(S)]
      <3> DEFINE m == Max(S)
                 before == sum[S \ {m}]
      <3>1. m \in 1..n
        BY <1>1, <2>3, MaxOfRange
      <3>2. sum[S] = before + s[m] /\ before \in Nat
        BY <1>5, <2>3
      <3> HIDE DEF m, before
      <3>3. F[before, m] = before + s[m]
        BY <3>1, <3>2
      <3> QED
        BY <3>2, <3>3 DEF before, m
    <2> QED
      BY <2>2, <2>3 DEF UnfoldsIn
  <1>7. PICK g : Runs(g, n, Nat, 0, F, sum)
    <2> HIDE DEF F, n
    <2>1. 0 \in Nat
      OBVIOUS
    <2>2. n \in Nat /\ F \in Steps(Nat, n)
      BY <1>1 DEF Steps
    <2> QED
      BY <1>6, <2>1, <2>2, FoldRuns
  <1>8. \A k \in 1..n : k - 1 \in 0..n
    BY <1>1
  <1>9. PartialSums(g, s)
    BY <1>1, <1>7, <1>8 DEF Runs, PartialSums
  <1> QED
    BY <1>2, <1>7, <1>9 DEF Runs

LEMMA TotalEmpty == Total(<<>>) = 0
  <1>1. PICK g : PartialSums(g, <<>>) /\ Total(<<>>) = g[Len(<<>>)]
    <2>1. <<>> \in Seq(Nat)
      OBVIOUS
    <2> QED
      BY <2>1, TotalRuns
  <1> QED
    BY <1>1 DEF PartialSums

LEMMA TotalIsNat ==
    ASSUME NEW s \in Seq(Nat)
    PROVE  Total(s) \in Nat
  <1>1. PICK g : PartialSums(g, s) /\ Total(s) = g[Len(s)]
    BY TotalRuns
  <1>2. Len(s) \in 0..Len(s)
    OBVIOUS
  <1> QED
    BY <1>1, <1>2 DEF PartialSums

LEMMA AppendFacts ==
    ASSUME NEW s \in Seq(Nat), NEW x \in Nat
    PROVE  LET t == Append(s, x)
           IN  /\ t \in Seq(Nat) /\ Len(t) = Len(s) + 1 /\ t # <<>>
               /\ t[Len(s) + 1] = x
               /\ \A i \in 1..Len(s) : t[i] = s[i]
  OBVIOUS

LEMMA TailFacts ==
    ASSUME NEW s \in Seq(Nat), s # <<>>
    PROVE  LET t == Tail(s)
           IN  /\ t \in Seq(Nat) /\ Len(s) = Len(t) + 1
               /\ Head(s) = s[1] /\ s[1] \in Nat
               /\ \A i \in 1..Len(t) : t[i] = s[i + 1]
  OBVIOUS

LEMMA TotalAppend ==
    ASSUME NEW s \in Seq(Nat), NEW x \in Nat
    PROVE  Total(Append(s, x)) = Total(s) + x
  <1> DEFINE t == Append(s, x)
             n == Len(s)
  <1>1. /\ t \in Seq(Nat) /\ n \in Nat /\ Len(t) = n + 1 /\ t[n + 1] = x
        /\ \A i \in 1..n : t[i] = s[i]
    OBVIOUS
  <1>2. PICK g : PartialSums(g, s) /\ Total(s) = g[n]
    BY TotalRuns
  <1>3. PICK h : PartialSums(h, t) /\ Total(t) = h[Len(t)]
    BY <1>1, TotalRuns
  <1> DEFINE S == {i \in 0..n : h[i] = g[i]}
  <1> HIDE DEF t, n
  <1>4. 0 \in S
    BY <1>1, <1>2, <1>3 DEF PartialSums
  <1>5. ASSUME NEW i \in 0..(n - 1), i \in S
        PROVE  i + 1 \in S
    <2>1. i + 1 \in 1..n /\ i + 1 \in 1..Len(t) /\ (i + 1) - 1 = i
      BY <1>1
    <2>2. g[i + 1] = g[i] + s[i + 1] /\ h[i + 1] = h[i] + t[i + 1]
      BY <1>2, <1>3, <2>1 DEF PartialSums, n
    <2> QED
      BY <1>1, <1>5, <2>1, <2>2
  <1> HIDE DEF S
  <1>6. n \in Nat /\ 0..n \subseteq S
    BY <1>1, <1>4, <1>5, SetInduction
  <1>7. h[n] = g[n]
    <2>1. n \in 0..n
      BY <1>6
    <2> QED
      BY <1>6, <2>1 DEF S
  <1>8. h[n + 1] = h[n] + x
    <2>1. n + 1 \in 1..Len(t) /\ (n + 1) - 1 = n
      BY <1>1
    <2> QED
      BY <1>1, <1>3, <2>1 DEF PartialSums
  <1> QED
    BY <1>1, <1>2, <1>3, <1>7, <1>8 DEF t

LEMMA TotalTail ==
    ASSUME NEW s \in Seq(Nat), s # <<>>
    PROVE  /\ Total(s) = Head(s) + Total(Tail(s))
           /\ Total(Tail(s)) \in Nat
  <1> DEFINE t == Tail(s)
             n == Len(t)
  <1>1. /\ t \in Seq(Nat) /\ n \in Nat /\ Len(s) = n + 1
        /\ Head(s) = s[1] /\ s[1] \in Nat
        /\ \A i \in 1..n : t[i] = s[i + 1]
    OBVIOUS
  <1>2. PICK g : PartialSums(g, s) /\ Total(s) = g[n + 1]
    BY <1>1, TotalRuns
  <1>3. PICK h : PartialSums(h, t) /\ Total(t) = h[n]
    BY <1>1, TotalRuns
  <1> DEFINE S == {i \in 0..n : g[i + 1] = s[1] + h[i]}
  <1>0. n = Len(t)
    OBVIOUS
  <1> HIDE DEF t, n
  <1>4. 0 \in S
    <2>1. g[1] = g[1 - 1] + s[1] /\ g[0] = 0 /\ h[0] = 0 /\ 1 - 1 = 0 /\ 0 + 1 = 1
      BY <1>1, <1>2, <1>3 DEF PartialSums
    <2>2. g[0 + 1] = s[1] + h[0]
      BY <1>1, <2>1
    <2> QED
      BY <1>1, <2>2
  <1>5. ASSUME NEW i \in 0..(n - 1), i \in S
        PROVE  i + 1 \in S
    <2>1. /\ i + 1 \in 1..n /\ (i + 1) - 1 = i
          /\ (i + 1) + 1 \in 1..Len(s) /\ ((i + 1) + 1) - 1 = i + 1
      BY <1>1
    <2>2. g[(i + 1) + 1] = g[i + 1] + s[(i + 1) + 1]
      BY <1>2, <2>1 DEF PartialSums
    <2>3. h[i + 1] = h[i] + t[i + 1]
      BY <1>0, <1>3, <2>1 DEF PartialSums
    <2>5. i \in 0..Len(t)
      BY <1>0, <1>1
    <2>7. h[i] \in Nat
      BY <1>3, <2>5 DEF PartialSums
    <2>6. t[i + 1] \in Nat
      BY <1>0, <1>1, <2>1
    <2>4. g[i + 1] = s[1] + h[i] /\ t[i + 1] = s[(i + 1) + 1]
      BY <1>1, <1>5, <2>1
    <2> QED
      BY <1>1, <2>1, <2>2, <2>3, <2>4, <2>6, <2>7
  <1> HIDE DEF S
  <1>6. n \in Nat /\ 0..n \subseteq S
    BY <1>1, <1>4, <1>5, SetInduction
  <1>7. g[n + 1] = s[1] + h[n]
    <2>1. n \in 0..n
      BY <1>6
    <2> QED
      BY <1>6, <2>1 DEF S
  <1>8. h[n] \in Nat
    BY <1>0, <1>1, <1>3 DEF PartialSums
  <1> QED
    BY <1>1, <1>2, <1>3, <1>7, <1>8 DEF t

-----------------------------------------------------------------------------
(* The ring *)

\* The bucket that was filled k ticks before bucket t.
Back(t, k, rate) == IF t >= k THEN t - k ELSE (t - k) + rate + 1

\* The buckets hold the numbers of `recent', the last one `age' ticks ago (0 or
\* 1), and zeros for the ticks before; one more bucket is about to be filled
\* (age 1) or about to leave (age 0).  The sum counts the recent ones.
Ring(buckets, sum, recents, t, rate, age) ==
    /\ recents \in Seq(Nat) /\ Len(recents) <= rate
    /\ sum = Total(recents)
    /\ \A j \in 0..(rate - 1) :
          buckets[Back(t, j + age, rate)] =
             IF j < Len(recents) THEN recents[Len(recents) - j] ELSE 0

LEMMA NextIndex ==
    ASSUME NEW rate \in Nat, NEW t \in 0..rate
    PROVE  (t + 1) % (rate + 1) = IF t = rate THEN 0 ELSE t + 1
  <1> DEFINE M == rate + 1
  <1>1. M \in Nat \ {0} /\ t \in Nat /\ t \in 0..(M - 1)
    OBVIOUS
  <1> HIDE DEF M
  <1>2. CASE t + 1 < M
    <2>1. t + 1 \in 0..(M - 1) /\ (M * 0) + (t + 1) = t + 1 /\ 0 \in Int
      BY <1>1, <1>2
    <2>2. ((M * 0) + (t + 1)) % M = t + 1
      BY <1>1, <2>1, ModOfSum
    <2> QED
      BY <1>2, <2>1, <2>2 DEF M
  <1>3. CASE t + 1 = M
    <2>1. 0 \in 0..(M - 1) /\ (M * 1) + 0 = t + 1 /\ 1 \in Int
      BY <1>1, <1>3
    <2>2. ((M * 1) + 0) % M = 0
      BY <1>1, <2>1, ModOfSum
    <2>3. (t + 1) % M = 0
      BY <2>1, <2>2
    <2> QED
      BY <1>1, <1>3, <2>3 DEF M
  <1> QED
    BY <1>1, <1>2, <1>3

\* A tick later everything is one more tick ago.
LEMMA RingTick ==
    ASSUME NEW rate \in Nat \ {0}, NEW t \in 0..rate, NEW buckets, NEW sum,
           NEW recents, Ring(buckets, sum, recents, t, rate, 0)
    PROVE  /\ (t + 1) % (rate + 1) \in 0..rate
           /\ Ring(buckets, sum, recents, (t + 1) % (rate + 1), rate, 1)
  <1> DEFINE u == (t + 1) % (rate + 1)
  <1>1. u = IF t = rate THEN 0 ELSE t + 1
    BY NextIndex
  <1> HIDE DEF u
  <1>2. u \in 0..rate
    BY <1>1
  <1>3. ASSUME NEW j \in 0..(rate - 1)
        PROVE  Back(u, j + 1, rate) = Back(t, j + 0, rate)
    BY <1>1 DEF Back
  <1>4. Ring(buckets, sum, recents, u, rate, 1)
    BY <1>3 DEF Ring
  <1> QED
    BY <1>2, <1>4 DEF u

\* The oldest bucket never holds more than the sum.
LEMMA RingOldest ==
    ASSUME NEW rate \in Nat \ {0}, NEW t \in 0..rate, NEW buckets, NEW sum,
           NEW recents, Ring(buckets, sum, recents, t, rate, 1)
    PROVE  LET old == buckets[(t + 1) % (rate + 1)]
           IN  /\ old \in Nat /\ old <= sum /\ sum \in Nat
               /\ old = IF Len(recents) = rate THEN Head(recents) ELSE 0
  <1> DEFINE old == buckets[(t + 1) % (rate + 1)]
             n == Len(recents)
  <1>1. (t + 1) % (rate + 1) = IF t = rate THEN 0 ELSE t + 1
    BY NextIndex
  <1>2. Back(t, (rate - 1) + 1, rate) = (t + 1) % (rate + 1)
    BY <1>1 DEF Back
  <1>3. /\ recents \in Seq(Nat) /\ n \in Nat /\ n <= rate /\ sum = Total(recents)
        /\ old = IF rate - 1 < n THEN recents[n - (rate - 1)] ELSE 0
    <2>1. rate - 1 \in 0..(rate - 1)
      OBVIOUS
    <2> QED
      BY <1>2, <2>1 DEF Ring
  <1> HIDE DEF old
  <1>4. CASE n = rate
    <2>1. old = recents[1] /\ recents # <<>> /\ recents[1] \in Nat
      BY <1>3, <1>4
    <2>2. Total(recents) = recents[1] + Total(Tail(recents))
          /\ Total(Tail(recents)) \in Nat
      BY <1>3, <2>1, TotalTail
    <2> QED
      BY <1>3, <1>4, <2>1, <2>2 DEF old
  <1>5. CASE n # rate
    <2>1. old = 0
      BY <1>3, <1>5
    <2>2. Total(recents) \in Nat
      BY <1>3, TotalIsNat
    <2> QED
      BY <1>3, <1>5, <2>1, <2>2 DEF old
  <1> QED
    BY <1>4, <1>5

\* The bucket of this tick is filled, the oldest one leaves the sum.
LEMMA RingWrite ==
    ASSUME NEW rate \in Nat \ {0}, NEW t \in 0..rate, NEW sum, NEW recents,
           NEW buckets \in [0..rate -> Nat], NEW bytes \in Nat,
           Ring(buckets, sum, recents, t, rate, 1)
    PROVE  Ring([buckets EXCEPT ![t] = bytes],
                (sum - buckets[(t + 1) % (rate + 1)]) + bytes,
                LastOf(recents, bytes, rate), t, rate, 0)
  <1> DEFINE old == buckets[(t + 1) % (rate + 1)]
             n == Len(recents)
             longer == Append(recents, bytes)
             last == LastOf(recents, bytes, rate)
             new == [buckets EXCEPT ![t] = bytes]
  <1>1. /\ recents \in Seq(Nat) /\ n \in Nat /\ n <= rate /\ sum = Total(recents)
        /\ \A j \in 0..(rate - 1) :
              buckets[Back(t, j + 1, rate)] =
                 IF j < n THEN recents[n - j] ELSE 0
    BY DEF Ring
  <1>2. /\ old \in Nat /\ old <= sum /\ sum \in Nat
        /\ old = IF n = rate THEN Head(recents) ELSE 0
    BY RingOldest
  <1>3. /\ longer \in Seq(Nat) /\ Len(longer) = n + 1 /\ longer # <<>>
        /\ longer[n + 1] = bytes /\ \A i \in 1..n : longer[i] = recents[i]
    BY <1>1, AppendFacts
  <1>4. Total(longer) = sum + bytes
    BY <1>1, TotalAppend
  <1>5. /\ last \in Seq(Nat) /\ Len(last) = IF n = rate THEN n ELSE n + 1
        /\ Total(last) = (sum - old) + bytes
        /\ \A j \in 0..(Len(last) - 1) : last[Len(last) - j] = longer[(n + 1) - j]
    <2>1. CASE n = rate
      <3>1. last = Tail(longer)
        BY <1>1, <1>3, <2>1 DEF LastOf
      <3>2. Head(longer) = Head(recents)
        BY <1>1, <1>3, <2>1
      <3>3. Total(longer) = Head(longer) + Total(last) /\ Total(last) \in Nat
        BY <1>3, <3>1, TotalTail
      <3>4. /\ last \in Seq(Nat) /\ Len(last) = n
            /\ \A i \in 1..n : last[i] = longer[i + 1]
        <4> HIDE DEF last, longer
        <4>1. /\ last \in Seq(Nat) /\ Len(longer) = Len(last) + 1
              /\ \A i \in 1..Len(last) : last[i] = longer[i + 1]
          BY <1>3, <3>1, TailFacts
        <4>2. Len(last) = n
          BY <1>1, <1>3, <4>1
        <4> QED
          BY <4>1, <4>2
      <3>5. Total(last) = (sum - old) + bytes
        BY <1>2, <1>4, <2>1, <3>2, <3>3
      <3> HIDE DEF last, longer
      <3>6. ASSUME NEW j \in 0..(Len(last) - 1)
            PROVE  last[Len(last) - j] = longer[(n + 1) - j]
        <4>1. n - j \in 1..n /\ (n - j) + 1 = (n + 1) - j
          BY <1>1, <3>4
        <4> QED
          BY <3>4, <4>1
      <3> QED
        BY <2>1, <3>4, <3>5, <3>6
    <2>2. CASE n # rate
      <3>1. last = longer
        BY <1>1, <1>3, <2>2 DEF LastOf
      <3> HIDE DEF last, longer
      <3>2. Len(last) = n + 1 /\ last \in Seq(Nat)
        BY <1>3, <3>1
      <3>3. Total(last) = (sum - old) + bytes
        BY <1>2, <1>4, <2>2, <3>1
      <3> QED
        BY <2>2, <3>1, <3>2, <3>3
    <2> QED
      BY <2>1, <2>2
  <1> HIDE DEF last, longer, old
  <1>6. ASSUME NEW j \in 0..(rate - 1)
        PROVE  new[Back(t, j + 0, rate)] =
                  IF j < Len(last) THEN last[Len(last) - j] ELSE 0
    <2>1. CASE j = 0
      <3>1. Back(t, j + 0, rate) = t /\ new[t] = bytes
        BY <2>1 DEF Back
      <3>2. 0 \in 0..(Len(last) - 1) /\ 0 < Len(last) /\ (n + 1) - 0 = n + 1
        BY <1>1, <1>5
      <3>3. last[Len(last) - 0] = bytes
        BY <1>3, <1>5, <3>2
      <3> QED
        BY <2>1, <3>1, <3>2, <3>3
    <2>2. CASE j # 0
      <3> DEFINE k == j - 1
      <3>1. k \in 0..(rate - 1) /\ k + 1 = j /\ j + 0 = j
        BY <2>2
      <3> HIDE DEF k
      <3>2. Back(t, j, rate) \in (0..rate) \ {t}
        BY <2>2 DEF Back
      <3>3. new[Back(t, j + 0, rate)] = IF k < n THEN recents[n - k] ELSE 0
        BY <1>1, <3>1, <3>2
      <3>4. CASE j < Len(last)
        <4>0. k < n
          BY <1>1, <1>5, <3>1, <3>4
        <4>1a. k \in Nat /\ n \in Nat /\ j \in Nat /\ k + 1 = j
          BY <1>1, <3>1
        <4>1b. n - k \in 1..n
          BY <4>0, <4>1a
        <4>1c. (n + 1) - j = n - k
          BY <4>1a
        <4>1. k < n /\ n - k \in 1..n /\ (n + 1) - j = n - k
          BY <4>0, <4>1b, <4>1c
        <4>2. j \in 0..(Len(last) - 1)
          BY <1>1, <1>5, <3>4
        <4>3. last[Len(last) - j] = longer[n - k]
          BY <1>5, <4>1, <4>2
        <4> QED
          BY <1>3, <3>3, <3>4, <4>1, <4>3
      <3>5. CASE ~(j < Len(last))
        <4>1. ~(k < n)
          BY <1>1, <1>5, <3>1, <3>5
        <4> QED
          BY <3>3, <3>5, <4>1
      <3> QED
        BY <3>4, <3>5
    <2> QED
      BY <2>1, <2>2
  <1> HIDE DEF new
  <1>7. Ring(new, (sum - old) + bytes, last, t, rate, 0)
    BY <1>1, <1>5, <1>6 DEF Ring
  <1> QED
    BY <1>7 DEF new, old, last

LEMMA EmptyRing ==
    ASSUME NEW rate \in Nat \ {0}, NEW t \in 0..rate, NEW age \in {0, 1}
    PROVE  Ring([i \in 0..rate |-> 0], 0, <<>>, t, rate, age)
  <1>1. ASSUME NEW j \in 0..(rate - 1)
        PROVE  Back(t, j + age, rate) \in 0..rate
    BY DEF Back
  <1> QED
    BY <1>1, TotalEmpty, SMTT(30) DEF Ring

\* Both rings of a collector, for what was counted in each direction.
Counts(s, d, recents, age) ==
    Ring(s.buckets[d], s.averages[d], recents, s.tick, s.rate, age)

LEMMA CountBytes ==
    ASSUME NEW s, StatsTyped(s), s.tick <= s.rate, NEW d \in Directions,
           NEW bytes \in Nat, NEW recents, Counts(s, d, recents, 1)
    PROVE  LET new == SetBytes(s, d, bytes)
           IN  /\ ~SetBytesFails(s, d)
               /\ new.tick = s.tick /\ new.rate = s.rate
               /\ Counts(new, d, LastOf(recents, bytes, s.rate), 0)
               /\ \A rs, age : \A other \in Directions \ {d} :
                     Counts(s, other, rs, age) => Counts(new, other, rs, age)
  <1>1. PICK rate \in Nat \ {0} : s \in Rings(rate)
    BY DEF StatsTyped
  <1>2. /\ s.tick \in 0..rate /\ s.rate = rate
        /\ s.buckets \in [Directions -> [0..rate -> Nat]]
        /\ s.averages \in [Directions -> Nat]
        /\ s = [tick |-> s.tick, rate |-> s.rate, buckets |-> s.buckets,
                averages |-> s.averages]
    BY <1>1 DEF Rings
  <1> DEFINE buckets == s.buckets[d]
             sum == s.averages[d]
             t == s.tick
             old == buckets[(t + 1) % (rate + 1)]
  <1>3. buckets \in [0..rate -> Nat] /\ sum \in Nat
    BY <1>2
  <1>4. Ring(buckets, sum, recents, t, rate, 1)
    BY <1>2 DEF Counts
  <1>5. old \in Nat /\ old <= sum /\ sum \in Nat
    BY <1>2, <1>4, RingOldest
  <1>6. ~SetBytesFails(s, d)
    <2> HIDE DEF old, sum
    <2>1. ~(sum < old) /\ ~(t > rate)
      BY <1>2, <1>5
    <2> QED
      BY <1>2, <2>1 DEF SetBytesFails, OldIndex, old, sum
  <1>7. Ring([buckets EXCEPT ![t] = bytes], (sum - old) + bytes,
             LastOf(recents, bytes, rate), t, rate, 0)
    BY <1>2, <1>3, <1>4, RingWrite
  <1> DEFINE new == SetBytes(s, d, bytes)
  <1>8. /\ new.tick = s.tick /\ new.rate = s.rate
        /\ new.buckets = [s.buckets EXCEPT ![d] = [buckets EXCEPT ![t] = bytes]]
        /\ new.averages = [s.averages EXCEPT ![d] = (sum - old) + bytes]
    BY <1>2 DEF SetBytes, OldIndex
  <1>9. /\ new.buckets[d] = [buckets EXCEPT ![t] = bytes]
        /\ new.averages[d] = (sum - old) + bytes
        /\ \A other \in Directions \ {d} :
              /\ new.buckets[other] = s.buckets[other]
              /\ new.averages[other] = s.averages[other]
    BY <1>2, <1>8
  <1> HIDE DEF new, buckets, sum, t, old
  <1>10. Counts(new, d, LastOf(recents, bytes, s.rate), 0)
    BY <1>2, <1>7, <1>8, <1>9 DEF Counts, t
  <1>11. \A rs, age : \A other \in Directions \ {d} :
            Counts(s, other, rs, age) => Counts(new, other, rs, age)
    BY <1>8, <1>9 DEF Counts
  <1> QED
    BY <1>6, <1>8, <1>10, <1>11 DEF new

LEMMA CountTick ==
    ASSUME NEW s, StatsTyped(s), s.tick <= s.rate, NEW d \in Directions,
           NEW recents, Counts(s, d, recents, 0)
    PROVE  LET new == StatsTick(s)
           IN  new.tick <= new.rate /\ Counts(new, d, recents, 1)
  <1>1. PICK rate \in Nat \ {0} : s \in Rings(rate)
    BY DEF StatsTyped
  <1>2. s.tick \in 0..rate /\ s.rate = rate
    BY <1>1 DEF Rings
  <1> DEFINE new == StatsTick(s)
  <1>3. /\ new.tick = (s.tick + 1) % (rate + 1) /\ new.rate = rate
        /\ new.buckets = s.buckets /\ new.averages = s.averages
    BY <1>1, <1>2 DEF StatsTick, Rings
  <1> HIDE DEF new
  <1>4. Ring(s.buckets[d], s.averages[d], recents, s.tick, rate, 0)
    BY <1>2 DEF Counts
  <1>5. /\ new.tick \in 0..rate
        /\ Ring(s.buckets[d], s.averages[d], recents, new.tick, rate, 1)
    BY <1>2, <1>3, <1>4, RingTick
  <1>6. new.tick <= new.rate
    BY <1>3, <1>5
  <1>7. Counts(new, d, recents, 1)
    BY <1>3, <1>5 DEF Counts
  <1> QED
    BY <1>6, <1>7 DEF new

LEMMA CountNothing ==
    ASSUME NEW s, StatsTyped(s), s.tick <= s.rate, NEW d \in Directions,
           s.buckets = Zeros(s.rate), s.averages = NoBytes, NEW age \in {0, 1}
    PROVE  Counts(s, d, <<>>, age)
  <1>1. PICK rate \in Nat \ {0} : s \in Rings(rate)
    BY DEF StatsTyped
  <1>2. s.tick \in 0..rate /\ s.rate = rate
    BY <1>1 DEF Rings
  <1>3. s.buckets[d] = [i \in 0..rate |-> 0] /\ s.averages[d] = 0
    BY <1>2 DEF Zeros, NoBytes
  <1>4. Ring([i \in 0..rate |-> 0], 0, <<>>, s.tick, rate, age)
    BY <1>2, EmptyRing
  <1> QED
    BY <1>2, <1>3, <1>4 DEF Counts

-----------------------------------------------------------------------------
(* The loop *)

HostTypeOK ==
    /\ ticker \in Tickers /\ StatsTyped(stats) /\ limiter \in Limiters
    /\ {mayReceive, failed, quiet} \subseteq BOOLEAN

\* What OnSchedule says at the end of a tick, in the middle of one: the time
\* since the tick began has not been accounted for.
Schedule ==
    /\ "noRecovery" \notin odd => ticker.config.recovery
    /\ odd \subseteq {"setConfig"} =>
          drift = ticker.overflow + IF mayReceive THEN 0 ELSE ticker.elapsed

\* What is counted in a direction in the current tick is in the ring already
\* (age 0) or not yet (age 1): bytes received are counted in the middle of it.
Age(d) == IF d = "received" /\ ~mayReceive THEN 0 ELSE 1

\* As long as nothing unusual has happened the rings hold the histories, unless
\* set_config() has left the tick beyond the rings before the last reset().
Counted ==
    /\ odd \subseteq {"noRecovery", "setConfig", "skipped"}
    /\ DOMAIN recent = Directions
    /\ FailsOnlyWhenOdd
    /\ ~failed /\ odd \subseteq {"noRecovery"} =>
          \/ stats.tick <= stats.rate
             /\ \A d \in Directions : Counts(stats, d, recent[d], Age(d))
          \/ stats.tick > stats.rate
             /\ \A d \in Directions : recent[d] = <<>> /\ stats.averages[d] = 0

HostInv == HostTypeOK /\ Schedule /\ Counted

LEMMA VaryTyped ==
    ASSUME NEW T, NEW input, NEW values \in SUBSET T, NEW calm \in T,
           NEW value \in Vary(input, values, calm)
    PROVE  value \in T
  BY DEF Vary

LEMMA ConfigsTyped ==
    ASSUME NEW config \in Configs
    PROVE  config \in TickConfigs /\ config.sendRate \in Nat \ {0}
  BY HostAssumption, TickerAssumption DEF TickConfigs

LEMMA InitHostInv == Init => HostInv
  <1> SUFFICES ASSUME Init PROVE HostInv
    OBVIOUS
  <1>1. PICK config \in Configs :
           /\ ticker = NewTicker(config)
           /\ stats = NewStats(config.sendRate)
           /\ odd = IF config.recovery THEN {} ELSE {"noRecovery"}
    BY DEF Init
  <1>2. config \in TickConfigs /\ config.sendRate \in Nat \ {0}
    BY ConfigsTyped
  <1>3. ticker \in Tickers /\ ticker.config = config /\ ticker.overflow = 0
    BY <1>1, <1>2 DEF NewTicker, Tickers
  <1>4. StatsTyped(stats) /\ limiter \in Limiters
    BY <1>1, <1>2, NewStatsTyped, NewLimiterTyped DEF Init
  <1>5. mayReceive = TRUE /\ failed = FALSE /\ quiet = FALSE /\ drift = 0
    BY DEF Init
  <1>6. Schedule
    BY <1>1, <1>3, <1>5 DEF Schedule
  <1>7. Counted
    <2>1. /\ stats.tick = 0 /\ stats.rate = config.sendRate
          /\ stats.buckets = Zeros(stats.rate) /\ stats.averages = NoBytes
      BY <1>1 DEF NewStats
    <2>2. stats.tick <= stats.rate
      BY <1>2, <2>1
    <2>3. ASSUME NEW d \in Directions
          PROVE  recent[d] = <<>> /\ Age(d) \in {0, 1}
      BY DEF Init, Age
    <2>4. ASSUME NEW d \in Directions
          PROVE  Counts(stats, d, recent[d], Age(d))
      BY <1>4, <2>1, <2>2, <2>3, CountNothing
    <2> QED
      BY <1>1, <1>5, <2>2, <2>4 DEF Counted, FailsOnlyWhenOdd, Init
  <1> QED
    BY <1>3, <1>4, <1>5, <1>6, <1>7 DEF HostInv, HostTypeOK

LEMMA NextHostTypeOK ==
    ASSUME HostInv, [Next]_hostVars
    PROVE  HostTypeOK'
  <1> USE DEF HostInv
  <1>0. /\ Bytes \subseteq Nat /\ WorkTimes \subseteq Nat
        /\ ticker \in Tickers /\ StatsTyped(stats) /\ limiter \in Limiters
        /\ mayReceive \in BOOLEAN /\ failed \in BOOLEAN /\ quiet \in BOOLEAN
    BY HostAssumption DEF HostTypeOK
  <1>1. CASE Receive
    <2>1. ticker' \in Tickers
      BY <1>0, <1>1 DEF Receive, BeginTick, Tickers
    <2>2. PICK bytes \in Vary("received", Bytes, 0) :
             IF SetBytesFails(stats, "received")
             THEN failed' = TRUE /\ stats' = stats
             ELSE stats' = SetBytes(stats, "received", bytes) /\ failed' = failed
      BY <1>1 DEF Receive
    <2>3. bytes \in Nat
      BY <1>0, VaryTyped
    <2>4. StatsTyped(stats') /\ failed' \in BOOLEAN
      BY <1>0, <2>2, <2>3, SetBytesTyped DEF Directions
    <2> QED
      BY <1>0, <1>1, <2>1, <2>4 DEF Receive, HostTypeOK
  <1>2. CASE Send
    <2>1. ticker' \in Tickers
      BY <1>0, <1>2, EndTickEffect DEF Send
    <2>2. limiter' \in Limiters
      <3>1. PICK bad \in Vary("rtt", BOOLEAN, FALSE) :
               limiter' = LimiterUpdate(LimiterElapse(limiter), bad)
        BY <1>2 DEF Send
      <3>2. bad \in BOOLEAN
        BY VaryTyped
      <3> QED
        BY <1>0, <3>1, <3>2, LimiterElapseTyped, LimiterUpdateTyped
    <2>3. PICK bytes \in IF should_send(limiter') THEN Vary("sent", Bytes, 0)
                         ELSE {0} :
             IF SetBytesFails(stats, "sent")
             THEN failed' = TRUE /\ stats' = stats
             ELSE stats' = StatsTick(SetBytes(stats, "sent", bytes))
                  /\ failed' = failed
      BY <1>2 DEF Send
    <2>4. bytes \in Nat
      <3>1. CASE should_send(limiter')
        <4>1. bytes \in Vary("sent", Bytes, 0)
          BY <2>3, <3>1
        <4> QED
          BY <1>0, <4>1, VaryTyped
      <3>2. CASE ~should_send(limiter')
        BY <2>3, <3>2
      <3> QED
        BY <3>1, <3>2
    <2>5. StatsTyped(stats') /\ failed' \in BOOLEAN
      BY <1>0, <2>3, <2>4, SetBytesTyped, StatsTickTyped DEF Directions
    <2> QED
      BY <1>0, <1>2, <2>1, <2>2, <2>5 DEF Send, HostTypeOK
  <1>3. CASE Work
    <2>1. PICK time \in Vary("time", WorkTimes, 0) :
             ticker' = TickerElapse(ticker, time)
      BY <1>3 DEF Work
    <2>2. time \in Nat
      BY <1>0, VaryTyped
    <2>3. ticker' \in Tickers
      BY <1>0, <2>1, <2>2 DEF TickerElapse, Tickers
    <2> QED
      BY <1>0, <1>3, <2>3 DEF Work, HostTypeOK
  <1>4. CASE Reset
    <2>1. ticker' \in Tickers
      BY <1>0, <1>4 DEF Reset, TickerReset, Tickers
    <2> QED
      BY <1>0, <1>4, <2>1, StatsChangesTyped, NewLimiterTyped
      DEF Reset, LimiterReset, HostTypeOK
  <1>5. CASE SetConfig
    <2>1. PICK config \in Configs :
             /\ ticker' = TickerSetConfig(ticker, config)
             /\ stats' = StatsSetConfig(stats, config.sendRate)
      BY <1>5 DEF SetConfig
    <2>2. config \in TickConfigs /\ config.sendRate \in Nat \ {0}
      BY ConfigsTyped
    <2>3. ticker' \in Tickers
      BY <1>0, <2>1, <2>2 DEF TickerSetConfig, Tickers
    <2> QED
      BY <1>0, <1>5, <2>1, <2>2, <2>3, StatsChangesTyped
      DEF SetConfig, HostTypeOK
  <1>6. CASE Calm
    BY <1>0, <1>6 DEF Calm, meters, HostTypeOK
  <1>7. CASE UNCHANGED hostVars
    BY <1>0, <1>7 DEF hostVars, HostTypeOK
  <1> QED
    BY <1>1, <1>2, <1>3, <1>4, <1>5, <1>6, <1>7 DEF Next

LEMMA NextSchedule ==
    ASSUME HostInv, [Next]_hostVars
    PROVE  Schedule'
  <1> USE DEF HostInv
  <1>0. /\ ticker \in Tickers /\ ticker.elapsed \in Nat
        /\ ticker.overflow \in Nat /\ mayReceive \in BOOLEAN
        /\ "noRecovery" \notin odd => ticker.config.recovery
        /\ odd \subseteq {"setConfig"} =>
              drift = ticker.overflow + IF mayReceive THEN 0 ELSE ticker.elapsed
    BY DEF HostTypeOK, Schedule, Tickers
  <1>1. CASE Receive
    BY <1>0, <1>1 DEF Receive, BeginTick, Tickers, Schedule
  <1>2. CASE Send
    <2>1. /\ ticker' = EndTick(ticker) /\ mayReceive' = TRUE
          /\ odd' = IF mayReceive THEN odd \cup {"skipped"} ELSE odd
          /\ drift' = IF odd' \subseteq {"setConfig"}
                      THEN (drift + SleepTime(ticker)) - TickDelay(ticker.config)
                      ELSE 0
      BY <1>2 DEF Send
    <2>2. ticker'.config = ticker.config
      BY <1>0, <2>1, EndTickEffect
    <2>3. ASSUME odd' \subseteq {"setConfig"}
          PROVE  drift' = ticker'.overflow
      <3>1. ~mayReceive /\ odd \subseteq {"setConfig"}
        BY <2>1, <2>3
      <3>2. ticker.config.recovery
        BY <1>0, <3>1
      <3>3. drift = ticker.overflow + ticker.elapsed
        BY <1>0, <3>1
      <3>4. /\ SleepTime(ticker) \in 0..TickDelay(ticker.config)
            /\ TickDelay(ticker.config) \in Nat
            /\ ticker'.overflow = (ticker.overflow + ticker.elapsed
                                     + SleepTime(ticker)) - TickDelay(ticker.config)
        BY <1>0, <2>1, <3>2, EndTickEffect, TickTerms
      <3>5. drift' = (drift + SleepTime(ticker)) - TickDelay(ticker.config)
        BY <2>1, <2>3
      <3> QED
        BY <1>0, <3>3, <3>4, <3>5
    <2>4. "noRecovery" \notin odd' => ticker'.config.recovery
      BY <1>0, <2>1, <2>2
    <2>5. ticker'.overflow \in Nat
      BY <1>0, <2>1, EndTickEffect DEF Tickers
    <2>6. odd' \subseteq {"setConfig"} =>
             drift' = ticker'.overflow + IF mayReceive' THEN 0 ELSE ticker'.elapsed
      BY <2>1, <2>3, <2>5
    <2> QED
      BY <2>4, <2>6 DEF Schedule
  <1>3. CASE Work
    <2>1. PICK time \in Vary("time", WorkTimes, 0) :
             /\ ticker' = TickerElapse(ticker, time)
             /\ drift' = IF mayReceive \/ ~(odd \subseteq {"setConfig"})
                         THEN drift ELSE drift + time
      BY <1>3 DEF Work
    <2>2. time \in Nat
      BY VaryTyped, HostAssumption
    <2>3. /\ ticker'.elapsed = ticker.elapsed + time
          /\ ticker'.overflow = ticker.overflow
          /\ ticker'.config = ticker.config
      BY <1>0, <2>1 DEF TickerElapse, Tickers
    <2>4. mayReceive' = mayReceive /\ odd' = odd
      BY <1>3 DEF Work
    <2> QED
      BY <1>0, <2>1, <2>2, <2>3, <2>4 DEF Schedule
  <1>4. CASE Reset
    BY <1>0, <1>4 DEF Reset, TickerReset, Tickers, Schedule
  <1>5. CASE SetConfig
    <2>1. PICK config \in Configs :
             /\ ticker' = TickerSetConfig(ticker, config)
             /\ odd' = odd \cup {"setConfig"} \cup
                       (IF config.recovery THEN {} ELSE {"noRecovery"})
      BY <1>5 DEF SetConfig
    <2>2. /\ ticker'.config = config /\ ticker'.overflow = ticker.overflow
          /\ ticker'.elapsed = ticker.elapsed
      BY <1>0, <2>1 DEF TickerSetConfig, Tickers
    <2>3. mayReceive' = mayReceive /\ drift' = drift
      BY <1>5 DEF SetConfig
    <2>4. "noRecovery" \notin odd' => config.recovery
      BY <2>1
    <2>5. odd' \subseteq {"setConfig"} => odd \subseteq {"setConfig"}
      BY <2>1
    <2> QED
      BY <1>0, <2>2, <2>3, <2>4, <2>5 DEF Schedule
  <1>6. CASE Calm
    BY <1>0, <1>6 DEF Calm, meters, Schedule
  <1>7. CASE UNCHANGED hostVars
    BY <1>0, <1>7 DEF hostVars, Schedule
  <1> QED
    BY <1>1, <1>2, <1>3, <1>4, <1>5, <1>6, <1>7 DEF Next

\* Both fail when the tick is beyond the ring, and only then.
LEMMA SetBytesBeyond ==
    ASSUME NEW s, NEW d, s.tick > s.rate
    PROVE  SetBytesFails(s, d)
  BY DEF SetBytesFails

LEMMA NextCounted ==
    ASSUME HostInv, [Next]_hostVars
    PROVE  Counted'
  <1> DEFINE usual == ~failed /\ odd \subseteq {"noRecovery"}
             good == stats.tick <= stats.rate
                     /\ \A d \in Directions : Counts(stats, d, recent[d], Age(d))
             beyond == stats.tick > stats.rate
                       /\ \A d \in Directions :
                             recent[d] = <<>> /\ stats.averages[d] = 0
  <1>0. /\ StatsTyped(stats) /\ mayReceive \in BOOLEAN /\ failed \in BOOLEAN
        /\ stats.tick \in Nat /\ stats.rate \in Nat \ {0} /\ Bytes \subseteq Nat
        /\ odd \subseteq {"noRecovery", "setConfig", "skipped"}
        /\ DOMAIN recent = Directions
        /\ failed => odd \cap {"setConfig", "skipped"} # {}
                     \/ stats.tick > stats.rate
        /\ usual => good \/ beyond
    BY HostAssumption DEF HostInv, HostTypeOK, Counted, FailsOnlyWhenOdd, StatsTyped, Rings
  <1>b. DOMAIN recent' = Directions
    BY <1>0 DEF Next, Receive, Send, Work, Reset, SetConfig, Calm, hostVars
  <1>a. SUFFICES
          /\ odd' \subseteq {"noRecovery", "setConfig", "skipped"}
          /\ DOMAIN recent' = Directions
          /\ failed' => odd' \cap {"setConfig", "skipped"} # {}
                        \/ (stats.tick > stats.rate)'
          /\ usual' => good' \/ beyond'
    BY DEF Counted, FailsOnlyWhenOdd
  <1>1. CASE Receive
    <2>1. PICK bytes \in Vary("received", Bytes, 0) :
             IF SetBytesFails(stats, "received")
             THEN failed' = TRUE /\ stats' = stats
             ELSE /\ stats' = SetBytes(stats, "received", bytes)
                  /\ recent' = [recent EXCEPT !["received"] =
                                   LastOf(@, bytes, stats.rate)]
                  /\ failed' = failed
      BY <1>1 DEF Receive
    <2>2. /\ bytes \in Nat /\ "received" \in Directions
          /\ mayReceive /\ ~failed /\ ~mayReceive' /\ odd' = odd
      BY <1>0, <1>1, VaryTyped DEF Receive, Directions
    <2>3. CASE odd \subseteq {"noRecovery"} /\ good
      <3>1. /\ ~SetBytesFails(stats, "received")
            /\ stats'.tick = stats.tick /\ stats'.rate = stats.rate
            /\ Counts(stats', "received",
                      LastOf(recent["received"], bytes, stats.rate), 0)
            /\ Counts(stats', "sent", recent["sent"], 1)
        <4>1. /\ Counts(stats, "received", recent["received"], 1)
              /\ Counts(stats, "sent", recent["sent"], 1)
          BY <2>2, <2>3 DEF Directions, Age
        <4>2. stats.tick <= stats.rate /\ "sent" \in Directions \ {"received"}
          BY <2>3 DEF Directions
        <4>3. ~SetBytesFails(stats, "received")
          BY <1>0, <1>b, <2>2, <4>1, <4>2, CountBytes
        <4>4. stats' = SetBytes(stats, "received", bytes)
          BY <2>1, <4>3
        <4> QED
          BY <1>0, <1>b, <2>2, <4>1, <4>2, <4>3, <4>4, CountBytes
      <3>2. failed' = failed
        BY <2>1, <3>1
      <3>3. ASSUME NEW d \in Directions
            PROVE  Counts(stats', d, recent'[d], Age(d)')
        <4>1. /\ recent'["received"] = LastOf(recent["received"], bytes, stats.rate)
              /\ recent'["sent"] = recent["sent"]
          BY <1>0, <1>b, <2>1, <3>1 DEF Directions
        <4>2. Age("received")' = 0 /\ Age("sent")' = 1
          BY <2>2 DEF Age
        <4> QED
          BY <3>1, <4>1, <4>2 DEF Directions
      <3> QED
        BY <1>0, <1>b, <2>2, <2>3, <3>1, <3>2, <3>3
    <2>4. CASE odd \subseteq {"noRecovery"} /\ beyond
      <3>1. failed' = TRUE /\ stats' = stats
        BY <2>1, <2>4, SetBytesBeyond
      <3> QED
        BY <1>0, <1>b, <2>2, <2>4, <3>1
    <2>5. CASE ~(odd \subseteq {"noRecovery"})
      BY <1>0, <1>b, <2>2, <2>5
    <2> QED
      BY <1>0, <1>b, <2>2, <2>3, <2>4, <2>5
  <1>2. CASE Send
    <2>1. PICK bytes \in IF should_send(limiter') THEN Vary("sent", Bytes, 0)
                         ELSE {0} :
             IF SetBytesFails(stats, "sent")
             THEN failed' = TRUE /\ stats' = stats
             ELSE /\ stats' = StatsTick(SetBytes(stats, "sent", bytes))
                  /\ recent' = [recent EXCEPT !["sent"] =
                                   LastOf(@, bytes, stats.rate)]
                  /\ failed' = failed
      BY <1>2 DEF Send
    <2>2. /\ "sent" \in Directions /\ ~failed /\ mayReceive'
          /\ odd' = IF mayReceive THEN odd \cup {"skipped"} ELSE odd
      BY <1>2 DEF Send, Directions
    <2>3. bytes \in Nat
      <3>1. CASE should_send(limiter')
        <4>1. bytes \in Vary("sent", Bytes, 0)
          BY <2>1, <3>1
        <4> QED
          BY <1>0, <1>b, <4>1, VaryTyped
      <3>2. CASE ~should_send(limiter')
        BY <2>1, <3>2
      <3> QED
        BY <3>1, <3>2
    <2>4. CASE odd' \subseteq {"noRecovery"} /\ good
      <3>1. ~mayReceive /\ odd' = odd
        BY <1>0, <1>b, <2>2, <2>4
      <3>2. /\ Counts(stats, "received", recent["received"], 0)
            /\ Counts(stats, "sent", recent["sent"], 1)
        BY <2>4, <3>1 DEF Directions, Age
      <3>3. /\ stats.tick <= stats.rate
            /\ "received" \in Directions \ {"sent"} /\ "received" \in Directions
        BY <2>4 DEF Directions
      <3> DEFINE set == SetBytes(stats, "sent", bytes)
                 last == LastOf(recent["sent"], bytes, stats.rate)
      <3>4. /\ ~SetBytesFails(stats, "sent")
            /\ set.tick = stats.tick /\ set.rate = stats.rate
            /\ Counts(set, "sent", last, 0)
            /\ Counts(set, "received", recent["received"], 0)
        BY <1>0, <1>b, <2>2, <2>3, <3>2, <3>3, CountBytes
      <3>5. StatsTyped(set)
        BY <1>0, <1>b, <2>2, <2>3, <3>4, SetBytesTyped
      <3>6. set.tick <= set.rate
        BY <3>3, <3>4
      <3>7. stats' = StatsTick(set) /\ failed' = failed
        BY <2>1, <3>4
      <3>8. /\ recent'["sent"] = last
            /\ recent'["received"] = recent["received"]
        BY <1>0, <1>b, <2>1, <3>4 DEF Directions
      <3> HIDE DEF set, last
      <3>9. /\ stats'.tick <= stats'.rate
            /\ Counts(stats', "sent", last, 1)
            /\ Counts(stats', "received", recent["received"], 1)
        BY <2>2, <3>3, <3>4, <3>5, <3>6, <3>7, CountTick
      <3>10. ASSUME NEW d \in Directions
             PROVE  Counts(stats', d, recent'[d], Age(d)')
        <4>1. Age(d)' = 1
          BY <2>2 DEF Age
        <4> QED
          BY <3>8, <3>9, <4>1 DEF Directions
      <3> QED
        BY <1>0, <1>b, <2>2, <3>1, <3>7, <3>9, <3>10
    <2>5. CASE odd' \subseteq {"noRecovery"} /\ beyond
      <3>1. failed' = TRUE /\ stats' = stats
        BY <2>1, <2>5, SetBytesBeyond
      <3> QED
        BY <1>0, <1>b, <2>2, <2>5, <3>1
    <2>6. CASE ~(odd' \subseteq {"noRecovery"})
      <3>1. odd' \subseteq {"noRecovery", "setConfig", "skipped"}
        BY <1>0, <1>b, <2>2
      <3> QED
        BY <1>b, <2>6, <3>1
    <2>7. odd' \subseteq {"noRecovery"} => odd \subseteq {"noRecovery"}
      BY <2>2
    <2> QED
      BY <1>0, <1>b, <2>2, <2>4, <2>5, <2>6, <2>7
  <1>3. CASE Work
    <2>1. UNCHANGED <<stats, mayReceive, failed, recent, odd>>
      BY <1>3 DEF Work
    <2> QED
      BY <1>0, <1>b, <2>1 DEF Age
  <1>4. CASE Reset
    <2>1. /\ stats' = StatsReset(stats) /\ ~failed /\ failed' = failed
          /\ recent' = [d \in Directions |-> <<>>]
          /\ odd' = IF ticker.config.recovery THEN {} ELSE {"noRecovery"}
      BY <1>4 DEF Reset
    <2>2. /\ StatsTyped(stats')
          /\ stats'.tick = stats.tick /\ stats'.rate = stats.rate
          /\ stats'.buckets = Zeros(stats'.rate) /\ stats'.averages = NoBytes
      <3>1. StatsTyped(stats')
        BY <1>0, <1>b, <2>1, StatsChangesTyped
      <3>2. PICK rate \in Nat \ {0} : stats \in Rings(rate)
        BY <1>0 DEF StatsTyped
      <3> QED
        BY <2>1, <3>1, <3>2 DEF StatsReset, Rings
    <2>3. ASSUME NEW d \in Directions
          PROVE  recent'[d] = <<>> /\ Age(d)' \in {0, 1} /\ stats'.averages[d] = 0
      BY <2>1, <2>2 DEF Age, NoBytes
    <2>4. CASE stats.tick <= stats.rate
      <3>1. ASSUME NEW d \in Directions
            PROVE  Counts(stats', d, recent'[d], Age(d)')
        <4>1. stats'.tick <= stats'.rate
          BY <2>2, <2>4
        <4> QED
          BY <2>2, <2>3, <4>1, CountNothing
      <3> QED
        BY <2>1, <2>2, <2>4, <3>1
    <2>5. CASE stats.tick > stats.rate
      BY <2>1, <2>2, <2>3, <2>5
    <2> QED
      BY <1>0, <1>b, <2>4, <2>5
  <1>5. CASE SetConfig
    <2>1. PICK config \in Configs :
             odd' = odd \cup {"setConfig"} \cup
                    (IF config.recovery THEN {} ELSE {"noRecovery"})
      BY <1>5 DEF SetConfig
    <2> QED
      BY <1>0, <1>b, <2>1
  <1>6. CASE Calm
    <2>1. UNCHANGED <<stats, mayReceive, failed, recent, odd>>
      BY <1>6 DEF Calm, meters
    <2> QED
      BY <1>0, <1>b, <2>1 DEF Age
  <1>7. CASE UNCHANGED hostVars
    <2>1. UNCHANGED <<stats, mayReceive, failed, recent, odd>>
      BY <1>7 DEF hostVars
    <2> QED
      BY <1>0, <1>b, <2>1 DEF Age
  <1> QED
    BY <1>1, <1>2, <1>3, <1>4, <1>5, <1>6, <1>7 DEF Next

LEMMA HostInvariant == Spec => []HostInv
  <1>1. Init => HostInv
    BY InitHostInv
  <1>2. HostInv /\ [Next]_hostVars => HostInv'
    BY NextHostTypeOK, NextSchedule, NextCounted DEF HostInv
  <1> QED
    BY <1>1, <1>2, PTL DEF Spec

\* For all send rates, recovery rates and working times a tick sleeps for
\* between zero and its delay (the subtraction of ticker.rs l.89 cannot go
\* below zero), and the delay of the limiter keeps to its clamps.
THEOREM HostTypeCorrect == Spec => []TypeOK
  <1>1. HostInv => TypeOK
    <2> SUFFICES ASSUME HostInv PROVE TypeOK
      OBVIOUS
    <2>1. ticker.elapsed \in Nat /\ ticker.overflow \in Nat
      BY DEF HostInv, HostTypeOK, Tickers
    <2>2. SleepTime(ticker) \in 0..TickDelay(ticker.config)
      BY EndTickEffect DEF HostInv, HostTypeOK
    <2>3. stats.tick \in Nat /\ \A d \in Directions : stats.averages[d] \in Nat
      BY DEF HostInv, HostTypeOK, StatsTyped, Rings
    <2>4. /\ limiter.tick \in 0..(MaxTick - 1)
          /\ limiter.delay \in MinDelay..MaxDelay
          /\ limiter.goodTime \in Nat /\ limiter.sinceGood \in Nat
          /\ limiter.bad \in BOOLEAN
      BY DEF HostInv, HostTypeOK, Limiters
    <2>5. {mayReceive, failed, quiet} \subseteq BOOLEAN
      BY DEF HostInv, HostTypeOK
    <2>6. {mayReceive, failed, quiet, limiter.bad} \subseteq BOOLEAN
      BY <2>4, <2>5
    <2> QED
      BY <2>1, <2>2, <2>3, <2>4, <2>6 DEF TypeOK
  <1> QED
    BY <1>1, HostInvariant, PTL

\* The ticker keeps count: at the end of each tick the loop is behind its
\* schedule by exactly tick_overflow (ticker.rs l.56-91), for all working times,
\* also when the configuration changes in the middle of a tick.
THEOREM KeepsSchedule == Spec => []OnSchedule
  <1>1. HostInv => OnSchedule
    <2> SUFFICES ASSUME HostInv, mayReceive, odd \subseteq {"setConfig"}
                 PROVE  drift = ticker.overflow
      BY DEF OnSchedule
    <2>1. ticker.overflow \in Nat
      BY DEF HostInv, HostTypeOK, Tickers
    <2> QED
      BY <2>1 DEF HostInv, Schedule
  <1> QED
    BY <1>1, HostInvariant, PTL

\* For all send rates and all numbers of bytes the running sum of stats.rs
\* l.88-101 is the number of bytes of the last second, send_rate ticks, although
\* the ring has one bucket more, and a reset() in mid second leaves nothing behind.
THEOREM SumsTheLastSecond == Spec => []AverageIsLastSecond
  <1>1. HostInv => AverageIsLastSecond
    <2> SUFFICES ASSUME HostInv, ~failed, odd \subseteq {"noRecovery"},
                        NEW d \in Directions, recent[d] # <<>>
                 PROVE  stats.averages[d] = Total(recent[d])
      BY DEF AverageIsLastSecond
    <2>1. \/ Counts(stats, d, recent[d], Age(d))
          \/ recent[d] = <<>> /\ stats.averages[d] = 0
      BY DEF HostInv, Counted
    <2> QED
      BY <2>1, TotalEmpty DEF Counts, Ring
  <1> QED
    BY <1>1, HostInvariant, PTL

\* Neither an index of stats.rs l.88-101 out of the ring nor a sum below zero,
\* as long as receive() and send() alternate and the configuration stays.
THEOREM NoFailureInTurns == Spec => []FailsOnlyWhenOdd
  <1>1. HostInv => FailsOnlyWhenOdd
    BY DEF HostInv, Counted
  <1> QED
    BY <1>1, HostInvariant, PTL
=============================================================================
