--------------------------- MODULE StatsCollector ---------------------------
(***************************************************************************)
(* shared/stats.rs: bytes per second, as a running sum over a ring of      *)
(* send_rate + 1 buckets.  The two counters of Stats are apart from each   *)
(* other; a direction is "sent" or "received".                             *)
(*                                                                         *)
(* Arithmetic is on u32 and an index is checked: what would panic (in a    *)
(* build with overflow checks) is named Fails.                             *)
(***************************************************************************)
EXTENDS Naturals

Directions == {"sent", "received"}

\* Stats::default(), of a direction's buckets and of the sums.
Zeros(rate) == [d \in Directions |-> [i \in 0..rate |-> 0]]
NoBytes == [d \in Directions |-> 0]

NewStats(rate) ==
    [tick |-> 0, rate |-> rate, buckets |-> Zeros(rate), averages |-> NoBytes]

\* set_config(): neither the sums nor the tick are changed.
StatsSetConfig(s, rate) == [s EXCEPT !.rate = rate, !.buckets = Zeros(rate)]

OldIndex(s) == (s.tick + 1) % (s.rate + 1)

\* set_bytes_sent() and set_bytes_received().
SetBytesFails(s, d) ==
    s.averages[d] < s.buckets[d][OldIndex(s)] \/ s.tick > s.rate

SetBytes(s, d, bytes) ==
    [s EXCEPT !.averages[d] = (@ - s.buckets[d][OldIndex(s)]) + bytes,
              !.buckets[d] = [@ EXCEPT ![s.tick] = bytes]]

\* tick()
StatsTick(s) == [s EXCEPT !.tick = (@ + 1) % (s.rate + 1)]

\* Mutant: the buckets are left as they are.
StatsResetSums(s) == [s EXCEPT !.averages = NoBytes]

\* Mutant: the averages are left as they are, which is what the comment on
\* reset() says (stats.rs l.113-114).
StatsResetKeepsAverages(s) == [s EXCEPT !.buckets = Zeros(s.rate)]

\* reset(): the tick stays.
StatsReset(s) == [s EXCEPT !.averages = NoBytes, !.buckets = Zeros(s.rate)]
=============================================================================
