------------------------- MODULE MessageQueueProofs -------------------------
(***************************************************************************)
(* Theorems about the message headers and the queues of module             *)
(* MessageQueue.                                                           *)
(***************************************************************************)
EXTENDS MessageQueue, FoundationProofs, SequenceTheorems

-----------------------------------------------------------------------------
(* Sequences *)

LEMMA AppendSet ==
    ASSUME NEW S, NEW seq \in Seq(S), NEW x \in S
    PROVE  /\ Append(seq, x) \in Seq(S)
           /\ ToSet(Append(seq, x)) = ToSet(seq) \cup {x}
  <1> DEFINE t == Append(seq, x)
  <1>1. /\ t \in Seq(S) /\ Len(t) = Len(seq) + 1 /\ Len(seq) \in Nat
        /\ t[Len(seq) + 1] = x /\ \A i \in 1..Len(seq) : t[i] = seq[i]
        /\ DOMAIN t = 1..(Len(seq) + 1) /\ DOMAIN seq = 1..Len(seq)
    OBVIOUS
  <1> HIDE DEF t
  <1>2. 1..(Len(seq) + 1) = (1..Len(seq)) \cup {Len(seq) + 1}
    BY <1>1
  <1>3. \A y : y \in ToSet(t) <=> y \in ToSet(seq) \/ y = x
    BY <1>1, <1>2 DEF ToSet
  <1>4. ToSet(t) = ToSet(seq) \cup {x}
    BY <1>3
  <1> QED
    BY <1>1, <1>4 DEF t

LEMMA EmptySet ==
    ASSUME NEW S
    PROVE  <<>> \in Seq(S) /\ ToSet(<<>>) = {} /\ Len(<<>>) = 0
  BY DEF ToSet

LEMMA SubSeqFacts ==
    ASSUME NEW S, NEW seq \in Seq(S), NEW n \in 0..Len(seq)
    PROVE  LET front == SubSeq(seq, 1, n)
               rest == SubSeq(seq, n + 1, Len(seq))
           IN  /\ front \in Seq(S) /\ Len(front) = n
               /\ \A i \in 1..n : front[i] = seq[i]
               /\ rest \in Seq(S) /\ Len(rest) = Len(seq) - n
               /\ ToSet(seq) = ToSet(front) \cup ToSet(rest)
  <1> DEFINE l == Len(seq)
             front == SubSeq(seq, 1, n)
             rest == SubSeq(seq, n + 1, l)
  <1>1. l \in Nat /\ DOMAIN seq = 1..l /\ \A i \in 1..l : seq[i] \in S
    OBVIOUS
  <1> HIDE DEF l
  <1>2. n \in Nat /\ n <= l /\ 1 \in Int /\ n \in Int /\ l \in Int /\ n + 1 \in Int
    BY <1>1 DEF l
  <1>3. \A i \in 1..n : i \in 1..l
    BY <1>2
  <1>4. \A i \in (n + 1)..l : i \in 1..l
    BY <1>2
  <1>5. /\ front \in Seq(S) /\ Len(front) = IF 1 <= n THEN n - 1 + 1 ELSE 0
        /\ \A i \in 1..(n - 1 + 1) : front[i] = seq[1 + i - 1]
    BY <1>1, <1>2, <1>3, SubSeqProperties
  <1>6. Len(front) = n /\ \A i \in 1..n : front[i] = seq[i]
    BY <1>2, <1>5
  <1>7. /\ rest \in Seq(S)
        /\ Len(rest) = IF n + 1 <= l THEN l - (n + 1) + 1 ELSE 0
        /\ \A i \in 1..(l - (n + 1) + 1) : rest[i] = seq[n + 1 + i - 1]
    BY <1>1, <1>2, <1>4, SubSeqProperties
  <1>8. Len(rest) = l - n /\ \A i \in 1..(l - n) : rest[i] = seq[n + i]
    <2>1. Len(rest) = l - n /\ l - (n + 1) + 1 = l - n
      BY <1>2, <1>7
    <2>2. \A i \in 1..(l - n) : n + 1 + i - 1 = n + i
      BY <1>2
    <2> QED
      BY <1>7, <2>1, <2>2
  <1>9. DOMAIN front = 1..n /\ DOMAIN rest = 1..(l - n)
    BY <1>5, <1>6, <1>7, <1>8
  <1> HIDE DEF front, rest
  <1>10. ASSUME NEW i \in 1..l
         PROVE  seq[i] \in ToSet(front) \cup ToSet(rest)
    <2>1. CASE i \in 1..n
      BY <1>6, <1>9, <2>1 DEF ToSet
    <2>2. CASE i \notin 1..n
      <3>1. i - n \in 1..(l - n) /\ n + (i - n) = i
        BY <1>2, <2>2
      <3>2. rest[i - n] = seq[i]
        BY <1>8, <3>1
      <3> QED
        BY <1>9, <3>1, <3>2 DEF ToSet
    <2> QED
      BY <2>1, <2>2
  <1>11. ASSUME NEW i \in 1..(l - n)
         PROVE  rest[i] \in ToSet(seq)
    <2>1. n + i \in 1..l
      BY <1>2
    <2> QED
      BY <1>1, <1>8, <2>1 DEF ToSet
  <1>12. \A i \in 1..n : front[i] \in ToSet(seq)
    BY <1>1, <1>3, <1>6 DEF ToSet
  <1>13. \A x : x \in ToSet(seq) <=> x \in ToSet(front) \cup ToSet(rest)
    BY <1>1, <1>9, <1>10, <1>11, <1>12 DEF ToSet
  <1>14. ToSet(seq) = ToSet(front) \cup ToSet(rest)
    BY <1>13
  <1> QED
    BY <1>5, <1>6, <1>7, <1>8, <1>14 DEF front, rest, l

LEMMA ConcatSet ==
    ASSUME NEW S, NEW s \in Seq(S), NEW t \in Seq(S)
    PROVE  s \o t \in Seq(S) /\ ToSet(s \o t) = ToSet(s) \cup ToSet(t)
  <1> DEFINE u == s \o t
             m == Len(s)
             n == Len(t)
  <1>1. /\ m \in Nat /\ n \in Nat /\ u \in Seq(S) /\ Len(u) = m + n
        /\ DOMAIN s = 1..m /\ DOMAIN t = 1..n /\ DOMAIN u = 1..(m + n)
        /\ \A i \in 1..m : u[i] = s[i]
        /\ \A i \in (m + 1)..(m + n) : u[i] = t[i - m]
    OBVIOUS
  <1> HIDE DEF u, m, n
  <1>2. ASSUME NEW i \in 1..(m + n)
        PROVE  u[i] \in ToSet(s) \cup ToSet(t)
    <2>1. CASE i \in 1..m
      BY <1>1, <2>1 DEF ToSet
    <2>2. CASE i \notin 1..m
      <3>1. i \in (m + 1)..(m + n) /\ i - m \in 1..n
        BY <1>1, <2>2
      <3> QED
        BY <1>1, <3>1 DEF ToSet
    <2> QED
      BY <2>1, <2>2
  <1>3. \A i \in 1..m : i \in 1..(m + n)
    BY <1>1
  <1>4. ASSUME NEW i \in 1..n
        PROVE  t[i] \in ToSet(u)
    <2>1. m + i \in (m + 1)..(m + n) /\ m + i \in 1..(m + n) /\ (m + i) - m = i
      BY <1>1
    <2>2. u[m + i] = t[i]
      BY <1>1, <2>1
    <2> QED
      BY <1>1, <2>1, <2>2 DEF ToSet
  <1>5. \A i \in 1..m : s[i] \in ToSet(u)
    BY <1>1, <1>3 DEF ToSet
  <1>6. \A x : x \in ToSet(u) <=> x \in ToSet(s) \cup ToSet(t)
    BY <1>1, <1>2, <1>4, <1>5 DEF ToSet
  <1>7. ToSet(u) = ToSet(s) \cup ToSet(t)
    BY <1>6
  <1> QED
    BY <1>1, <1>7 DEF u

LEMMA ReverseSet ==
    ASSUME NEW S, NEW seq \in Seq(S)
    PROVE  Reverse(seq) \in Seq(S) /\ ToSet(Reverse(seq)) = ToSet(seq)
  <1> DEFINE r == Reverse(seq)
             n == Len(seq)
  <1>1. n \in Nat /\ DOMAIN seq = 1..n /\ \A i \in 1..n : seq[i] \in S
    OBVIOUS
  <1>2. r = [i \in 1..n |-> seq[(n - i) + 1]]
    BY DEF Reverse
  <1> HIDE DEF r, n
  <1>3. \A i \in 1..n : (n - i) + 1 \in 1..n /\ (n - ((n - i) + 1)) + 1 = i
    BY <1>1
  <1>4. DOMAIN r = 1..n /\ \A i \in 1..n : r[i] = seq[(n - i) + 1]
    BY <1>2
  <1>5. \A i \in 1..n : r[i] \in ToSet(seq)
    BY <1>1, <1>3, <1>4 DEF ToSet
  <1>6. \A i \in 1..n : seq[i] = r[(n - i) + 1]
    BY <1>3, <1>4
  <1>7. \A i \in 1..n : seq[i] \in ToSet(r)
    BY <1>3, <1>4, <1>6 DEF ToSet
  <1>8. \A x : x \in ToSet(r) <=> x \in ToSet(seq)
    BY <1>1, <1>4, <1>5, <1>7 DEF ToSet
  <1>9. ToSet(r) = ToSet(seq)
    BY <1>8
  <1>10. \A i \in 1..n : seq[(n - i) + 1] \in S
    BY <1>1, <1>3
  <1>11. r \in Seq(S)
    BY <1>1, <1>2, <1>10
  <1> QED
    BY <1>9, <1>11 DEF r

\* What has been kept after the first k elements.
KeptBy(g, S, seq, set) ==
    /\ g \in [0..Len(seq) -> Seq(S)] /\ g[0] = <<>>
    /\ \A k \in 1..Len(seq) :
          g[k] = IF seq[k] \in set THEN Append(g[k - 1], seq[k]) ELSE g[k - 1]
    /\ Only(seq, set) = g[Len(seq)]

LEMMA OnlyRuns ==
    ASSUME NEW S, NEW seq \in Seq(S), NEW set
    PROVE  \E g : KeptBy(g, S, seq, set)
  <1> DEFINE n == Len(seq)
             Kept(kept, x) == IF x \in set THEN Append(kept, x) ELSE kept
             Sum(it) == it = [T \in SUBSET (1..n) |->
                 IF T = {} THEN <<>>
                 ELSE Kept(it[T \ {Max(T)}], seq[Max(T)])]
             sum == CHOOSE it : Sum(it)
             F == [x \in Seq(S) \X (1..n) |-> Kept(x[1], seq[x[2]])]
  <1>1. n \in Nat /\ DOMAIN seq = 1..n /\ <<>> \in Seq(S)
    OBVIOUS
  <1>2. ASSUME NEW kept \in Seq(S), NEW i \in 1..n
        PROVE  Kept(kept, seq[i]) \in Seq(S)
    BY <1>1
  <1>3. F \in [Seq(S) \X (1..n) -> Seq(S)]
    BY <1>2
  <1>4. Only(seq, set) = sum[1..n]
    BY <1>1 DEF Only, FoldLeft, MapThenFoldSet
  <1>5. ASSUME NEW kept \in Seq(S), NEW i \in 1..n
        PROVE  F[kept, i] = Kept(kept, seq[i])
    OBVIOUS
  <1> HIDE DEF Kept, F
  <1>6. PICK known \in [SUBSET (1..n) -> Seq(S)] : Unfolds(known, n, <<>>, F)
    BY <1>1, <1>3, FoldExists
  <1>7. Sum(known)
    <2>1. ASSUME NEW T \in SUBSET (1..n), T # {}
          PROVE  F[known[T \ {Max(T)}], Max(T)]
                    = Kept(known[T \ {Max(T)}], seq[Max(T)])
      <3> DEFINE m == Max(T)
      <3>1. m \in 1..n /\ T \ {m} \in SUBSET (1..n)
        BY <1>1, <2>1, MaxOfRange
      <3> HIDE DEF m
      <3> QED
        BY <1>5, <1>6, <3>1 DEF m
    <2> QED
      BY <1>6, <2>1 DEF Unfolds
  <1>8. Sum(sum)
    BY <1>7
  <1> HIDE DEF sum
  <1>9. UnfoldsIn(sum, n, Seq(S), <<>>, F)
    <2>1. {} \in SUBSET (1..n)
      OBVIOUS
    <2>2. sum[{}] = <<>>
      BY <1>8, <2>1
    <2>3. ASSUME NEW T \in SUBSET (1..n), T # {}, sum[T \ {Max(T)}] \in Seq(S)
          PROVE  sum[T] = F[sum[T \ {Max(T)}], Max(T)]
      <3> DEFINE m == Max(T)
      <3>1. m \in 1..n
        BY <1>1, <2>3, MaxOfRange
      <3>2. sum[T] = Kept(sum[T \ {m}], seq[m])
        BY <1>8, <2>3
      <3> HIDE DEF m
      <3> QED
        BY <1>5, <2>3, <3>1, <3>2 DEF m
    <2> QED
      BY <2>2, <2>3 DEF UnfoldsIn
  <1>10. PICK g : Runs(g, n, Seq(S), <<>>, F, sum)
    <2>1. F \in Steps(Seq(S), n)
      BY <1>3 DEF Steps
    <2> HIDE DEF n
    <2> QED
      BY <1>1, <1>9, <2>1, FoldRuns
  <1>11. ASSUME NEW k \in 1..n
         PROVE  g[k] = IF seq[k] \in set THEN Append(g[k - 1], seq[k])
                       ELSE g[k - 1]
    <2>1. k - 1 \in 0..n
      BY <1>1
    <2>2. g[k - 1] \in Seq(S)
      BY <1>10, <2>1 DEF Runs
    <2>3. g[k] = F[g[k - 1], k]
      BY <1>10 DEF Runs
    <2> QED
      BY <1>5, <2>2, <2>3 DEF Kept
  <1> QED
    BY <1>4, <1>10, <1>11 DEF Runs, KeptBy

LEMMA OnlyFacts ==
    ASSUME NEW S, NEW seq \in Seq(S), NEW set
    PROVE  /\ Only(seq, set) \in Seq(S)
           /\ ToSet(Only(seq, set)) = ToSet(seq) \cap set
  <1> DEFINE n == Len(seq)
  <1>0. PICK g : KeptBy(g, S, seq, set)
    BY OnlyRuns
  <1>1. /\ g \in [0..n -> Seq(S)] /\ g[0] = <<>>
        /\ \A k \in 1..n :
              g[k] = IF seq[k] \in set THEN Append(g[k - 1], seq[k])
                     ELSE g[k - 1]
        /\ Only(seq, set) = g[n]
    BY <1>0 DEF KeptBy
  <1> DEFINE Before(k) == {seq[i] : i \in 1..k}
             T == {k \in 0..n : ToSet(g[k]) = Before(k) \cap set}
  <1>2. n \in Nat /\ DOMAIN seq = 1..n /\ \A i \in 1..n : seq[i] \in S
    OBVIOUS
  <1> HIDE DEF n
  <1>3. 0 \in T
    <2>1. 1..0 = {}
      OBVIOUS
    <2>2. Before(0) = {} /\ ToSet(g[0]) = {}
      BY <1>1, <2>1, EmptySet
    <2> QED
      BY <1>2, <2>2
  <1>4. ASSUME NEW k \in 0..(n - 1), k \in T
        PROVE  k + 1 \in T
    <2>1. k + 1 \in 1..n /\ (k + 1) - 1 = k /\ k \in 0..n /\ k + 1 \in 0..n
      BY <1>2
    <2>2. g[k] \in Seq(S) /\ seq[k + 1] \in S
      BY <1>1, <1>2, <2>1
    <2>3. g[k + 1] = IF seq[k + 1] \in set THEN Append(g[k], seq[k + 1])
                     ELSE g[k]
      BY <1>1, <2>1
    <2>4. 1..(k + 1) = (1..k) \cup {k + 1}
      BY <2>1
    <2>5. Before(k + 1) = Before(k) \cup {seq[k + 1]}
      BY <2>4
    <2>6. ToSet(g[k]) = Before(k) \cap set
      BY <1>4
    <2>7. ToSet(Append(g[k], seq[k + 1])) = ToSet(g[k]) \cup {seq[k + 1]}
      BY <2>2, AppendSet
    <2> HIDE DEF Before
    <2>8. ToSet(g[k + 1]) = Before(k + 1) \cap set
      BY <2>3, <2>5, <2>6, <2>7
    <2> QED
      BY <2>1, <2>8
  <1> HIDE DEF T
  <1>5. n \in T
    <2>1. 0..n \subseteq T
      BY <1>2, <1>3, <1>4, SetInduction
    <2> QED
      BY <1>2, <2>1
  <1>6. ToSet(g[n]) = Before(n) \cap set
    BY <1>5 DEF T
  <1>7. Before(n) = ToSet(seq)
    BY <1>2 DEF ToSet
  <1>8. Only(seq, set) \in Seq(S)
    BY <1>1, <1>2
  <1> QED
    BY <1>1, <1>6, <1>7, <1>8

-----------------------------------------------------------------------------
(* Message headers *)

MessagesOf(Data) ==
    [kind : Kinds, order : OrderIds, size : Sizes, data : Data]

LEMMA FieldTypes ==
    ASSUME NEW Data, NEW m \in MessagesOf(Data)
    PROVE  /\ m.order \in Nat /\ m.order < 4096
           /\ m.size \in Nat /\ m.size < 65536 /\ m.kind \in Kinds
<1>1. m.kind \in Kinds /\ m.order \in OrderIds /\ m.size \in Sizes
  BY DEF MessagesOf
<1>2. MaxOrderId \in Nat /\ MaxOrderId <= 4096
  BY MaxOrderIdAssumption
<1>3. ASSUME NEW i \in OrderIds PROVE i \in Nat /\ i < 4096
  <2>1. i \in Nat /\ i <= MaxOrderId - 1
    BY <1>2 DEF OrderIds
  <2> QED BY <1>2, <2>1
<1>4. \A n \in Sizes : n \in Nat /\ n < 65536
  BY DEF Sizes
<1> QED BY <1>1, <1>3, <1>4

\* A number in base 16: both digits can be read off again.
LEMMA TwoDigits ==
    ASSUME NEW h \in Nat, NEW x \in 0..15
    PROVE  (16 * h + x) \div 16 = h /\ (16 * h + x) % 16 = x
OBVIOUS

LEMMA TwoBytes ==
    ASSUME NEW n \in Nat
    PROVE  256 * (n \div 256) + (n % 256) = n
OBVIOUS

\* The kinds have different nibbles.
LEMMA KindOfNibble ==
    ASSUME NEW k \in Kinds
    PROVE  /\ KindNibble[k] \in 0..15
           /\ (CHOOSE l \in Kinds : KindNibble[l] = KindNibble[k]) = k
<1>1. \A l \in Kinds : KindNibble[l] \in 0..2
                       /\ (KindNibble[l] = KindNibble[k] => l = k)
  BY DEF Kinds, KindNibble
<1>2. \E l \in Kinds : KindNibble[l] = KindNibble[k]
  OBVIOUS
<1> QED BY <1>1, <1>2

\* What write_message() puts on the wire for a message is a header of four
\* bytes (an order id fits into the twelve bits it gets).
THEOREM HeaderBytes ==
    ASSUME NEW Data, NEW m \in MessagesOf(Data)
    PROVE  /\ Encode(m).b0 \in 0..255 /\ Encode(m).b1 \in 0..255
           /\ Encode(m).b2 \in 0..255 /\ Encode(m).b3 \in 0..255
<1>1. /\ m.order \in Nat /\ m.order < 4096
      /\ m.size \in Nat /\ m.size < 65536 /\ m.kind \in Kinds
  BY FieldTypes
<1>2. KindNibble[m.kind] \in 0..15
  BY <1>1, KindOfNibble
<1>3. m.order \div 256 \in 0..15 /\ m.order % 256 \in 0..255
  BY <1>1
<1>4. m.size \div 256 \in 0..255 /\ m.size % 256 \in 0..255
  BY <1>1
<1>5. 16 * ((m.order \div 256) % 16) + KindNibble[m.kind] \in 0..255
  BY <1>2, <1>3
<1> QED BY <1>3, <1>4, <1>5 DEF Encode

\* messages_from_packet() reads back the message that write_message() wrote,
\* of every kind, order id and size; none is skipped as of unknown kind.
THEOREM HeaderRoundTrip ==
    ASSUME NEW Data, NEW m \in MessagesOf(Data)
    PROVE  KnownKind(Encode(m)) /\ Decode(Encode(m)) = m
<1> DEFINE hi == m.order \div 256
           nibble == KindNibble[m.kind]
<1>1. /\ m.order \in Nat /\ m.order < 4096 /\ m.size \in Nat
      /\ m.kind \in Kinds
  BY FieldTypes
<1>2. nibble \in 0..15
      /\ (CHOOSE l \in Kinds : KindNibble[l] = nibble) = m.kind
  BY <1>1, KindOfNibble
<1>3. hi \in 0..15 /\ hi \in Nat /\ hi % 16 = hi
  BY <1>1
<1>4. /\ Encode(m).b0 = 16 * hi + nibble /\ Encode(m).b1 = m.order % 256
      /\ Encode(m).b2 = m.size \div 256 /\ Encode(m).b3 = m.size % 256
      /\ Encode(m).data = m.data
  BY <1>3 DEF Encode
<1> HIDE DEF hi, nibble
<1>5. Encode(m).b0 % 16 = nibble /\ Encode(m).b0 \div 16 = hi
  BY <1>2, <1>3, <1>4, TwoDigits
<1>6. KnownKind(Encode(m))
  BY <1>1, <1>5 DEF KnownKind, nibble
<1>7. /\ Decode(Encode(m)).kind = m.kind
      /\ Decode(Encode(m)).order = m.order
      /\ Decode(Encode(m)).size = m.size
      /\ Decode(Encode(m)).data = m.data
  <2>1. 256 * hi + (m.order % 256) = m.order
    BY <1>1, TwoBytes DEF hi
  <2>2. 256 * (m.size \div 256) + (m.size % 256) = m.size
    BY <1>1, TwoBytes
  <2> QED BY <1>2, <1>4, <1>5, <2>1, <2>2 DEF Decode
<1>8. Decode(Encode(m)) =
        [kind |-> Decode(Encode(m)).kind, order |-> Decode(Encode(m)).order,
         size |-> Decode(Encode(m)).size, data |-> Decode(Encode(m)).data]
  BY DEF Decode
<1>9. m = [kind |-> m.kind, order |-> m.order, size |-> m.size,
           data |-> m.data]
  BY DEF MessagesOf
<1> QED BY <1>6, <1>7, <1>8, <1>9

-----------------------------------------------------------------------------
(* Sizes *)

LEMMA RequiredType ==
    ASSUME NEW Data, NEW m \in MessagesOf(Data)
    PROVE  Required(m) \in Nat \ {0}
  BY FieldTypes, MessageHeaderAssumption DEF Required

\* The bytes that the first k messages take.
PartialBytes(g, msgs) ==
    /\ g \in [0..Len(msgs) -> Nat] /\ g[0] = 0
    /\ \A k \in 1..Len(msgs) : g[k] = g[k - 1] + Required(msgs[k])
    /\ RequiredBytes(msgs) = g[Len(msgs)]

LEMMA RequiredRuns ==
    ASSUME NEW Data, NEW msgs \in Seq(MessagesOf(Data))
    PROVE  \E g : PartialBytes(g, msgs)
  <1> DEFINE n == Len(msgs)
             Add(bytes, m) == bytes + Required(m)
             Sum(it) == it = [T \in SUBSET (1..n) |->
                 IF T = {} THEN 0
                 ELSE Add(it[T \ {Max(T)}], msgs[Max(T)])]
             sum == CHOOSE it : Sum(it)
             F == [x \in Nat \X (1..n) |-> Add(x[1], msgs[x[2]])]
  <1>1. n \in Nat /\ DOMAIN msgs = 1..n
    OBVIOUS
  <1>2. ASSUME NEW bytes \in Nat, NEW i \in 1..n
        PROVE  Add(bytes, msgs[i]) \in Nat
    BY RequiredType
  <1>3. F \in [Nat \X (1..n) -> Nat]
    BY <1>2
  <1>4. RequiredBytes(msgs) = sum[1..n]
    BY <1>1 DEF RequiredBytes, FoldLeft, MapThenFoldSet
  <1>5. ASSUME NEW bytes \in Nat, NEW i \in 1..n
        PROVE  F[bytes, i] = Add(bytes, msgs[i])
    OBVIOUS
  <1> HIDE DEF Add, F
  <1>6. PICK known \in [SUBSET (1..n) -> Nat] : Unfolds(known, n, 0, F)
    BY <1>1, <1>3, FoldExists
  <1>7. \A T \in SUBSET (1..n) :
           T # {} => Max(T) \in 1..n /\ T \ {Max(T)} \in SUBSET (1..n)
    BY <1>1, MaxOfRange
  <1>8. Sum(sum)
    <2>1. Sum(known)
      BY <1>5, <1>6, <1>7 DEF Unfolds
    <2> QED
      BY <2>1
  <1> HIDE DEF sum
  <1>9. UnfoldsIn(sum, n, Nat, 0, F)
    BY <1>5, <1>7, <1>8 DEF UnfoldsIn
  <1>10. PICK g : Runs(g, n, Nat, 0, F, sum)
    <2>1. F \in Steps(Nat, n)
      BY <1>3 DEF Steps
    <2> HIDE DEF n
    <2> QED
      BY <1>1, <1>9, <2>1, FoldRuns
  <1>11. ASSUME NEW k \in 1..n
         PROVE  g[k] = g[k - 1] + Required(msgs[k])
    <2>1. k - 1 \in 0..n
      BY <1>1
    <2>2. g[k - 1] \in Nat /\ g[k] = F[g[k - 1], k]
      BY <1>10, <2>1 DEF Runs
    <2> QED
      BY <1>5, <2>2 DEF Add
  <1> QED
    BY <1>4, <1>10, <1>11 DEF Runs, PartialBytes

LEMMA RequiredConcat ==
    ASSUME NEW Data, NEW s \in Seq(MessagesOf(Data)),
           NEW t \in Seq(MessagesOf(Data))
    PROVE  /\ RequiredBytes(s) \in Nat
           /\ RequiredBytes(s \o t) = RequiredBytes(s) + RequiredBytes(t)
  <1> DEFINE m == Len(s)
             n == Len(t)
             u == s \o t
  <1>1. /\ m \in Nat /\ n \in Nat /\ Len(u) = m + n
        /\ u \in Seq(MessagesOf(Data))
        /\ \A i \in 1..m : u[i] = s[i]
        /\ \A i \in 1..n : u[m + i] = t[i]
    <2>1. \A i \in (m + 1)..(m + n) : u[i] = t[i - m]
      OBVIOUS
    <2>2. \A i \in 1..n : m + i \in (m + 1)..(m + n) /\ (m + i) - m = i
      OBVIOUS
    <2>3. \A i \in 1..n : u[m + i] = t[i]
      BY <2>1, <2>2
    <2> QED
      BY <2>3
  <1>2. /\ \A i \in 1..m : Required(s[i]) \in Nat
        /\ \A i \in 1..n : Required(t[i]) \in Nat
    BY RequiredType
  <1>3. PICK gs : PartialBytes(gs, s)
    BY RequiredRuns
  <1>4. PICK gt : PartialBytes(gt, t)
    BY RequiredRuns
  <1> HIDE DEF u
  <1>5. PICK g : PartialBytes(g, u)
    BY <1>1, RequiredRuns
  <1> HIDE DEF m, n
  <1> DEFINE A == {k \in 0..m : g[k] = gs[k]}
             B == {k \in 0..n : g[m + k] = gs[m] + gt[k]}
  <1>6. m \in A
    <2>1. 0 \in A
      BY <1>1, <1>3, <1>5 DEF PartialBytes
    <2>2. ASSUME NEW k \in 0..(m - 1), k \in A
          PROVE  k + 1 \in A
      <3>1. k + 1 \in 1..m /\ k + 1 \in 1..(m + n) /\ (k + 1) - 1 = k
        BY <1>1
      <3>2. g[k + 1] = g[k] + Required(u[k + 1])
        BY <1>1, <1>5, <3>1 DEF PartialBytes
      <3>3. gs[k + 1] = gs[k] + Required(s[k + 1])
        BY <1>3, <3>1 DEF PartialBytes, m
      <3> QED
        BY <1>1, <2>2, <3>1, <3>2, <3>3
    <2> HIDE DEF A
    <2>3. 0..m \subseteq A
      BY <1>1, <2>1, <2>2, SetInduction
    <2> QED
      BY <1>1, <2>3
  <1>7. n \in B
    <2>1. 0 \in B
      <3>1. gs[m] \in Nat /\ gt[0] = 0 /\ m + 0 = m
        BY <1>1, <1>3, <1>4 DEF PartialBytes, m
      <3> QED
        BY <1>1, <1>6, <3>1
    <2>2. ASSUME NEW k \in 0..(n - 1), k \in B
          PROVE  k + 1 \in B
      <3>1. /\ k + 1 \in 1..n /\ m + (k + 1) \in 1..(m + n) /\ k \in 0..n
            /\ (m + (k + 1)) - 1 = m + k /\ (k + 1) - 1 = k
        BY <1>1
      <3>2. g[m + (k + 1)] = g[m + k] + Required(u[m + (k + 1)])
        BY <1>1, <1>5, <3>1 DEF PartialBytes
      <3>3. gt[k + 1] = gt[k] + Required(t[k + 1]) /\ gt[k] \in Nat
        BY <1>4, <3>1 DEF PartialBytes, n
      <3>4. gs[m] \in Nat /\ Required(t[k + 1]) \in Nat
        BY <1>1, <1>2, <1>3, <3>1 DEF PartialBytes, m
      <3>5. g[m + (k + 1)] = gs[m] + gt[k] + Required(t[k + 1])
        BY <1>1, <2>2, <3>1, <3>2
      <3> QED
        BY <3>1, <3>3, <3>4, <3>5
    <2> HIDE DEF B
    <2>3. 0..n \subseteq B
      BY <1>1, <2>1, <2>2, SetInduction
    <2> QED
      BY <1>1, <2>3
  <1>8. RequiredBytes(s) \in Nat
    BY <1>1, <1>3 DEF PartialBytes, m
  <1>9. RequiredBytes(u) = g[m + n] /\ RequiredBytes(t) = gt[n]
        /\ RequiredBytes(s) = gs[m]
    BY <1>1, <1>3, <1>4, <1>5 DEF PartialBytes, m, n
  <1> QED
    BY <1>7, <1>8, <1>9 DEF u

LEMMA RequiredEmpty == RequiredBytes(<<>>) = 0
  <1> DEFINE e == <<>>
  <1>1. e \in Seq(MessagesOf({})) /\ Len(e) = 0
    OBVIOUS
  <1> HIDE DEF e
  <1>2. PICK g : PartialBytes(g, e)
    BY <1>1, RequiredRuns
  <1>3. RequiredBytes(e) = 0
    BY <1>1, <1>2 DEF PartialBytes
  <1> QED
    BY <1>3 DEF e

\* write_messages() takes messages from the front, as many as fit.
LEMMA FitFacts ==
    ASSUME NEW Data, NEW queue \in Seq(MessagesOf(Data)), NEW space \in Nat
    PROVE  LET k == FitCount(queue, space)
           IN  /\ k \in 0..Len(queue)
               /\ RequiredBytes(SubSeq(queue, 1, k)) <= space
  <1> DEFINE n == Len(queue)
             fit == {k \in 0..n : RequiredBytes(SubSeq(queue, 1, k)) <= space}
  <1>1. n \in Nat
    OBVIOUS
  <1>2. SubSeq(queue, 1, 0) = <<>>
    OBVIOUS
  <1> HIDE DEF n
  <1>3. 0 \in fit
    <2>1. RequiredBytes(SubSeq(queue, 1, 0)) = 0
      BY <1>2, RequiredEmpty
    <2> QED
      BY <1>1, <2>1
  <1>4. fit \in SUBSET (0..n) /\ fit # {}
    BY <1>3
  <1> HIDE DEF fit
  <1>5. Max(fit) \in fit
    BY <1>1, <1>4, MaxOfBounded
  <1> QED
    BY <1>5 DEF FitCount, fit, n

-----------------------------------------------------------------------------
(* Packing *)

OfKind(Data, kind) == {m \in MessagesOf(Data) : m.kind = kind}

QueuesOf(Data) ==
    [localOrderId : OrderIds, remoteOrderId : OrderIds,
     iQueue : Seq(OfKind(Data, "Instant")),
     rQueue : Seq(OfKind(Data, "Reliable")),
     oQueue : Seq(OfKind(Data, "Ordered")),
     recvQueue : Seq(MessagesOf(Data)), oRecvHeap : SUBSET MessagesOf(Data)]

Queued(q) == ToSet(q.iQueue) \cup ToSet(q.rQueue) \cup ToSet(q.oQueue)

PackingTypes(Data) ==
    [i : Seq(OfKind(Data, "Instant")), r : Seq(OfKind(Data, "Reliable")),
     o : Seq(OfKind(Data, "Ordered")), out : Seq(MessagesOf(Data)),
     written : Nat]

Joined(s, t) == s \o t

\* No two Instant messages of a sequence have the same data.
OnceEach(s) ==
    \A i, j \in DOMAIN s :
        s[i].kind = "Instant" /\ s[j].kind = "Instant" /\ s[i].data = s[j].data
        => i = j

\* Sequence w is s with t behind it.
IsJoin(w, s, t) ==
    /\ DOMAIN w = 1..(Len(s) + Len(t)) /\ Len(w) = Len(s) + Len(t)
    /\ Len(s) \in Nat /\ Len(t) \in Nat
    /\ DOMAIN s = 1..Len(s) /\ DOMAIN t = 1..Len(t)
    /\ \A i \in 1..Len(s) : w[i] = s[i]
    /\ \A i \in (Len(s) + 1)..(Len(s) + Len(t)) : w[i] = t[i - Len(s)]

LEMMA JoinedAt ==
    ASSUME NEW S, NEW s \in Seq(S), NEW t \in Seq(S)
    PROVE  Joined(s, t) \in Seq(S) /\ IsJoin(Joined(s, t), s, t)
  BY DEF Joined, IsJoin

LEMMA SameSeq ==
    ASSUME NEW S, NEW s \in Seq(S), NEW t \in Seq(S), Len(s) = Len(t),
           \A i \in 1..Len(s) : s[i] = t[i]
    PROVE  s = t
  OBVIOUS

\* The messages from the front of a queue come right behind those already
\* written, so written and waiting ones together stay what they were.
LEMMA FrontFollows ==
    ASSUME NEW S, NEW s \in Seq(S), NEW seq \in Seq(S), NEW n \in 0..Len(seq)
    PROVE  Joined(Joined(s, SubSeq(seq, 1, n)), SubSeq(seq, n + 1, Len(seq)))
              = Joined(s, seq)
  <1> DEFINE front == SubSeq(seq, 1, n)
             rest == SubSeq(seq, n + 1, Len(seq))
             head == Joined(s, front)
             left == Joined(head, rest)
             right == Joined(s, seq)
  <1>1. /\ front \in Seq(S) /\ Len(front) = n /\ \A i \in 1..n : front[i] = seq[i]
        /\ rest \in Seq(S) /\ Len(rest) = Len(seq) - n
    BY SubSeqFacts
  <1>2. /\ \A i \in 1..Len(rest) : rest[i] = seq[i + n]
        /\ Len(seq) \in Nat /\ n \in Nat /\ n <= Len(seq)
    <2>1. Len(seq) \in Nat /\ n \in Nat
      OBVIOUS
    <2> QED
      BY <1>1, <2>1
  <1> HIDE DEF front, rest
  <1>3. head \in Seq(S) /\ IsJoin(head, s, front)
    BY <1>1, JoinedAt
  <1> HIDE DEF head
  <1>4. left \in Seq(S) /\ IsJoin(left, head, rest)
    BY <1>1, <1>3, JoinedAt
  <1>5. right \in Seq(S) /\ IsJoin(right, s, seq)
    BY JoinedAt
  <1> HIDE DEF left, right
  <1>6. ASSUME NEW i \in 1..Len(left)
        PROVE  left[i] = right[i]
    <2>1. CASE i <= Len(s)
      BY <1>2, <1>3, <1>4, <1>5, <2>1 DEF IsJoin
    <2>2. CASE i > Len(s) /\ i <= Len(s) + n
      <3>1. left[i] = front[i - Len(s)] /\ right[i] = seq[i - Len(s)]
            /\ i - Len(s) \in 1..n
        BY <1>1, <1>2, <1>3, <1>4, <1>5, <2>2 DEF IsJoin
      <3> QED
        BY <1>1, <3>1
    <2>3. CASE i > Len(s) + n
      <3>1. /\ Len(head) = Len(s) + n /\ i \in (Len(head) + 1)..(Len(head) + Len(rest))
            /\ i - Len(head) \in 1..Len(rest) /\ (i - Len(head)) + n = i - Len(s)
        BY <1>1, <1>2, <1>3, <1>4, <2>3 DEF IsJoin
      <3>2. left[i] = rest[i - Len(head)]
        BY <1>4, <3>1 DEF IsJoin
      <3>3. i \in (Len(s) + 1)..(Len(s) + Len(seq))
        BY <1>1, <1>2, <1>3, <2>3, <3>1 DEF IsJoin
      <3>4. right[i] = seq[i - Len(s)]
        BY <1>5, <3>3 DEF IsJoin
      <3> QED
        BY <1>2, <3>1, <3>2, <3>4
    <2> QED
      BY <1>2, <1>3, <2>1, <2>2, <2>3 DEF IsJoin
  <1>7. Len(left) = Len(right)
    BY <1>1, <1>2, <1>3, <1>4, <1>5 DEF IsJoin
  <1>8. left = right
    BY <1>4, <1>5, <1>6, <1>7, SameSeq
  <1> QED
    BY <1>8 DEF front, rest, head, left, right

\* Messages of the other kinds do not matter.
LEMMA OthersBetween ==
    ASSUME NEW S, NEW s \in Seq(S), NEW mid \in Seq(S), NEW t \in Seq(S),
           \A i \in DOMAIN mid : mid[i].kind # "Instant", OnceEach(Joined(s, t))
    PROVE  OnceEach(Joined(Joined(s, mid), t))
  <1> DEFINE head == Joined(s, mid)
             whole == Joined(head, t)
             short == Joined(s, t)
             Back(i) == IF i <= Len(s) THEN i ELSE i - Len(mid)
  <1>1. head \in Seq(S) /\ IsJoin(head, s, mid)
    BY JoinedAt
  <1> HIDE DEF head
  <1>2. IsJoin(whole, head, t)
    BY <1>1, JoinedAt
  <1>3. IsJoin(short, s, t)
    BY JoinedAt
  <1> HIDE DEF whole, short
  <1>4. ASSUME NEW i \in DOMAIN whole, whole[i].kind = "Instant"
        PROVE  /\ i <= Len(s) \/ i > Len(s) + Len(mid)
               /\ Back(i) \in DOMAIN short /\ short[Back(i)] = whole[i]
    <2>1. CASE i <= Len(s)
      BY <1>1, <1>2, <1>3, <2>1 DEF IsJoin
    <2>2. CASE i > Len(s) /\ i <= Len(s) + Len(mid)
      <3>1. whole[i] = mid[i - Len(s)] /\ i - Len(s) \in DOMAIN mid
        BY <1>1, <1>2, <2>2 DEF IsJoin
      <3> QED
        BY <1>4, <3>1
    <2>3. CASE i > Len(s) + Len(mid)
      <3>1. whole[i] = t[i - (Len(s) + Len(mid))]
        <4>1. Len(head) = Len(s) + Len(mid)
          BY <1>1 DEF IsJoin
        <4>2. i \in (Len(head) + 1)..(Len(head) + Len(t))
          BY <1>1, <1>2, <2>3 DEF IsJoin
        <4> QED
          BY <1>2, <4>1, <4>2 DEF IsJoin
      <3>2. /\ i - Len(mid) \in DOMAIN short /\ Back(i) = i - Len(mid)
            /\ short[i - Len(mid)] = t[(i - Len(mid)) - Len(s)]
        BY <1>1, <1>2, <1>3, <2>3 DEF IsJoin
      <3>3. (i - Len(mid)) - Len(s) = i - (Len(s) + Len(mid))
        BY <1>1, <1>2, <2>3 DEF IsJoin
      <3> QED
        BY <2>3, <3>1, <3>2, <3>3
    <2> QED
      BY <1>1, <1>2, <2>1, <2>2, <2>3 DEF IsJoin
  <1>5. ASSUME NEW i \in DOMAIN whole, NEW j \in DOMAIN whole,
               whole[i].kind = "Instant", whole[j].kind = "Instant",
               whole[i].data = whole[j].data
        PROVE  i = j
    <2>1. Back(i) = Back(j)
      <3>1. /\ short[Back(i)] = whole[i] /\ short[Back(j)] = whole[j]
            /\ Back(i) \in DOMAIN short /\ Back(j) \in DOMAIN short
        BY <1>4, <1>5
      <3> HIDE DEF Back
      <3> QED
        BY <1>5, <3>1 DEF OnceEach, short
    <2>2. /\ i <= Len(s) \/ i > Len(s) + Len(mid)
          /\ j <= Len(s) \/ j > Len(s) + Len(mid)
      BY <1>4, <1>5
    <2> QED
      BY <1>1, <1>2, <2>1, <2>2 DEF IsJoin
  <1> QED
    BY <1>5 DEF OnceEach, whole, head

\* A packet that is being filled from queue q holds what the queues miss, and
\* takes `limit' bytes at most.  No Instant message comes to be there twice.
Packings(Data, q, limit) ==
    {w \in PackingTypes(Data) :
        /\ ToSet(w.i) \cup ToSet(w.r) \cup ToSet(w.o) \cup ToSet(w.out) = Queued(q)
        /\ w.written = RequiredBytes(w.out) /\ w.written <= limit
        /\ w.out = <<>> => /\ w.i = q.iQueue /\ w.r = q.rQueue
                           /\ w.o = q.oQueue
        /\ OnceEach(q.iQueue) => OnceEach(Joined(w.out, w.i))}

LEMMA SubsetSeq ==
    ASSUME NEW S, NEW T, S \subseteq T, NEW seq \in Seq(S)
    PROVE  seq \in Seq(T)
  OBVIOUS

\* The first n messages of a queue, and the others.
LEMMA Split ==
    ASSUME NEW S, NEW seq \in Seq(S), NEW n \in 0..Len(seq)
    PROVE  LET front == SubSeq(seq, 1, n)
               rest == SubSeq(seq, n + 1, Len(seq))
           IN  /\ front \in Seq(S) /\ rest \in Seq(S)
               /\ ToSet(seq) = ToSet(front) \cup ToSet(rest)
               /\ front = <<>> => n = 0 /\ rest = seq
  <1> DEFINE front == SubSeq(seq, 1, n)
             rest == SubSeq(seq, n + 1, Len(seq))
  <1>1. /\ front \in Seq(S) /\ Len(front) = n /\ rest \in Seq(S)
        /\ ToSet(seq) = ToSet(front) \cup ToSet(rest)
    BY SubSeqFacts
  <1>2. n = 0 => rest = seq
    OBVIOUS
  <1>3. Len(<<>>) = 0
    OBVIOUS
  <1> HIDE DEF rest
  <1> QED
    BY <1>1, <1>2, <1>3 DEF rest

LEMMA ConcatEmpty ==
    ASSUME NEW S, NEW s \in Seq(S), NEW t \in Seq(S), s \o t = <<>>
    PROVE  s = <<>> /\ t = <<>>
  <1>1. Len(s \o t) = Len(s) + Len(t) /\ Len(s) \in Nat /\ Len(t) \in Nat
    OBVIOUS
  <1>2. Len(s \o t) = 0
    OBVIOUS
  <1>3. Len(s) = 0 /\ Len(t) = 0
    BY <1>1, <1>2
  <1> QED
    BY <1>3

LEMMA MoveFrontPacks ==
    ASSUME NEW Data, NEW q, NEW limit, NEW w \in Packings(Data, q, limit),
           NEW k \in {"i", "r", "o"}, NEW n \in 0..Len(w[k]), NEW bound \in Nat,
           w.written + RequiredBytes(SubSeq(w[k], 1, n)) <= bound
    PROVE  /\ MoveFront(w, k, n) \in Packings(Data, q, bound)
           /\ w.out # <<>> \/ n # 0 => MoveFront(w, k, n).out # <<>>
  <1> DEFINE front == SubSeq(w[k], 1, n)
             rest == SubSeq(w[k], n + 1, Len(w[k]))
             out == w.out \o front
             bytes == w.written + RequiredBytes(front)
             new == MoveFront(w, k, n)
             M == MessagesOf(Data)
  <1>1. /\ w.i \in Seq(OfKind(Data, "Instant"))
        /\ w.r \in Seq(OfKind(Data, "Reliable"))
        /\ w.o \in Seq(OfKind(Data, "Ordered"))
        /\ w.out \in Seq(M) /\ w.written \in Nat /\ w \in PackingTypes(Data)
        /\ ToSet(w.i) \cup ToSet(w.r) \cup ToSet(w.o) \cup ToSet(w.out) = Queued(q)
        /\ w.written = RequiredBytes(w.out)
        /\ w.out = <<>> => /\ w.i = q.iQueue /\ w.r = q.rQueue
                           /\ w.o = q.oQueue
        /\ OnceEach(q.iQueue) => OnceEach(Joined(w.out, w.i))
    BY DEF Packings, PackingTypes
  <1> DEFINE S == CASE k = "i" -> OfKind(Data, "Instant")
                    [] k = "r" -> OfKind(Data, "Reliable")
                    [] k = "o" -> OfKind(Data, "Ordered")
  <1>2. S \subseteq M /\ w[k] \in Seq(S)
    BY <1>1 DEF OfKind
  <1>3. /\ front \in Seq(S) /\ rest \in Seq(S)
        /\ ToSet(w[k]) = ToSet(front) \cup ToSet(rest)
        /\ front = <<>> => n = 0 /\ rest = w[k]
    <2> HIDE DEF S
    <2> QED
      BY <1>2, Split
  <1>4. new = [w EXCEPT ![k] = rest, !.out = out, !.written = bytes]
    BY DEF MoveFront
  <1> HIDE DEF front, rest, new, M
  <1>5. front \in Seq(M)
    <2> HIDE DEF S
    <2> QED
      BY <1>2, <1>3, SubsetSeq
  <1>6. /\ out \in Seq(M) /\ ToSet(out) = ToSet(w.out) \cup ToSet(front)
        /\ bytes \in Nat /\ bytes = RequiredBytes(out)
        /\ out = <<>> => w.out = <<>> /\ front = <<>>
    <2>1. out \in Seq(M) /\ ToSet(out) = ToSet(w.out) \cup ToSet(front)
      BY <1>1, <1>5, ConcatSet
    <2>2. /\ RequiredBytes(front) \in Nat
          /\ RequiredBytes(out) = RequiredBytes(w.out) + RequiredBytes(front)
      <3>1. \A s, t \in Seq(M) : /\ RequiredBytes(s) \in Nat
                                 /\ RequiredBytes(s \o t) = RequiredBytes(s) + RequiredBytes(t)
        BY RequiredConcat DEF M
      <3> QED
        BY <1>1, <1>5, <3>1
    <2>3. out = <<>> => w.out = <<>> /\ front = <<>>
      BY <1>1, <1>5, ConcatEmpty
    <2> HIDE DEF out
    <2> QED
      BY <1>1, <2>1, <2>2, <2>3
  <1>7. bytes <= bound
    BY DEF front
  <1>11. OnceEach(q.iQueue) =>
            OnceEach(Joined(out, IF k = "i" THEN rest ELSE w.i))
    <2>1. out = Joined(w.out, front)
      BY DEF Joined
    <2> HIDE DEF out
    <2>2. w.i \in Seq(M) /\ OfKind(Data, "Instant") \subseteq M
      <3>1. OfKind(Data, "Instant") \subseteq M
        BY DEF OfKind, M
      <3> QED
        BY <1>1, <3>1, SubsetSeq
    <2>3. CASE k = "i"
      <3>1. Joined(Joined(w.out, front), rest) = Joined(w.out, w.i)
        BY <1>1, <2>2, <2>3, FrontFollows DEF front, rest
      <3> QED
        BY <1>1, <2>1, <2>3, <3>1
    <2>4. CASE k # "i"
      <3>1. \A x \in S : x.kind # "Instant"
        BY <2>4 DEF OfKind
      <3> HIDE DEF S
      <3>2. \A i \in DOMAIN front : front[i].kind # "Instant"
        BY <1>3, <3>1
      <3>3. OnceEach(Joined(w.out, w.i)) => OnceEach(Joined(Joined(w.out, front), w.i))
        BY <1>1, <1>5, <2>2, <3>2, OthersBetween
      <3> QED
        BY <1>1, <2>1, <2>4, <3>3
    <2> QED
      BY <2>3, <2>4
  <1> HIDE DEF out, bytes
  <1>8. /\ new \in PackingTypes(Data) /\ new.out = out /\ new.written = bytes
        /\ new.i = IF k = "i" THEN rest ELSE w.i
        /\ new.r = IF k = "r" THEN rest ELSE w.r
        /\ new.o = IF k = "o" THEN rest ELSE w.o
    <2>1. CASE k = "i"
      BY <1>1, <1>3, <1>4, <1>6, <2>1 DEF PackingTypes, M
    <2>2. CASE k = "r"
      BY <1>1, <1>3, <1>4, <1>6, <2>2 DEF PackingTypes, M
    <2>3. CASE k = "o"
      BY <1>1, <1>3, <1>4, <1>6, <2>3 DEF PackingTypes, M
    <2> QED
      BY <2>1, <2>2, <2>3
  <1> HIDE DEF S
  <1>9. ToSet(new.i) \cup ToSet(new.r) \cup ToSet(new.o) \cup ToSet(new.out) = Queued(q)
    <2>1. CASE k = "i"
      BY <1>1, <1>3, <1>6, <1>8, <2>1
    <2>2. CASE k = "r"
      BY <1>1, <1>3, <1>6, <1>8, <2>2
    <2>3. CASE k = "o"
      BY <1>1, <1>3, <1>6, <1>8, <2>3
    <2> QED
      BY <2>1, <2>2, <2>3
  <1>10. new.out = <<>> => /\ n = 0 /\ w.out = <<>>
                           /\ new.i = q.iQueue /\ new.r = q.rQueue
                           /\ new.o = q.oQueue
    BY <1>1, <1>3, <1>6, <1>8
  <1> QED
    BY <1>6, <1>7, <1>8, <1>9, <1>10, <1>11 DEF Packings, new

LEMMA QuotaTypes ==
    ASSUME NEW kind \in Kinds
    PROVE  Quota[kind] \in Nat /\ Quota[kind] <= 100
  BY QuotaAssumption

LEMMA SharePacks ==
    ASSUME NEW Data, NEW q, NEW limit \in Nat,
           NEW w \in Packings(Data, q, limit), NEW k \in {"i", "r", "o"},
           NEW kind \in Kinds, NEW space \in Nat
    PROVE  /\ (space * Quota[kind]) \div 100 \in Nat
           /\ WriteShare(w, k, kind, space)
                 \in Packings(Data, q, limit + ((space * Quota[kind]) \div 100))
  <1> DEFINE share == (space * Quota[kind]) \div 100
             n == FitCount(w[k], share)
  <1>1. share \in Nat
    <2>1. Quota[kind] \in Nat
      BY QuotaTypes
    <2> DEFINE x == space * Quota[kind]
    <2>2. x \in Nat
      BY <2>1
    <2> HIDE DEF x
    <2>3. x \div 100 \in Nat
      BY <2>2
    <2> QED
      BY <2>3 DEF x
  <1> HIDE DEF share
  <1>2. w[k] \in Seq(MessagesOf(Data)) /\ w.written \in Nat /\ w.written <= limit
    <2>1. /\ w.i \in Seq(OfKind(Data, "Instant"))
          /\ w.r \in Seq(OfKind(Data, "Reliable"))
          /\ w.o \in Seq(OfKind(Data, "Ordered"))
          /\ w.written \in Nat /\ w.written <= limit
      BY DEF Packings, PackingTypes
    <2>2. \A other \in Kinds : OfKind(Data, other) \subseteq MessagesOf(Data)
      BY DEF OfKind
    <2> DEFINE M == MessagesOf(Data)
    <2> HIDE DEF M
    <2>3. w.i \in Seq(M) /\ w.r \in Seq(M) /\ w.o \in Seq(M)
      BY <2>1, <2>2, SubsetSeq DEF Kinds, M
    <2> QED
      BY <2>1, <2>3 DEF M
  <1>3. n \in 0..Len(w[k]) /\ RequiredBytes(SubSeq(w[k], 1, n)) <= share
    BY <1>1, <1>2, FitFacts
  <1>4. RequiredBytes(SubSeq(w[k], 1, n)) \in Nat
    <2>1. SubSeq(w[k], 1, n) \in Seq(MessagesOf(Data))
      BY <1>2, <1>3, SubSeqFacts
    <2> QED
      BY <2>1, RequiredConcat
  <1> HIDE DEF n
  <1>5. w.written + RequiredBytes(SubSeq(w[k], 1, n)) <= limit + share
    BY <1>1, <1>2, <1>3, <1>4
  <1>6. MoveFront(w, k, n) \in Packings(Data, q, limit + share)
    BY <1>1, <1>3, <1>5, MoveFrontPacks
  <1> QED
    BY <1>1, <1>6 DEF WriteShare, share, n

LEMMA RequiredOne ==
    ASSUME NEW Data, NEW queue \in Seq(MessagesOf(Data)), queue # <<>>
    PROVE  /\ 1 \in 0..Len(queue) /\ Head(queue) \in MessagesOf(Data)
           /\ RequiredBytes(SubSeq(queue, 1, 1)) = Required(Head(queue))
  <1> DEFINE one == SubSeq(queue, 1, 1)
  <1>1. Len(queue) \in Nat \ {0} /\ Head(queue) = queue[1]
        /\ Head(queue) \in MessagesOf(Data)
    OBVIOUS
  <1>2. 1 \in 0..Len(queue) /\ 1 \in 1..1
    BY <1>1
  <1>3. one \in Seq(MessagesOf(Data)) /\ Len(one) = 1 /\ one[1] = queue[1]
    BY <1>2, SubSeqFacts
  <1> HIDE DEF one
  <1>4. PICK g : PartialBytes(g, one)
    BY <1>3, RequiredRuns
  <1>5. RequiredBytes(one) = g[1] /\ g[1] = g[0] + Required(one[1]) /\ g[0] = 0
    BY <1>3, <1>4 DEF PartialBytes
  <1>6. Required(Head(queue)) \in Nat
    BY <1>1, RequiredType
  <1>7. RequiredBytes(one) = Required(Head(queue))
    BY <1>1, <1>3, <1>5, <1>6
  <1> QED
    BY <1>1, <1>2, <1>7 DEF one

\* Some queue begins with a message that fits into `space' bytes.
SomeFits(q, space) ==
    \E queue \in {q.iQueue, q.rQueue, q.oQueue} :
        queue # <<>> /\ Required(Head(queue)) <= space

LEMMA OnePacks ==
    ASSUME NEW Data, NEW q, NEW space \in Nat,
           NEW w \in Packings(Data, q, space), NEW k \in {"i", "r", "o"}
    PROVE  LET new == WriteOne(w, k, space)
           IN  /\ new \in Packings(Data, q, space)
               /\ w.out # <<>> => new.out # <<>>
               /\ w.out = <<>> /\ w[k] # <<>> /\ Required(Head(w[k])) <= space
                  => new.out # <<>>
  <1>1. w[k] \in Seq(MessagesOf(Data)) /\ w.written \in Nat
        /\ w.written = RequiredBytes(w.out)
    <2>1. /\ w.i \in Seq(OfKind(Data, "Instant"))
          /\ w.r \in Seq(OfKind(Data, "Reliable"))
          /\ w.o \in Seq(OfKind(Data, "Ordered"))
          /\ w.written \in Nat /\ w.written = RequiredBytes(w.out)
      BY DEF Packings, PackingTypes
    <2>2. \A other \in Kinds : OfKind(Data, other) \subseteq MessagesOf(Data)
      BY DEF OfKind
    <2> DEFINE M == MessagesOf(Data)
    <2> HIDE DEF M
    <2>3. w.i \in Seq(M) /\ w.r \in Seq(M) /\ w.o \in Seq(M)
      BY <2>1, <2>2, SubsetSeq DEF Kinds, M
    <2> QED
      BY <2>1, <2>3 DEF M
  <1>2. w.out = <<>> => w.written = 0
    BY <1>1, RequiredEmpty
  <1>3. CASE w[k] # <<>> /\ Required(Head(w[k])) <= space - w.written
    <2>1. /\ 1 \in 0..Len(w[k])
          /\ RequiredBytes(SubSeq(w[k], 1, 1)) = Required(Head(w[k]))
          /\ Required(Head(w[k])) \in Nat
      <3>1. /\ 1 \in 0..Len(w[k]) /\ Head(w[k]) \in MessagesOf(Data)
            /\ RequiredBytes(SubSeq(w[k], 1, 1)) = Required(Head(w[k]))
        BY <1>1, <1>3, RequiredOne
      <3> QED
        BY <3>1, RequiredType
    <2>2. w.written + RequiredBytes(SubSeq(w[k], 1, 1)) <= space
      BY <1>1, <1>3, <2>1
    <2>3. /\ MoveFront(w, k, 1) \in Packings(Data, q, space)
          /\ MoveFront(w, k, 1).out # <<>>
      BY <2>1, <2>2, MoveFrontPacks
    <2>4. WriteOne(w, k, space) = MoveFront(w, k, 1)
      BY <1>3 DEF WriteOne
    <2> QED
      BY <2>3, <2>4
  <1>4. CASE ~(w[k] # <<>> /\ Required(Head(w[k])) <= space - w.written)
    <2>1. WriteOne(w, k, space) = w
      BY <1>4 DEF WriteOne
    <2>2. space - 0 = space
      OBVIOUS
    <2> QED
      BY <1>2, <1>4, <2>1, <2>2
  <1> QED
    BY <1>3, <1>4

\* What a turn and the loop of turns do to a packet that is being filled.
Fills(Data, q, space, w, new) ==
    /\ new \in Packings(Data, q, space)
    /\ w.out # <<>> \/ SomeFits(q, space) => new.out # <<>>

LEMMA TurnPacks ==
    ASSUME NEW Data, NEW q, NEW space \in Nat, NEW w \in Packings(Data, q, space)
    PROVE  Fills(Data, q, space, w, Turn(w, space))
  <1> DEFINE ks == <<"i", "r", "o">>
             n == 3
             V == Packings(Data, q, space)
             One(a, k) == WriteOne(a, k, space)
             Sum(it) == it = [T \in SUBSET (1..n) |->
                 IF T = {} THEN w
                 ELSE One(it[T \ {Max(T)}], ks[Max(T)])]
             sum == CHOOSE it : Sum(it)
             F == [x \in V \X (1..n) |-> One(x[1], ks[x[2]])]
  <1>1. /\ n \in Nat /\ DOMAIN ks = 1..n /\ \A i \in 1..n : ks[i] \in {"i", "r", "o"}
        /\ Len(ks) = n /\ ks[1] = "i" /\ ks[2] = "r" /\ ks[3] = "o"
    OBVIOUS
  <1> HIDE DEF ks
  <1>2. ASSUME NEW a \in V, NEW i \in 1..n
        PROVE  /\ One(a, ks[i]) \in V
               /\ a.out # <<>> => One(a, ks[i]).out # <<>>
               /\ a.out = <<>> /\ a[ks[i]] # <<>>
                  /\ Required(Head(a[ks[i]])) <= space
                  => One(a, ks[i]).out # <<>>
    BY <1>1, OnePacks
  <1>3. F \in [V \X (1..n) -> V]
    BY <1>2
  <1>4. Turn(w, space) = sum[1..n]
    BY <1>1 DEF Turn, FoldLeft, MapThenFoldSet, ks
  <1>5. ASSUME NEW a \in V, NEW i \in 1..n
        PROVE  F[a, i] = One(a, ks[i])
    OBVIOUS
  <1> HIDE DEF One, F, n, V
  <1>6. PICK known \in [SUBSET (1..n) -> V] : Unfolds(known, n, w, F)
    BY <1>1, <1>3, FoldExists DEF V
  <1>7. \A T \in SUBSET (1..n) :
           T # {} => Max(T) \in 1..n /\ T \ {Max(T)} \in SUBSET (1..n)
    BY <1>1, MaxOfRange
  <1>8. Sum(sum)
    <2>1. Sum(known)
      BY <1>5, <1>6, <1>7 DEF Unfolds
    <2> QED
      BY <2>1
  <1> HIDE DEF sum
  <1>9. UnfoldsIn(sum, n, V, w, F)
    BY <1>5, <1>7, <1>8 DEF UnfoldsIn
  <1>10. PICK g : Runs(g, n, V, w, F, sum)
    <2>1. F \in Steps(V, n) /\ w \in V
      BY <1>3 DEF Steps, V
    <2> QED
      BY <1>1, <1>9, <2>1, FoldRuns
  <1>11. ASSUME NEW k \in 1..n
         PROVE  g[k - 1] \in V /\ g[k] = One(g[k - 1], ks[k])
    <2>1. k - 1 \in 0..n
      BY <1>1
    <2>2. g[k - 1] \in V /\ g[k] = F[g[k - 1], k]
      BY <1>10, <2>1 DEF Runs
    <2> QED
      BY <1>5, <2>2
  <1>12. /\ g[0] = w /\ Turn(w, space) = g[3]
         /\ g[0] \in V /\ g[1] = One(g[0], "i")
         /\ g[1] \in V /\ g[2] = One(g[1], "r")
         /\ g[2] \in V /\ g[3] = One(g[2], "o")
    <2>1. 1 \in 1..n /\ 2 \in 1..n /\ 3 \in 1..n
      BY DEF n
    <2>2. g[1 - 1] \in V /\ g[1] = One(g[1 - 1], ks[1])
      BY <1>11, <2>1
    <2>3. g[2 - 1] \in V /\ g[2] = One(g[2 - 1], ks[2])
      BY <1>11, <2>1
    <2>4. g[3 - 1] \in V /\ g[3] = One(g[3 - 1], ks[3])
      BY <1>11, <2>1
    <2>5. 1 - 1 = 0 /\ 2 - 1 = 1 /\ 3 - 1 = 2
      OBVIOUS
    <2>6. g[0] = w /\ Turn(w, space) = g[3]
      BY <1>4, <1>10 DEF Runs, n
    <2> QED
      BY <1>1, <2>2, <2>3, <2>4, <2>5, <2>6
  <1>13. ASSUME NEW a \in V
         PROVE  /\ a.out = <<>> => /\ a.i = q.iQueue /\ a.r = q.rQueue
                                   /\ a.o = q.oQueue
                /\ \A k \in {"i", "r", "o"} :
                      /\ One(a, k) \in V
                      /\ a.out # <<>> => One(a, k).out # <<>>
                      /\ a.out = <<>> /\ a[k] # <<>>
                         /\ Required(Head(a[k])) <= space
                         => One(a, k).out # <<>>
    <2>1. /\ a \in Packings(Data, q, space)
          /\ a.out = <<>> => /\ a.i = q.iQueue /\ a.r = q.rQueue
                             /\ a.o = q.oQueue
      BY <1>13 DEF V, Packings
    <2> QED
      BY <2>1, OnePacks DEF V, One
  <1>14. g[3] \in V /\ \A i, j \in 0..3 : i <= j /\ g[i].out # <<>> => g[j].out # <<>>
    <2>1. /\ g[0].out # <<>> => g[1].out # <<>>
          /\ g[1].out # <<>> => g[2].out # <<>>
          /\ g[2].out # <<>> => g[3].out # <<>>
          /\ g[3] \in V
      BY <1>12, <1>13
    <2> QED
      BY <2>1
  <1>15. ASSUME NEW queue \in {q.iQueue, q.rQueue, q.oQueue},
                queue # <<>>, Required(Head(queue)) <= space
         PROVE  g[3].out # <<>>
    <2>1. CASE queue = q.iQueue
      <3>1. g[0].out = <<>> => g[1].out # <<>>
        BY <1>12, <1>13, <1>15, <2>1
      <3> QED
        BY <1>14, <3>1
    <2>2. CASE queue = q.rQueue
      <3>1. g[1].out = <<>> => g[2].out # <<>>
        BY <1>12, <1>13, <1>15, <2>2
      <3> QED
        BY <1>14, <3>1
    <2>3. CASE queue = q.oQueue
      <3>1. g[2].out = <<>> => g[3].out # <<>>
        BY <1>12, <1>13, <1>15, <2>3
      <3> QED
        BY <1>14, <3>1
    <2> QED
      BY <1>15, <2>1, <2>2, <2>3
  <1> QED
    BY <1>12, <1>14, <1>15 DEF Fills, SomeFits, V

LEMMA FillPacks ==
    ASSUME NEW Data, NEW q, NEW space \in Nat, NEW w \in Packings(Data, q, space)
    PROVE  Fills(Data, q, space, w, FillUp(w, space))
  <1> DEFINE n == Len(w.i) + Len(w.r) + Len(w.o)
             turns == [k \in 1..n |-> k]
             V == Packings(Data, q, space)
             OneTurn(a) == Turn(a, space)
             Sum(it) == it = [T \in SUBSET (1..n) |->
                 IF T = {} THEN w ELSE OneTurn(it[T \ {Max(T)}])]
             sum == CHOOSE it : Sum(it)
             F == [x \in V \X (1..n) |-> OneTurn(x[1])]
  <1>1. /\ w.i \in Seq(OfKind(Data, "Instant"))
        /\ w.r \in Seq(OfKind(Data, "Reliable"))
        /\ w.o \in Seq(OfKind(Data, "Ordered"))
        /\ w.out = <<>> => /\ w.i = q.iQueue /\ w.r = q.rQueue
                           /\ w.o = q.oQueue
    BY DEF Packings, PackingTypes
  <1>2. n \in Nat /\ (n = 0 => w.i = <<>> /\ w.r = <<>> /\ w.o = <<>>)
    <2>1. /\ Len(w.i) \in Nat /\ Len(w.r) \in Nat /\ Len(w.o) \in Nat
          /\ Len(w.i) = 0 => w.i = <<>>
          /\ Len(w.r) = 0 => w.r = <<>>
          /\ Len(w.o) = 0 => w.o = <<>>
      BY <1>1
    <2>2. ASSUME NEW i \in Nat, NEW r \in Nat, NEW o \in Nat
          PROVE  /\ i + r + o \in Nat
                 /\ i + r + o = 0 => i = 0 /\ r = 0 /\ o = 0
      OBVIOUS
    <2> HIDE DEF n
    <2>3. n \in Nat /\ (n = 0 => Len(w.i) = 0 /\ Len(w.r) = 0 /\ Len(w.o) = 0)
      BY <2>1, <2>2 DEF n
    <2> QED
      BY <2>1, <2>3
  <1> HIDE DEF n
  <1>3. ASSUME NEW a \in V
        PROVE  Fills(Data, q, space, a, OneTurn(a))
    BY TurnPacks
  <1>4. F \in [V \X (1..n) -> V]
    BY <1>3 DEF Fills
  <1>5. FillUp(w, space) = sum[1..n]
    <2>1. turns \in Seq(1..n) /\ Len(turns) = n
      BY <1>2
    <2>2. DOMAIN turns = 1..n
      OBVIOUS
    <2> QED
      BY <2>1, <2>2 DEF FillUp, FoldLeft, MapThenFoldSet, n
  <1>6. ASSUME NEW a \in V, NEW i \in 1..n
        PROVE  F[a, i] = OneTurn(a)
    OBVIOUS
  <1> HIDE DEF OneTurn, F, V
  <1>7. w \in V
    BY DEF V
  <1>8. PICK known \in [SUBSET (1..n) -> V] : Unfolds(known, n, w, F)
    BY <1>2, <1>4, <1>7, FoldExists
  <1>9. \A T \in SUBSET (1..n) :
           T # {} => Max(T) \in 1..n /\ T \ {Max(T)} \in SUBSET (1..n)
    BY <1>2, MaxOfRange
  <1>10. Sum(sum)
    <2>1. Sum(known)
      BY <1>6, <1>8, <1>9 DEF Unfolds
    <2> QED
      BY <2>1
  <1> HIDE DEF sum
  <1>11. UnfoldsIn(sum, n, V, w, F)
    BY <1>6, <1>9, <1>10 DEF UnfoldsIn
  <1>12. PICK g : Runs(g, n, V, w, F, sum)
    <2>1. F \in Steps(V, n)
      BY <1>4 DEF Steps
    <2> QED
      BY <1>2, <1>7, <1>11, <2>1, FoldRuns
  <1>13. ASSUME NEW k \in 1..n
         PROVE  g[k - 1] \in V /\ g[k] = OneTurn(g[k - 1])
    <2>1. k - 1 \in 0..n
      BY <1>2
    <2>2. g[k - 1] \in V /\ g[k] = F[g[k - 1], k]
      BY <1>12, <2>1 DEF Runs
    <2> QED
      BY <1>6, <2>2
  <1>14. g[0] = w /\ g[n] = FillUp(w, space) /\ g[n] \in V
    <2>1. /\ g \in [0..n -> V] /\ g[0] = w /\ g[n] = sum[1..n]
      BY <1>12 DEF Runs
    <2>2. n \in 0..n
      BY <1>2
    <2> QED
      BY <1>5, <2>1, <2>2
  <1> DEFINE T == {k \in 0..n : w.out # <<>> \/ (SomeFits(q, space) /\ k # 0)
                                => g[k].out # <<>>}
  <1>15. 0 \in T
    BY <1>2, <1>14
  <1>16. ASSUME NEW k \in 0..(n - 1), k \in T
         PROVE  k + 1 \in T
    <2>1. k + 1 \in 1..n /\ k + 1 \in 0..n /\ (k + 1) - 1 = k
      BY <1>2
    <2>2. g[k] \in V /\ g[k + 1] = OneTurn(g[k])
      BY <1>13, <2>1
    <2>3. Fills(Data, q, space, g[k], g[k + 1])
      BY <1>3, <2>2
    <2> QED
      BY <1>16, <2>1, <2>3 DEF Fills
  <1> HIDE DEF T
  <1>17. n \in T
    <2>1. 0..n \subseteq T
      BY <1>2, <1>15, <1>16, SetInduction
    <2> QED
      BY <1>2, <2>1
  <1>18. n = 0 /\ w.out = <<>> => ~SomeFits(q, space)
    BY <1>1, <1>2 DEF SomeFits
  <1>19. w.out # <<>> \/ SomeFits(q, space) => g[n].out # <<>>
    BY <1>17, <1>18 DEF T
  <1> QED
    BY <1>14, <1>19 DEF Fills, V

\* The messages as they are on the wire.
Wire(out) == [n \in DOMAIN out |-> Encode(out[n])]

\* What send_packet() makes of queue q.
Sent(Data, q, space, r, out) ==
    /\ r.queue \in QueuesOf(Data) /\ out \in Seq(MessagesOf(Data))
    /\ r.queue = [q EXCEPT !.iQueue = r.queue.iQueue, !.rQueue = r.queue.rQueue,
                           !.oQueue = r.queue.oQueue]
    /\ r.payload = Wire(out)
    /\ Queued(r.queue) \cup ToSet(out) = Queued(q)
    /\ RequiredBytes(out) <= space
    /\ SomeFits(q, space) => out # <<>>
    /\ OnceEach(q.iQueue) => OnceEach(Joined(out, r.queue.iQueue))

\* A packet takes messages out of the queues and loses none; it never holds
\* more than it may, and takes one whenever the first of some kind fits; and
\* it takes no Instant message twice.
THEOREM PackingIsSound ==
    ASSUME NEW Data, NEW q \in QueuesOf(Data), NEW space \in Nat
    PROVE  \E out : Sent(Data, q, space, QueueSendPacket(q, space), out)
  <1> DEFINE w0 == [i |-> q.iQueue, r |-> q.rQueue, o |-> q.oQueue,
                    out |-> <<>>, written |-> 0]
             Share(kind) == (space * Quota[kind]) \div 100
             w1 == WriteShare(w0, "i", "Instant", space)
             w2 == WriteShare(w1, "r", "Reliable", space)
             w3 == WriteShare(w2, "o", "Ordered", space)
             w == FillUp(w3, space)
  <1>1. w0 \in Packings(Data, q, 0)
    <2> DEFINE e == <<>>
    <2>1. /\ e \in Seq(MessagesOf(Data)) /\ ToSet(e) = {}
          /\ RequiredBytes(e) = 0
      BY EmptySet, RequiredEmpty
    <2>2. w0 = [i |-> q.iQueue, r |-> q.rQueue, o |-> q.oQueue,
                out |-> e, written |-> 0]
      OBVIOUS
    <2>4. Joined(e, q.iQueue) = q.iQueue
      <3>1. q.iQueue \in Seq(OfKind(Data, "Instant"))
        BY DEF QueuesOf
      <3> QED
        BY <3>1 DEF Joined
    <2> HIDE DEF e, w0
    <2>3. w0 \in PackingTypes(Data)
      BY <2>1, <2>2 DEF PackingTypes, QueuesOf
    <2> QED
      BY <2>1, <2>2, <2>3, <2>4 DEF Packings, Queued, e
  <1> HIDE DEF w0
  <1>2. \A kind \in Kinds : Share(kind) \in Nat
    BY <1>1, SharePacks
  <1>3. "Instant" \in Kinds /\ "Reliable" \in Kinds /\ "Ordered" \in Kinds
    BY DEF Kinds
  <1>4. w1 \in Packings(Data, q, 0 + Share("Instant"))
    BY <1>1, <1>3, SharePacks
  <1> HIDE DEF w1
  <1>5. w2 \in Packings(Data, q, (0 + Share("Instant")) + Share("Reliable"))
    <2> DEFINE limit == 0 + Share("Instant")
    <2>1. limit \in Nat /\ w1 \in Packings(Data, q, limit)
      BY <1>2, <1>3, <1>4
    <2> HIDE DEF limit
    <2> QED
      BY <1>3, <2>1, SharePacks DEF limit
  <1> HIDE DEF w2
  <1> DEFINE total == ((0 + Share("Instant")) + Share("Reliable")) + Share("Ordered")
  <1>6. w3 \in Packings(Data, q, total)
    <2> DEFINE limit == (0 + Share("Instant")) + Share("Reliable")
    <2>1. limit \in Nat /\ w2 \in Packings(Data, q, limit)
      BY <1>2, <1>3, <1>5
    <2> HIDE DEF limit
    <2> QED
      BY <1>3, <2>1, SharePacks DEF limit
  <1> HIDE DEF w3
  <1>7. total \in Nat /\ total <= space
    <2> DEFINE i == Quota["Instant"]
               r == Quota["Reliable"]
               o == Quota["Ordered"]
    <2>1. i \in Nat /\ r \in Nat /\ o \in Nat /\ i + r + o <= 100
      BY <1>3, QuotaTypes, QuotaAssumption
    <2>2. /\ total = ((0 + (space * i) \div 100) + (space * r) \div 100)
                     + (space * o) \div 100
      OBVIOUS
    <2> HIDE DEF i, r, o, total
    <2>3. ASSUME NEW x \in Nat
          PROVE  x \div 100 \in Nat /\ 100 * (x \div 100) <= x
      OBVIOUS
    <2>4. /\ space * i \in Nat /\ space * r \in Nat /\ space * o \in Nat
          /\ space * i + space * r + space * o <= 100 * space
      <3>1. space * i + space * r + space * o = space * (i + r + o)
        BY <2>1, Z3
      <3>2. \A a, b \in Nat : a <= b => space * a <= space * b
        BY Z3
      <3>3. space * (i + r + o) <= space * 100
        BY <2>1, <3>2
      <3> QED
        BY <2>1, <3>1, <3>3
    <2> DEFINE x == space * i
               y == space * r
               z == space * o
    <2> HIDE DEF x, y, z
    <2>5. /\ x \in Nat /\ y \in Nat /\ z \in Nat /\ x + y + z <= 100 * space
          /\ total = ((0 + x \div 100) + y \div 100) + z \div 100
      BY <2>2, <2>4 DEF x, y, z
    <2> QED
      BY <2>3, <2>5
  <1>8. w3 \in Packings(Data, q, space)
    BY <1>6, <1>7 DEF Packings, PackingTypes
  <1>9. Fills(Data, q, space, w3, w)
    BY <1>8, FillPacks
  <1>10. QueueSendPacket(q, space) = Packed(q, w)
    BY DEF QueueSendPacket, w0, w1, w2, w3
  <1> HIDE DEF w
  <1>11. /\ w \in PackingTypes(Data) /\ RequiredBytes(w.out) <= space
         /\ ToSet(w.i) \cup ToSet(w.r) \cup ToSet(w.o) \cup ToSet(w.out) = Queued(q)
         /\ SomeFits(q, space) => w.out # <<>>
         /\ OnceEach(q.iQueue) => OnceEach(Joined(w.out, w.i))
    BY <1>9 DEF Fills, Packings
  <1>12. Sent(Data, q, space, Packed(q, w), w.out)
    <2> DEFINE r == Packed(q, w)
    <2>1. r.queue = [q EXCEPT !.iQueue = w.i, !.rQueue = w.r, !.oQueue = w.o]
          /\ r.payload = Wire(w.out)
      BY DEF Packed, Wire
    <2> HIDE DEF r
    <2>2. /\ r.queue \in QueuesOf(Data)
          /\ r.queue.iQueue = w.i /\ r.queue.rQueue = w.r
          /\ r.queue.oQueue = w.o /\ w.out \in Seq(MessagesOf(Data))
      BY <1>11, <2>1 DEF PackingTypes, QueuesOf
    <2>3. Queued(r.queue) \cup ToSet(w.out) = Queued(q)
      BY <1>11, <2>2 DEF Queued
    <2> QED
      BY <1>11, <2>1, <2>2, <2>3 DEF Sent, r
  <1> QED
    BY <1>10, <1>12

-----------------------------------------------------------------------------
(* Unpacking *)

LEMMA OnlyAll ==
    ASSUME NEW S, NEW seq \in Seq(S), NEW set, ToSet(seq) \subseteq set
    PROVE  Only(seq, set) = seq
  <1> DEFINE n == Len(seq)
  <1>0. PICK g : KeptBy(g, S, seq, set)
    BY OnlyRuns
  <1>1. /\ n \in Nat /\ DOMAIN seq = 1..n /\ \A i \in 1..n : seq[i] \in S
        /\ \A i \in 1..n : seq[i] \in set
    BY DEF ToSet
  <1>2. /\ g \in [0..n -> Seq(S)] /\ g[0] = <<>>
        /\ \A k \in 1..n : g[k] = Append(g[k - 1], seq[k])
        /\ Only(seq, set) = g[n]
    BY <1>0, <1>1 DEF KeptBy
  <1> HIDE DEF n
  <1> DEFINE T == {k \in 0..n : Len(g[k]) = k /\ \A i \in 1..k : g[k][i] = seq[i]}
  <1>3. 0 \in T
    <2>1. Len(<<>>) = 0 /\ 1..0 = {}
      OBVIOUS
    <2> QED
      BY <1>1, <1>2, <2>1
  <1>4. ASSUME NEW k \in 0..(n - 1), k \in T
        PROVE  k + 1 \in T
    <2>1. k + 1 \in 1..n /\ (k + 1) - 1 = k /\ k \in 0..n /\ k + 1 \in 0..n
      BY <1>1
    <2>2. g[k] \in Seq(S) /\ seq[k + 1] \in S /\ g[k + 1] = Append(g[k], seq[k + 1])
      BY <1>1, <1>2, <2>1
    <2> DEFINE old == g[k]
               x == seq[k + 1]
    <2>3. Len(old) = k /\ \A i \in 1..k : old[i] = seq[i]
      BY <1>4
    <2> HIDE DEF old, x
    <2>4. /\ Len(Append(old, x)) = k + 1 /\ Append(old, x)[k + 1] = x
          /\ \A i \in 1..k : Append(old, x)[i] = old[i]
      BY <2>2, <2>3 DEF old, x
    <2>5. \A i \in 1..(k + 1) : i \in 1..k \/ i = k + 1
      BY <2>1
    <2>6. /\ Len(g[k + 1]) = k + 1
          /\ \A i \in 1..(k + 1) : g[k + 1][i] = seq[i]
      BY <2>2, <2>3, <2>4, <2>5 DEF old, x
    <2> QED
      BY <2>1, <2>6
  <1> HIDE DEF T
  <1>5. n \in T
    <2>1. 0..n \subseteq T
      BY <1>1, <1>3, <1>4, SetInduction
    <2> QED
      BY <1>1, <2>1
  <1>6. g[n] \in Seq(S) /\ Len(g[n]) = n /\ \A i \in 1..n : g[n][i] = seq[i]
    BY <1>1, <1>2, <1>5 DEF T
  <1>7. g[n] = seq
    <2> DEFINE h == g[n]
    <2>1. h \in Seq(S) /\ Len(h) = n /\ \A i \in 1..n : h[i] = seq[i]
      BY <1>6
    <2> HIDE DEF h
    <2>2. DOMAIN h = 1..n /\ h = [i \in 1..n |-> h[i]]
      BY <2>1
    <2>3. seq = [i \in 1..n |-> seq[i]]
      BY <1>1
    <2> QED
      BY <2>1, <2>2, <2>3 DEF h
  <1> QED
    BY <1>2, <1>7

\* What is kept of two sequences, one after the other.
LEMMA OnlyConcat ==
    ASSUME NEW S, NEW s \in Seq(S), NEW t \in Seq(S), NEW set
    PROVE  Only(Joined(s, t), set) = Joined(Only(s, set), Only(t, set))
  <1> DEFINE m == Len(s)
             n == Len(t)
             u == s \o t
  <1>1. /\ m \in Nat /\ n \in Nat /\ Len(u) = m + n /\ u \in Seq(S)
        /\ \A i \in 1..m : u[i] = s[i]
        /\ \A i \in 1..n : u[m + i] = t[i] /\ t[i] \in S
    <2>1. \A i \in (m + 1)..(m + n) : u[i] = t[i - m]
      OBVIOUS
    <2>2. \A i \in 1..n : m + i \in (m + 1)..(m + n) /\ (m + i) - m = i
      OBVIOUS
    <2>3. \A i \in 1..n : u[m + i] = t[i]
      BY <2>1, <2>2
    <2> QED
      BY <2>3
  <1>2. PICK gs : KeptBy(gs, S, s, set)
    BY OnlyRuns
  <1>3. PICK gt : KeptBy(gt, S, t, set)
    BY OnlyRuns
  <1> HIDE DEF u
  <1>4. PICK g : KeptBy(g, S, u, set)
    BY <1>1, OnlyRuns
  <1> HIDE DEF m, n
  <1> DEFINE A == {k \in 0..m : g[k] = gs[k]}
             B == {k \in 0..n : g[m + k] = gs[m] \o gt[k]}
  <1>5. m \in A
    <2>1. 0 \in A
      BY <1>1, <1>2, <1>4 DEF KeptBy
    <2>2. ASSUME NEW k \in 0..(m - 1), k \in A
          PROVE  k + 1 \in A
      <3>1. k + 1 \in 1..m /\ k + 1 \in 1..(m + n) /\ (k + 1) - 1 = k
            /\ k + 1 \in 0..m
        BY <1>1
      <3>2. g[k + 1] = IF u[k + 1] \in set THEN Append(g[k], u[k + 1]) ELSE g[k]
        BY <1>1, <1>4, <3>1 DEF KeptBy
      <3>3. gs[k + 1] = IF s[k + 1] \in set THEN Append(gs[k], s[k + 1])
                        ELSE gs[k]
        BY <1>2, <3>1 DEF KeptBy, m
      <3>4. u[k + 1] = s[k + 1] /\ g[k] = gs[k]
        BY <1>1, <2>2, <3>1
      <3>5. g[k + 1] = gs[k + 1]
        BY <3>2, <3>3, <3>4
      <3> QED
        BY <3>1, <3>5
    <2> HIDE DEF A
    <2>3. 0..m \subseteq A
      BY <1>1, <2>1, <2>2, SetInduction
    <2> QED
      BY <1>1, <2>3
  <1>6. PICK first \in Seq(S) : gs[m] = first /\ g[m] = first
    <2>1. gs[m] \in Seq(S) /\ g[m] = gs[m]
      BY <1>1, <1>2, <1>5 DEF KeptBy, m
    <2> QED
      BY <2>1
  <1>7. ASSUME NEW a \in Seq(S), NEW x \in S
        PROVE  Append(first \o a, x) = first \o Append(a, x)
    <2> DEFINE one == <<x>>
               all == first \o a
    <2>1. one \in Seq(S) /\ all \in Seq(S)
      OBVIOUS
    <2>2. Append(all, x) = all \o one /\ Append(a, x) = a \o one
      BY <2>1, AppendIsConcat
    <2> HIDE DEF one
    <2>3. all \o one = first \o (a \o one)
      BY <2>1, ConcatAssociative
    <2> QED
      BY <2>2, <2>3
  <1>8. n \in B
    <2>1. 0 \in B
      <3>1. gt[0] = <<>> /\ m + 0 = m
        BY <1>1, <1>3 DEF KeptBy, n
      <3>2. first \o <<>> = first
        BY <1>6, ConcatEmptySeq
      <3>3. g[m + 0] = first \o gt[0]
        BY <1>6, <3>1, <3>2, Zenon
      <3>4. 0 \in 0..n
        BY <1>1
      <3> QED
        BY <1>6, <3>3, <3>4
    <2>2. ASSUME NEW k \in 0..(n - 1), k \in B
          PROVE  k + 1 \in B
      <3>1. /\ k + 1 \in 1..n /\ m + (k + 1) \in 1..(m + n) /\ k \in 0..n
            /\ (m + (k + 1)) - 1 = m + k /\ (k + 1) - 1 = k /\ k + 1 \in 0..n
        BY <1>1
      <3> DEFINE x == t[k + 1]
                 old == gt[k]
      <3>2. g[m + (k + 1)] = IF x \in set THEN Append(g[m + k], x) ELSE g[m + k]
        <4>1. u[m + (k + 1)] = x
          BY <1>1, <3>1
        <4> QED
          BY <1>1, <1>4, <3>1, <4>1 DEF KeptBy
      <3>3. gt[k + 1] = IF x \in set THEN Append(old, x) ELSE old
        BY <1>3, <3>1 DEF KeptBy, n
      <3>4. old \in Seq(S) /\ x \in S /\ g[m + k] = first \o old
        BY <1>1, <1>3, <1>6, <2>2, <3>1 DEF KeptBy, n
      <3> HIDE DEF x, old
      <3>5. Append(first \o old, x) = first \o Append(old, x)
        BY <1>7, <3>4
      <3>6. g[m + (k + 1)] = first \o gt[k + 1]
        BY <3>2, <3>3, <3>4, <3>5
      <3> QED
        BY <1>6, <3>1, <3>6
    <2> HIDE DEF B
    <2>3. 0..n \subseteq B
      BY <1>1, <2>1, <2>2, SetInduction
    <2> QED
      BY <1>1, <2>3
  <1>9. Only(u, set) = g[m + n] /\ Only(t, set) = gt[n] /\ Only(s, set) = first
    BY <1>1, <1>2, <1>3, <1>4, <1>6 DEF KeptBy, m, n
  <1> QED
    BY <1>6, <1>8, <1>9 DEF u, Joined

LEMMA OnlyNone ==
    ASSUME NEW S, NEW seq \in Seq(S), NEW set, ToSet(seq) \cap set = {}
    PROVE  Only(seq, set) = <<>>
  <1> DEFINE only == Only(seq, set)
  <1>1. only \in Seq(S) /\ ToSet(only) = {}
    BY OnlyFacts
  <1> HIDE DEF only
  <1> DEFINE n == Len(only)
  <1>2. n \in Nat /\ DOMAIN only = 1..n
    BY <1>1
  <1>3. 1..n = {}
    BY <1>1, <1>2 DEF ToSet
  <1> HIDE DEF n
  <1>4. n = 0
    BY <1>2, <1>3
  <1> QED
    BY <1>1, <1>4 DEF only, n

\* What the receiver unpacks is what the sender packed: every message, whatever
\* its kind, id and size, and in the order of the packet.
THEOREM PayloadRoundTrip ==
    ASSUME NEW Data, NEW out \in Seq(MessagesOf(Data))
    PROVE  MessagesFromPacket(Wire(out)) = out
  <1> DEFINE n == Len(out)
             wire == Wire(out)
             S == {Encode(m) : m \in MessagesOf(Data)}
             known == Only(wire, {e \in ToSet(wire) : KnownKind(e)})
  <1>1. n \in Nat /\ DOMAIN out = 1..n /\ \A i \in 1..n : out[i] \in MessagesOf(Data)
    OBVIOUS
  <1>2. out = [i \in 1..n |-> out[i]]
    BY <1>1
  <1>3. \A m \in MessagesOf(Data) : KnownKind(Encode(m)) /\ Decode(Encode(m)) = m
    BY HeaderRoundTrip
  <1> HIDE DEF n
  <1>4. /\ wire \in Seq(S) /\ Len(wire) = n
        /\ \A i \in 1..n : wire[i] = Encode(out[i])
    <2>1. wire = [i \in 1..n |-> Encode(out[i])]
      BY <1>1 DEF Wire
    <2> HIDE DEF wire
    <2>2. \A i \in 1..n : Encode(out[i]) \in S
      BY <1>1
    <2> HIDE DEF S
    <2> QED
      BY <1>1, <2>1, <2>2, IsASeq
  <1> HIDE DEF wire, S
  <1>5. known = wire
    <2>1. \A e \in ToSet(wire) : e \in S
      BY <1>4 DEF ToSet
    <2>2. \A e \in S : KnownKind(e)
      BY <1>3 DEF S
    <2>3. ToSet(wire) \subseteq {e \in ToSet(wire) : KnownKind(e)}
      BY <2>1, <2>2
    <2> QED
      BY <1>4, <2>3, OnlyAll
  <1>6. MessagesFromPacket(wire) = [i \in 1..n |-> Decode(wire[i])]
    BY <1>4, <1>5 DEF MessagesFromPacket
  <1>7. \A i \in 1..n : Decode(wire[i]) = out[i]
    BY <1>1, <1>3, <1>4
  <1>8. MessagesFromPacket(wire) = [i \in 1..n |-> out[i]]
    BY <1>6, <1>7
  <1> QED
    BY <1>2, <1>8 DEF wire

\* lost_packet() takes back everything but the Instant messages.
LEMMA LostPacketReturns ==
    ASSUME NEW Data, NEW q \in QueuesOf(Data), NEW out \in Seq(MessagesOf(Data))
    PROVE  LET new == QueueLostPacket(q, Wire(out))
           IN  /\ new \in QueuesOf(Data)
               /\ new = [q EXCEPT !.rQueue = new.rQueue, !.oQueue = new.oQueue]
               /\ Queued(new) = Queued(q) \cup {m \in ToSet(out) : m.kind # "Instant"}
  <1> DEFINE Returned(kind) ==
               Reverse(Only(out, {m \in ToSet(out) : m.kind = kind}))
             new == QueueLostPacket(q, Wire(out))
             r == Returned("Reliable") \o q.rQueue
             o == Returned("Ordered") \o q.oQueue
  <1>1. new = [q EXCEPT !.rQueue = r, !.oQueue = o]
    <2>1. MessagesFromPacket(Wire(out)) = out
      BY PayloadRoundTrip
    <2> QED
      BY <2>1 DEF QueueLostPacket
  <1>2. ASSUME NEW kind \in Kinds
        PROVE  /\ Returned(kind) \in Seq(OfKind(Data, kind))
               /\ ToSet(Returned(kind)) = {m \in ToSet(out) : m.kind = kind}
    <2> DEFINE set == {m \in ToSet(out) : m.kind = kind}
               only == Only(out, set)
               S == OfKind(Data, kind)
    <2>1. only \in Seq(MessagesOf(Data)) /\ ToSet(only) = ToSet(out) \cap set
      BY OnlyFacts
    <2>2. ToSet(only) = set
      BY <2>1
    <2>3. set \subseteq S
      BY DEF ToSet, OfKind
    <2> HIDE DEF set, only, S
    <2>4. only \in Seq(S)
      <3>1. \A i \in DOMAIN only : only[i] \in S
        BY <2>2, <2>3 DEF ToSet
      <3> QED
        BY <2>1, <3>1
    <2>5. Reverse(only) \in Seq(S) /\ ToSet(Reverse(only)) = ToSet(only)
      BY <2>4, ReverseSet
    <2> QED
      BY <2>2, <2>5 DEF only, set, S
  <1>3. "Reliable" \in Kinds /\ "Ordered" \in Kinds
    BY DEF Kinds
  <1> HIDE DEF new, Returned
  <1>4. /\ q.rQueue \in Seq(OfKind(Data, "Reliable"))
        /\ q.oQueue \in Seq(OfKind(Data, "Ordered"))
    BY DEF QueuesOf
  <1>5. /\ r \in Seq(OfKind(Data, "Reliable")) /\ o \in Seq(OfKind(Data, "Ordered"))
        /\ ToSet(r) = ToSet(Returned("Reliable")) \cup ToSet(q.rQueue)
        /\ ToSet(o) = ToSet(Returned("Ordered")) \cup ToSet(q.oQueue)
    BY <1>2, <1>3, <1>4, ConcatSet
  <1> HIDE DEF r, o
  <1>6. /\ new \in QueuesOf(Data) /\ new.rQueue = r /\ new.oQueue = o
        /\ new.iQueue = q.iQueue
    BY <1>1, <1>5 DEF QueuesOf
  <1>7. \A m \in ToSet(out) : m.kind # "Instant"
                              <=> m.kind = "Reliable" \/ m.kind = "Ordered"
    <2>1. \A m \in ToSet(out) : m \in MessagesOf(Data)
      BY DEF ToSet
    <2> QED
      BY <2>1 DEF MessagesOf, Kinds
  <1>8. Queued(new) = Queued(q) \cup {m \in ToSet(out) : m.kind # "Instant"}
    BY <1>2, <1>3, <1>5, <1>6, <1>7 DEF Queued
  <1> QED
    BY <1>1, <1>6, <1>8 DEF new

\* What arrives leaves the queues of outgoing messages alone.
SameOutgoing(new, q) ==
    /\ new.localOrderId = q.localOrderId /\ new.iQueue = q.iQueue
    /\ new.rQueue = q.rQueue /\ new.oQueue = q.oQueue

\* Nor does it take away what waits for the application.
StillUnread(new, q) == q.recvQueue # <<>> => new.recvQueue # <<>>

Incomings(Data, q) ==
    {new \in QueuesOf(Data) : SameOutgoing(new, q) /\ StillUnread(new, q)}

LEMMA MaxOrderIdType == MaxOrderId \in Nat \ {0, 1}
BY MaxOrderIdAssumption

LEMMA SuccessorType ==
    ASSUME NEW id \in OrderIds
    PROVE  Successor(id, MaxOrderId) \in OrderIds
BY MaxOrderIdType DEF OrderIds, Successor

\* The gap that ends the drain exists and is what its description says.
LEMMA FirstGapExists ==
    ASSUME NEW heap, Ids(heap) \subseteq OrderIds, NEW next \in OrderIds
    PROVE  /\ FirstGap(heap, next) \in next..MaxOrderId
           /\ FirstGap(heap, next) \notin Ids(heap)
           /\ next..(FirstGap(heap, next) - 1) \subseteq Ids(heap)
<1> DEFINE T == {g \in next..MaxOrderId : g \notin Ids(heap)}
<1>1. MaxOrderId \in T
  BY MaxOrderIdType DEF OrderIds
<1>2. PICK g \in T : \A y \in T : g <= y
  <2>1. T \in SUBSET Nat /\ T # {}
    BY <1>1, MaxOrderIdType DEF OrderIds
  <2> QED BY <2>1, SetHasMin
<1>3. next..(g - 1) \subseteq Ids(heap)
  BY <1>2, MaxOrderIdType DEF OrderIds
<1> QED BY <1>2, <1>3 DEF FirstGap

LEMMA DrainTypes ==
    ASSUME NEW Data, NEW q0, NEW q \in Incomings(Data, q0)
    PROVE  DrainHeap(q) \in Incomings(Data, q0)
  <1> DEFINE next == q.remoteOrderId
             heap == q.oRecvHeap
             gap == IF \E id \in Ids(heap) : id < next
                    THEN next ELSE FirstGap(heap, next)
             Popped(n) == CHOOSE m \in heap : m.order = next + n - 1
             tail == [n \in 1..(gap - next) |-> Popped(n)]
             recv == q.recvQueue \o tail
             remote == IF gap = MaxOrderId THEN 0 ELSE gap
             rest == {m \in heap : m.order \notin next..(gap - 1)}
             d == DrainHeap(q)
             M == MessagesOf(Data)
  <1>1. /\ next \in OrderIds /\ heap \in SUBSET M /\ q.recvQueue \in Seq(M)
        /\ q \in QueuesOf(Data) /\ SameOutgoing(q, q0) /\ StillUnread(q, q0)
    BY DEF QueuesOf, Incomings
  <1>2. d = [q EXCEPT !.recvQueue = recv, !.remoteOrderId = remote,
                      !.oRecvHeap = rest]
    BY DEF DrainHeap
  <1>3. gap \in next..MaxOrderId /\ next..(gap - 1) \subseteq Ids(heap)
    <2>1. Ids(heap) \subseteq OrderIds
      BY <1>1 DEF Ids, MessagesOf
    <2>2. CASE \E id \in Ids(heap) : id < next
      BY <2>2, <1>1, MaxOrderIdType DEF OrderIds
    <2>3. CASE ~(\E id \in Ids(heap) : id < next)
      BY <2>1, <2>3, <1>1, FirstGapExists
    <2> QED
      BY <2>2, <2>3
  <1> HIDE DEF next, heap, gap, d, M
  <1>4. ASSUME NEW n \in 1..(gap - next)
        PROVE  Popped(n) \in heap
    <2>1. next + n - 1 \in next..(gap - 1)
      BY <1>1, <1>3, MaxOrderIdType DEF OrderIds
    <2>2. \E m \in heap : m.order = next + n - 1
      BY <2>1, <1>3 DEF Ids
    <2> QED
      BY <2>2
  <1> HIDE DEF Popped
  <1>5. tail \in Seq(M)
    <2>1. gap - next \in Nat
      BY <1>1, <1>3, MaxOrderIdType DEF OrderIds
    <2>2. \A n \in 1..(gap - next) : Popped(n) \in M
      BY <1>4, <1>1
    <2> QED
      BY <2>1, <2>2, IsASeq
  <1> HIDE DEF tail
  <1>6. recv \in Seq(M) /\ remote \in OrderIds /\ rest \in SUBSET M
    BY <1>1, <1>3, <1>5, MaxOrderIdType DEF OrderIds
  <1>8. q.recvQueue # <<>> => recv # <<>>
    <2> DEFINE old == q.recvQueue
    <2>1. old \in Seq(M) /\ tail \in Seq(M) /\ recv = old \o tail
      BY <1>1, <1>5
    <2> HIDE DEF old, recv
    <2>2. Len(recv) = Len(old) + Len(tail) /\ Len(old) \in Nat /\ Len(tail) \in Nat
      BY <2>1
    <2>3. old # <<>> => Len(old) # 0
      BY <2>1
    <2>4. recv = <<>> => Len(recv) = 0
      OBVIOUS
    <2> QED
      BY <2>2, <2>3, <2>4 DEF old
  <1> HIDE DEF recv, remote, rest
  <1>7. d \in QueuesOf(Data) /\ SameOutgoing(d, q) /\ StillUnread(d, q)
    BY <1>1, <1>2, <1>6, <1>8 DEF QueuesOf, SameOutgoing, StillUnread, M
  <1> QED
    BY <1>1, <1>7 DEF Incomings, SameOutgoing, StillUnread, d

LEMMA MessageTypes ==
    ASSUME NEW Data, NEW q0, NEW q \in Incomings(Data, q0),
           NEW m \in MessagesOf(Data)
    PROVE  /\ ReceiveOrderedMessage(q, m) \in Incomings(Data, q0)
           /\ [q EXCEPT !.recvQueue = Append(@, m)] \in Incomings(Data, q0)
  <1> DEFINE recv == Append(q.recvQueue, m)
             remote == Successor(q.remoteOrderId, MaxOrderId)
             heap == q.oRecvHeap \cup {m}
  <1>1. q \in QueuesOf(Data) /\ SameOutgoing(q, q0) /\ StillUnread(q, q0)
    BY DEF Incomings
  <1>2. /\ recv \in Seq(MessagesOf(Data)) /\ remote \in OrderIds
        /\ recv # <<>> /\ heap \in SUBSET MessagesOf(Data)
    <2>1. /\ q.recvQueue \in Seq(MessagesOf(Data)) /\ q.remoteOrderId \in OrderIds
          /\ q.oRecvHeap \in SUBSET MessagesOf(Data)
      BY <1>1 DEF QueuesOf
    <2> QED
      BY <2>1, SuccessorType
  <1> HIDE DEF recv, remote, heap
  <1>3. /\ [q EXCEPT !.recvQueue = recv] \in Incomings(Data, q0)
        /\ [q EXCEPT !.recvQueue = recv, !.remoteOrderId = remote]
              \in Incomings(Data, q0)
        /\ [q EXCEPT !.oRecvHeap = heap] \in Incomings(Data, q0)
    BY <1>1, <1>2 DEF QueuesOf, SameOutgoing, StillUnread, Incomings
  <1>4. DrainHeap([q EXCEPT !.recvQueue = recv, !.remoteOrderId = remote])
           \in Incomings(Data, q0)
    BY <1>3, DrainTypes
  <1>5. ReceiveOrderedMessage(q, m) \in
           {DrainHeap([q EXCEPT !.recvQueue = recv, !.remoteOrderId = remote]),
            [q EXCEPT !.oRecvHeap = heap], q}
    BY DEF ReceiveOrderedMessage, recv, remote, heap
  <1> QED
    BY <1>3, <1>4, <1>5 DEF recv

\* receive_packet() for one message, ...
Taking(q, m) ==
    IF m.kind = "Ordered" THEN ReceiveOrderedMessage(q, m)
    ELSE [q EXCEPT !.recvQueue = Append(@, m)]

\* ... and for the messages `out' of a packet, one after the other.
TakesInTurn(g, Data, q, out) ==
    /\ g \in [0..Len(out) -> Incomings(Data, q)] /\ g[0] = q
    /\ \A k \in 1..Len(out) : g[k] = Taking(g[k - 1], out[k])
    /\ QueueReceivePacket(q, Wire(out)) = g[Len(out)]

LEMMA ReceiveRuns ==
    ASSUME NEW Data, NEW q \in QueuesOf(Data), NEW out \in Seq(MessagesOf(Data))
    PROVE  \E g : TakesInTurn(g, Data, q, out)
  <1> DEFINE n == Len(out)
             V == Incomings(Data, q)
             Sum(it) == it = [T \in SUBSET (1..n) |->
                 IF T = {} THEN q ELSE Taking(it[T \ {Max(T)}], out[Max(T)])]
             sum == CHOOSE it : Sum(it)
             F == [x \in V \X (1..n) |-> Taking(x[1], out[x[2]])]
  <1>1. n \in Nat /\ DOMAIN out = 1..n /\ q \in V
    BY DEF Incomings, SameOutgoing, StillUnread
  <1>2. ASSUME NEW acc \in V, NEW i \in 1..n
        PROVE  Taking(acc, out[i]) \in V
    <2>1. out[i] \in MessagesOf(Data)
      BY <1>1
    <2> QED
      BY <2>1, MessageTypes DEF Taking
  <1>3. F \in [V \X (1..n) -> V]
    BY <1>2
  <1>4. QueueReceivePacket(q, Wire(out)) = sum[1..n]
    <2>1. MessagesFromPacket(Wire(out)) = out
      BY PayloadRoundTrip
    <2> QED
      BY <1>1, <2>1 DEF QueueReceivePacket, FoldLeft, MapThenFoldSet, Taking
  <1>5. ASSUME NEW acc \in V, NEW i \in 1..n
        PROVE  F[acc, i] = Taking(acc, out[i])
    OBVIOUS
  <1> HIDE DEF F, V
  <1>6. PICK known \in [SUBSET (1..n) -> V] : Unfolds(known, n, q, F)
    BY <1>1, <1>3, FoldExists
  <1>7. \A T \in SUBSET (1..n) :
           T # {} => Max(T) \in 1..n /\ T \ {Max(T)} \in SUBSET (1..n)
    BY <1>1, MaxOfRange
  <1>8. Sum(sum)
    <2>1. Sum(known)
      BY <1>5, <1>6, <1>7 DEF Unfolds
    <2> QED
      BY <2>1
  <1> HIDE DEF sum
  <1>9. UnfoldsIn(sum, n, V, q, F)
    BY <1>5, <1>7, <1>8 DEF UnfoldsIn
  <1>10. PICK g : Runs(g, n, V, q, F, sum)
    <2>1. F \in Steps(V, n)
      BY <1>3 DEF Steps
    <2> HIDE DEF n
    <2> QED
      BY <1>1, <1>9, <2>1, FoldRuns
  <1>11. ASSUME NEW k \in 1..n
         PROVE  g[k] = Taking(g[k - 1], out[k])
    <2>1. k - 1 \in 0..n
      BY <1>1
    <2>2. g[k] = F[g[k - 1], k] /\ g[k - 1] \in V
      BY <1>10, <2>1 DEF Runs
    <2> QED
      BY <1>5, <2>2
  <1> QED
    BY <1>4, <1>10, <1>11 DEF Runs, TakesInTurn, V

LEMMA ReceivePacketTypes ==
    ASSUME NEW Data, NEW q \in QueuesOf(Data), NEW out \in Seq(MessagesOf(Data))
    PROVE  /\ QueueReceivePacket(q, Wire(out)) \in QueuesOf(Data)
           /\ SameOutgoing(QueueReceivePacket(q, Wire(out)), q)
           /\ StillUnread(QueueReceivePacket(q, Wire(out)), q)
           /\ out = <<>> => QueueReceivePacket(q, Wire(out)) = q
  <1>1. PICK g : TakesInTurn(g, Data, q, out)
    BY ReceiveRuns
  <1>2. Len(out) \in Nat /\ (out = <<>> => Len(out) = 0)
    OBVIOUS
  <1>3. Len(out) \in 0..Len(out)
    BY <1>2
  <1> QED
    BY <1>1, <1>2, <1>3 DEF TakesInTurn, Incomings

-----------------------------------------------------------------------------
(* What the application gets of a message *)

\* Taking message m makes `new' of q and hands `more' over: m itself, or a run
\* of Ordered messages from m on that waited for it, or nothing yet.
HandsOver(new, q, m, more) ==
    /\ more \in Seq(q.oRecvHeap \cup {m})
    /\ new.recvQueue = Joined(q.recvQueue, more)
    /\ new.oRecvHeap \subseteq q.oRecvHeap \cup {m}
    /\ m.kind # "Ordered" => /\ more = <<m>> /\ new.oRecvHeap = q.oRecvHeap
                             /\ new.remoteOrderId = q.remoteOrderId

\* Below `limit' ids need not be compared across the wrap: what waits in the
\* heap is ahead of the next id, one message to an id.
WaitAhead(q, limit) ==
    /\ q.remoteOrderId <= limit
    /\ \A x \in q.oRecvHeap : x.order > q.remoteOrderId /\ x.order < limit
    /\ \A x, y \in q.oRecvHeap : x.order = y.order => x = y

\* What is handed over has the next ids.
InTurn(new, q, more, limit) ==
    /\ WaitAhead(new, limit)
    /\ new.remoteOrderId = q.remoteOrderId + Len(more)
    /\ \A i \in DOMAIN more : more[i].order = q.remoteOrderId + (i - 1)

\* The heap may hold the next id before the drain.
WaitReady(q, limit) ==
    /\ q.remoteOrderId <= limit
    /\ \A x \in q.oRecvHeap : x.order >= q.remoteOrderId /\ x.order < limit
    /\ \A x, y \in q.oRecvHeap : x.order = y.order => x = y

LEMMA DrainHandsOver ==
    ASSUME NEW Data, NEW q \in QueuesOf(Data)
    PROVE  \E more \in Seq(q.oRecvHeap) :
              /\ DrainHeap(q).recvQueue = Joined(q.recvQueue, more)
              /\ DrainHeap(q).oRecvHeap \subseteq q.oRecvHeap
              /\ \A limit \in 0..(MaxOrderId - 1) :
                    WaitReady(q, limit) => InTurn(DrainHeap(q), q, more, limit)
  <1> DEFINE next == q.remoteOrderId
             heap == q.oRecvHeap
             gap == IF \E id \in Ids(heap) : id < next
                    THEN next ELSE FirstGap(heap, next)
             Popped(n) == CHOOSE m \in heap : m.order = next + n - 1
             tail == [n \in 1..(gap - next) |-> Popped(n)]
             recv == q.recvQueue \o tail
             remote == IF gap = MaxOrderId THEN 0 ELSE gap
             rest == {m \in heap : m.order \notin next..(gap - 1)}
             d == DrainHeap(q)
             M == MessagesOf(Data)
  <1>1. next \in OrderIds /\ heap \in SUBSET M /\ q.recvQueue \in Seq(M)
    BY DEF QueuesOf
  <1>2. /\ d.recvQueue = recv /\ d.remoteOrderId = remote /\ d.oRecvHeap = rest
    <2>1. d = [q EXCEPT !.recvQueue = recv, !.remoteOrderId = remote,
                        !.oRecvHeap = rest]
      BY DEF DrainHeap
    <2> HIDE DEF d, recv, remote, rest
    <2> QED
      BY <2>1 DEF QueuesOf
  <1>3. /\ gap \in next..MaxOrderId /\ next..(gap - 1) \subseteq Ids(heap)
        /\ (\A id \in Ids(heap) : ~(id < next)) => gap \notin Ids(heap)
    <2>1. Ids(heap) \subseteq OrderIds
      BY <1>1 DEF Ids, MessagesOf
    <2>2. CASE \E id \in Ids(heap) : id < next
      BY <2>2, <1>1, MaxOrderIdType DEF OrderIds
    <2>3. CASE ~(\E id \in Ids(heap) : id < next)
      BY <2>1, <2>3, <1>1, FirstGapExists
    <2> QED
      BY <2>2, <2>3
  <1>4. /\ next \in Nat /\ gap \in Nat /\ next <= gap /\ gap - next \in Nat
        /\ MaxOrderId \in Nat
    BY <1>1, <1>3, MaxOrderIdType DEF OrderIds
  <1> HIDE DEF next, heap, gap, d, M
  <1>5. ASSUME NEW n \in 1..(gap - next)
        PROVE  Popped(n) \in heap /\ Popped(n).order = next + n - 1
    <2>1. next + n - 1 \in next..(gap - 1)
      BY <1>4
    <2>2. \E m \in heap : m.order = next + n - 1
      BY <2>1, <1>3 DEF Ids
    <2> QED
      BY <2>2
  <1> HIDE DEF Popped
  <1>6. /\ tail \in Seq(heap) /\ Len(tail) = gap - next
        /\ \A n \in 1..(gap - next) : tail[n].order = next + n - 1
    <2>1. tail \in Seq(heap)
      BY <1>4, <1>5, IsASeq
    <2> QED
      BY <1>4, <1>5, <2>1
  <1> HIDE DEF tail
  <1>7. ASSUME NEW limit \in 0..(MaxOrderId - 1), WaitReady(q, limit)
        PROVE  InTurn(d, q, tail, limit)
    <2>1. /\ next <= limit /\ limit \in Nat /\ limit < MaxOrderId
          /\ \A x \in heap : x.order >= next /\ x.order < limit
          /\ \A x, y \in heap : x.order = y.order => x = y
      BY <1>4, <1>7 DEF WaitReady, next, heap
    <2>2. \A x \in heap : x.order \in Nat
      BY <1>1, FieldTypes DEF M
    <2>3. gap <= limit
      <3> SUFFICES ASSUME gap > limit
                   PROVE  FALSE
        BY <1>4, <2>1
      <3>1. limit \in next..(gap - 1)
        BY <1>4, <2>1
      <3>2. PICK x \in heap : x.order = limit
        BY <1>3, <3>1 DEF Ids
      <3> QED
        BY <2>1, <3>2
    <2>4. remote = gap
      BY <1>4, <2>1, <2>3
    <2>5. \A x \in heap : x.order # gap
      <3>1. \A id \in Ids(heap) : ~(id < next)
        BY <1>4, <2>1, <2>2 DEF Ids
      <3> QED
        BY <1>3, <3>1 DEF Ids
    <2>6. \A x \in rest : x \in heap /\ x.order > gap
      BY <1>4, <2>1, <2>2, <2>5
    <2>7. WaitAhead(d, limit)
      <3> HIDE DEF rest, remote
      <3> QED
        BY <1>2, <2>1, <2>3, <2>4, <2>6 DEF WaitAhead
    <2>8. /\ remote = next + Len(tail) /\ DOMAIN tail = 1..(gap - next)
          /\ \A i \in DOMAIN tail : tail[i].order = next + (i - 1)
      <3>1. DOMAIN tail = 1..(gap - next)
        BY <1>6
      <3> QED
        BY <1>4, <1>6, <2>4, <3>1
    <2> HIDE DEF remote
    <2> QED
      BY <1>2, <2>7, <2>8 DEF InTurn, next
  <1>8. d.recvQueue = Joined(q.recvQueue, tail) /\ d.oRecvHeap \subseteq heap
    BY <1>2 DEF Joined
  <1> QED
    BY <1>6, <1>7, <1>8 DEF d, heap

LEMMA HandedThenDrained ==
    ASSUME NEW S, NEW s \in Seq(S), NEW m \in S, NEW more \in Seq(S)
    PROVE  /\ Joined(<<m>>, more) \in Seq(S)
           /\ Joined(Append(s, m), more) = Joined(s, Joined(<<m>>, more))
           /\ Len(Joined(<<m>>, more)) = Len(more) + 1 /\ Len(more) \in Nat
           /\ Joined(<<m>>, more)[1] = m
           /\ \A i \in 2..(Len(more) + 1) : Joined(<<m>>, more)[i] = more[i - 1]
  BY DEF Joined

\* Ids that are at most half of the id space apart compare like numbers.
LEMMA NearIdsCompare ==
    ASSUME NEW limit \in 0..(MaxOrderId \div 2), NEW next \in 0..limit,
           NEW id \in 0..limit, MoreRecent(id, next, MaxOrderId)
    PROVE  id > next
  BY MaxOrderIdType DEF MoreRecent

LEMMA TakingHandsOver ==
    ASSUME NEW Data, NEW q \in QueuesOf(Data), NEW m \in MessagesOf(Data)
    PROVE  \E more \in Seq(MessagesOf(Data)) :
              /\ HandsOver(Taking(q, m), q, m, more)
              /\ \A limit \in 0..(MaxOrderId \div 2) :
                    m.kind = "Ordered" /\ m.order < limit /\ WaitAhead(q, limit)
                    => InTurn(Taking(q, m), q, more, limit)
  <1> DEFINE M == MessagesOf(Data)
             heap == q.oRecvHeap
             next == q.remoteOrderId
             recv == Append(q.recvQueue, m)
             new == Taking(q, m)
  <1>1. /\ next \in OrderIds /\ heap \in SUBSET M /\ q.recvQueue \in Seq(M)
        /\ next \in Nat /\ m \in M /\ m.order \in Nat
        /\ \A x \in heap : x.order \in Nat
    BY FieldTypes, MaxOrderIdType DEF QueuesOf, OrderIds
  <1>2. ASSUME NEW limit \in 0..(MaxOrderId \div 2)
        PROVE  limit \in Nat /\ limit \in 0..(MaxOrderId - 1)
    BY MaxOrderIdType
  <1>3. CASE m.kind # "Ordered"
    <2>1. new = [q EXCEPT !.recvQueue = recv]
      BY <1>3 DEF Taking
    <2> HIDE DEF recv, new
    <2>2. new.recvQueue = recv /\ new.oRecvHeap = heap /\ new.remoteOrderId = next
      BY <2>1 DEF QueuesOf
    <2>3. recv = Joined(q.recvQueue, <<m>>)
      BY <1>1 DEF recv, Joined
    <2>4. <<m>> \in Seq(heap \cup {m}) /\ <<m>> \in Seq(M)
      BY <1>1
    <2> QED
      BY <1>3, <2>2, <2>3, <2>4 DEF HandsOver, new
  <1>4. CASE m.kind = "Ordered" /\ m.order = next
    <2> DEFINE remote == Successor(next, MaxOrderId)
               mid == [q EXCEPT !.recvQueue = recv, !.remoteOrderId = remote]
    <2>1. new = DrainHeap(mid)
      BY <1>4 DEF Taking, ReceiveOrderedMessage
    <2>2. recv \in Seq(M) /\ remote \in OrderIds
      BY <1>1, SuccessorType
    <2> HIDE DEF recv, remote, new
    <2>3. /\ mid \in QueuesOf(Data) /\ mid.recvQueue = recv /\ mid.oRecvHeap = heap
          /\ mid.remoteOrderId = remote
      BY <2>2 DEF QueuesOf
    <2> HIDE DEF mid
    <2>4. PICK rest \in Seq(mid.oRecvHeap) :
              /\ new.recvQueue = Joined(mid.recvQueue, rest)
              /\ new.oRecvHeap \subseteq mid.oRecvHeap
              /\ \A limit \in 0..(MaxOrderId - 1) :
                    WaitReady(mid, limit) => InTurn(new, mid, rest, limit)
      BY <2>1, <2>3, DrainHandsOver
    <2> DEFINE more == Joined(<<m>>, rest)
    <2>5. /\ rest \in Seq(heap \cup {m}) /\ rest \in Seq(M)
      BY <1>1, <2>3, <2>4, SubsetSeq
    <2>6. /\ more \in Seq(heap \cup {m}) /\ more \in Seq(M)
          /\ Joined(recv, rest) = Joined(q.recvQueue, more)
          /\ Len(more) = Len(rest) + 1 /\ Len(rest) \in Nat /\ more[1] = m
          /\ \A i \in 2..(Len(rest) + 1) : more[i] = rest[i - 1]
      <3>1. more \in Seq(heap \cup {m})
        BY <2>5, HandedThenDrained
      <3>2. /\ more \in Seq(M)
            /\ Joined(Append(q.recvQueue, m), rest) = Joined(q.recvQueue, more)
            /\ Len(more) = Len(rest) + 1 /\ Len(rest) \in Nat /\ more[1] = m
            /\ \A i \in 2..(Len(rest) + 1) : more[i] = rest[i - 1]
        BY <1>1, <2>5, HandedThenDrained
      <3> QED
        BY <3>1, <3>2 DEF recv
    <2> HIDE DEF more
    <2>7. HandsOver(new, q, m, more)
      BY <1>4, <2>3, <2>4, <2>6 DEF HandsOver, heap
    <2>8. ASSUME NEW limit \in 0..(MaxOrderId \div 2), m.order < limit,
                 WaitAhead(q, limit)
          PROVE  InTurn(new, q, more, limit)
      <3>1. /\ limit \in Nat /\ limit \in 0..(MaxOrderId - 1)
            /\ \A x \in heap : x.order > next /\ x.order < limit
            /\ \A x, y \in heap : x.order = y.order => x = y
        BY <1>2, <2>8 DEF WaitAhead, heap, next
      <3>2. remote = next + 1 /\ next + 1 <= limit
        BY <1>1, <1>4, <2>8, <3>1, MaxOrderIdType DEF remote, Successor
      <3>3. WaitReady(mid, limit)
        BY <1>1, <2>3, <3>1, <3>2 DEF WaitReady
      <3>4. /\ WaitAhead(new, limit) /\ new.remoteOrderId = remote + Len(rest)
            /\ \A i \in DOMAIN rest : rest[i].order = remote + (i - 1)
        BY <2>3, <2>4, <3>1, <3>3 DEF InTurn
      <3>5. ASSUME NEW i \in DOMAIN more
            PROVE  more[i].order = next + (i - 1)
        <4>1. i \in 1..(Len(rest) + 1) /\ i \in Nat
          BY <2>6
        <4>2. CASE i = 1
          BY <1>1, <1>4, <2>6, <4>2
        <4>3. CASE i # 1
          <5>1. i \in 2..(Len(rest) + 1) /\ i - 1 \in DOMAIN rest /\ more[i] = rest[i - 1]
            BY <2>5, <2>6, <4>1, <4>3
          <5>2. more[i].order = remote + ((i - 1) - 1)
            BY <3>4, <5>1
          <5>3. i \in Nat /\ next \in Nat /\ remote = next + 1
            BY <1>1, <3>2, <4>1
          <5> HIDE DEF next, more
          <5>4. remote + ((i - 1) - 1) = next + (i - 1)
            BY <5>3
          <5> QED
            BY <5>2, <5>4
        <4> QED
          BY <4>2, <4>3
      <3> QED
        BY <1>1, <2>6, <3>2, <3>4, <3>5 DEF InTurn, next
    <2> QED
      BY <2>6, <2>7, <2>8 DEF new
  <1>5. CASE m.kind = "Ordered" /\ m.order # next
    <2> DEFINE none == <<>>
    <2>1. /\ none \in Seq(M) /\ none \in Seq(heap \cup {m}) /\ Len(none) = 0
          /\ DOMAIN none = {} /\ Joined(q.recvQueue, none) = q.recvQueue
      BY <1>1 DEF Joined
    <2> HIDE DEF none
    <2>2. CASE MoreRecent(m.order, next, MaxOrderId) /\ m.order \notin Ids(heap)
      <3> DEFINE larger == heap \cup {m}
      <3>1. new = [q EXCEPT !.oRecvHeap = larger]
        BY <1>5, <2>2 DEF Taking, ReceiveOrderedMessage
      <3> HIDE DEF new, larger
      <3>2. /\ new.oRecvHeap = larger /\ new.recvQueue = q.recvQueue
            /\ new.remoteOrderId = next
        BY <3>1 DEF QueuesOf
      <3>3. HandsOver(new, q, m, none)
        BY <1>5, <2>1, <3>2 DEF HandsOver, larger
      <3>4. ASSUME NEW limit \in 0..(MaxOrderId \div 2), m.order < limit,
                   WaitAhead(q, limit)
            PROVE  InTurn(new, q, none, limit)
        <4>1. /\ limit \in Nat /\ next <= limit
              /\ \A x \in heap : x.order > next /\ x.order < limit
              /\ \A x, y \in heap : x.order = y.order => x = y
          BY <1>2, <3>4 DEF WaitAhead, heap, next
        <4>2. m.order > next
          <5>1. next \in 0..limit /\ m.order \in 0..limit
            BY <1>1, <3>4, <4>1
          <5> QED
            BY <2>2, <5>1, NearIdsCompare
        <4>3. \A x \in heap : x.order # m.order
          BY <2>2 DEF Ids
        <4>4. WaitAhead(new, limit)
          BY <3>2, <3>4, <4>1, <4>2, <4>3 DEF WaitAhead, larger
        <4> QED
          BY <1>1, <2>1, <3>2, <4>4 DEF InTurn, next
      <3> QED
        BY <2>1, <3>3, <3>4 DEF new
    <2>3. CASE ~(MoreRecent(m.order, next, MaxOrderId) /\ m.order \notin Ids(heap))
      <3>1. new = q
        BY <1>5, <2>3 DEF Taking, ReceiveOrderedMessage
      <3> HIDE DEF new
      <3>2. HandsOver(new, q, m, none)
        BY <1>5, <2>1, <3>1 DEF HandsOver
      <3>3. \A limit : WaitAhead(q, limit) => InTurn(new, q, none, limit)
        BY <1>1, <2>1, <3>1 DEF InTurn
      <3> QED
        BY <2>1, <3>2, <3>3 DEF new
    <2> QED
      BY <2>2, <2>3
  <1> QED
    BY <1>3, <1>4, <1>5

\* The data of a sequence of messages.
DataIn(s) == [i \in DOMAIN s |-> s[i].data]

Once(s, d) == \A i, j \in DOMAIN s : s[i] = d /\ s[j] = d => i = j

\* What the application has got, `pre', and has still to get.
Handed(pre, q) == Joined(pre, DataIn(q.recvQueue))

LEMMA OnceJoined ==
    ASSUME NEW S, NEW s \in Seq(S), NEW t \in Seq(S), NEW d
    PROVE  /\ Once(Joined(s, t), d) => Once(s, d)
           /\ Once(s, d) /\ Once(t, d) /\ (d \in ToSet(s) => d \notin ToSet(t))
              => Once(Joined(s, t), d)
  <1> DEFINE w == Joined(s, t)
  <1>1. IsJoin(w, s, t)
    BY JoinedAt
  <1> HIDE DEF w
  <1>2. ASSUME Once(w, d)
        PROVE  Once(s, d)
    BY <1>1, <1>2 DEF IsJoin, Once
  <1>3. ASSUME Once(s, d), Once(t, d), d \in ToSet(s) => d \notin ToSet(t),
               NEW i \in DOMAIN w, NEW j \in DOMAIN w, w[i] = d, w[j] = d
        PROVE  i = j
    <2>1. ASSUME NEW k \in DOMAIN w, w[k] = d
          PROVE  \/ k \in DOMAIN s /\ s[k] = d
                 \/ /\ k - Len(s) \in DOMAIN t /\ t[k - Len(s)] = d
                    /\ k \notin DOMAIN s
      BY <1>1, <2>1 DEF IsJoin
    <2>2. CASE i \in DOMAIN s /\ j \in DOMAIN s
      BY <1>1, <1>3, <2>2 DEF IsJoin, Once
    <2>3. CASE i \notin DOMAIN s /\ j \notin DOMAIN s
      <3>1. /\ i - Len(s) \in DOMAIN t /\ t[i - Len(s)] = d
            /\ j - Len(s) \in DOMAIN t /\ t[j - Len(s)] = d
        BY <1>3, <2>1, <2>3
      <3>2. i - Len(s) = j - Len(s)
        BY <1>3, <3>1 DEF Once
      <3> QED
        BY <1>1, <3>2 DEF IsJoin
    <2>4. ASSUME NEW k \in DOMAIN s, NEW l \in DOMAIN t, s[k] = d, t[l] = d
          PROVE  FALSE
      BY <1>3, <2>4 DEF ToSet
    <2> QED
      BY <1>3, <2>1, <2>2, <2>3, <2>4
  <1> QED
    BY <1>2, <1>3 DEF Once, w

LEMMA JoinedSet ==
    ASSUME NEW S, NEW s \in Seq(S), NEW t \in Seq(S)
    PROVE  ToSet(Joined(s, t)) = ToSet(s) \cup ToSet(t)
  BY ConcatSet DEF Joined

LEMMA JoinedAssoc ==
    ASSUME NEW S, NEW s \in Seq(S), NEW t \in Seq(S), NEW u \in Seq(S)
    PROVE  Joined(Joined(s, t), u) = Joined(s, Joined(t, u))
  BY DEF Joined

LEMMA DataInJoined ==
    ASSUME NEW Data, NEW s \in Seq(MessagesOf(Data)), NEW t \in Seq(MessagesOf(Data))
    PROVE  /\ DataIn(s) \in Seq(Data) /\ DataIn(t) \in Seq(Data)
           /\ DataIn(Joined(s, t)) = Joined(DataIn(s), DataIn(t))
           /\ ToSet(DataIn(s)) = {m.data : m \in ToSet(s)}
  <1> DEFINE M == MessagesOf(Data)
             w == Joined(s, t)
             x == Joined(DataIn(s), DataIn(t))
  <1>1. ASSUME NEW z \in Seq(M)
        PROVE  /\ DataIn(z) \in Seq(Data) /\ Len(DataIn(z)) = Len(z)
               /\ \A i \in 1..Len(z) : DataIn(z)[i] = z[i].data
    <2>1. \A m \in M : m.data \in Data
      BY DEF MessagesOf
    <2> HIDE DEF M
    <2> QED
      BY <2>1 DEF DataIn
  <1>2. w \in Seq(M) /\ IsJoin(w, s, t)
    BY JoinedAt
  <1> HIDE DEF M, w
  <1>3. /\ s \in Seq(M) /\ t \in Seq(M)
    BY DEF M
  <1>4. x \in Seq(Data) /\ IsJoin(x, DataIn(s), DataIn(t))
    BY <1>1, <1>3, JoinedAt
  <1> HIDE DEF x
  <1>5. Len(DataIn(w)) = Len(x)
    BY <1>1, <1>2, <1>3, <1>4 DEF IsJoin
  <1>6. ASSUME NEW i \in 1..Len(DataIn(w))
        PROVE  DataIn(w)[i] = x[i]
    <2>1. CASE i \in 1..Len(s)
      <3>1. i \in 1..Len(w) /\ w[i] = s[i]
        BY <1>2, <2>1 DEF IsJoin
      <3>2. x[i] = DataIn(s)[i]
        BY <1>1, <1>3, <1>4, <2>1 DEF IsJoin
      <3> QED
        BY <1>1, <1>2, <1>3, <2>1, <3>1, <3>2
    <2>2. CASE i \notin 1..Len(s)
      <3>1. /\ i \in (Len(s) + 1)..(Len(s) + Len(t)) /\ i - Len(s) \in 1..Len(t)
            /\ i \in 1..Len(w)
        BY <1>1, <1>2, <1>3, <2>2 DEF IsJoin
      <3>2. w[i] = t[i - Len(s)]
        BY <1>2, <3>1 DEF IsJoin
      <3>3. x[i] = DataIn(t)[i - Len(s)]
        BY <1>1, <1>3, <1>4, <3>1 DEF IsJoin
      <3> QED
        BY <1>1, <1>2, <1>3, <3>1, <3>2, <3>3
    <2> QED
      BY <2>1, <2>2
  <1>7. DataIn(w) = x
    <2> DEFINE y == DataIn(w)
    <2>1. y \in Seq(Data) /\ Len(y) = Len(x) /\ \A i \in 1..Len(y) : y[i] = x[i]
      BY <1>1, <1>2, <1>5, <1>6
    <2> HIDE DEF y
    <2>2. y = x
      BY <1>4, <2>1, SameSeq
    <2> QED
      BY <2>2 DEF y
  <1>8. ToSet(DataIn(s)) = {m.data : m \in ToSet(s)}
    BY <1>3 DEF DataIn, ToSet
  <1> QED
    BY <1>1, <1>3, <1>7, <1>8 DEF w, x

\* What `more' adds to what was handed over.
Adds(Data, pre, q, new, m, more) ==
    /\ Handed(pre, q) \in Seq(Data)
    /\ Handed(pre, new) = Joined(Handed(pre, q), DataIn(more))
    /\ DataIn(more) \in Seq(Data)
    /\ ToSet(DataIn(more)) = {x.data : x \in ToSet(more)}
    /\ ToSet(more) \subseteq q.oRecvHeap \cup {m}
    /\ ToSet(Handed(pre, new)) = ToSet(Handed(pre, q)) \cup {x.data : x \in ToSet(more)}
    /\ new.oRecvHeap \subseteq q.oRecvHeap \cup {m}
    /\ m.kind # "Ordered" => /\ more = <<m>> /\ new.oRecvHeap = q.oRecvHeap
                             /\ new.remoteOrderId = q.remoteOrderId

LEMMA HandsOverData ==
    ASSUME NEW Data, NEW q \in QueuesOf(Data), NEW new \in QueuesOf(Data),
           NEW m, NEW more \in Seq(MessagesOf(Data)), HandsOver(new, q, m, more),
           NEW pre \in Seq(Data)
    PROVE  Adds(Data, pre, q, new, m, more)
  <1> DEFINE old == DataIn(q.recvQueue)
             add == DataIn(more)
  <1>1. /\ q.recvQueue \in Seq(MessagesOf(Data))
        /\ new.recvQueue = Joined(q.recvQueue, more)
        /\ more \in Seq(q.oRecvHeap \cup {m})
    BY DEF QueuesOf, HandsOver
  <1>2. /\ old \in Seq(Data) /\ add \in Seq(Data)
        /\ DataIn(new.recvQueue) = Joined(old, add)
        /\ ToSet(add) = {x.data : x \in ToSet(more)}
    BY <1>1, DataInJoined
  <1> HIDE DEF old, add
  <1>3. Joined(pre, Joined(old, add)) = Joined(Joined(pre, old), add)
    BY <1>2, JoinedAssoc
  <1>4. Joined(pre, old) \in Seq(Data)
    BY <1>2, JoinedAt
  <1>5. ToSet(Joined(Joined(pre, old), add)) = ToSet(Joined(pre, old)) \cup ToSet(add)
    BY <1>2, <1>4, JoinedSet
  <1>6. ToSet(more) \subseteq q.oRecvHeap \cup {m}
    BY <1>1 DEF ToSet
  <1> QED
    BY <1>2, <1>3, <1>4, <1>5, <1>6 DEF Adds, HandsOver, Handed, old, add

\* The turn of message k + 1.
LEMMA OneTurn ==
    ASSUME NEW Data, NEW q \in QueuesOf(Data), NEW out \in Seq(MessagesOf(Data)),
           NEW g, TakesInTurn(g, Data, q, out), NEW k \in 0..(Len(out) - 1)
    PROVE  /\ k + 1 \in DOMAIN out /\ out[k + 1] \in MessagesOf(Data)
           /\ out[k + 1] \in ToSet(out) /\ k \in Nat
           /\ g[k] \in QueuesOf(Data) /\ g[k + 1] \in QueuesOf(Data)
           /\ g[k + 1] = Taking(g[k], out[k + 1])
  <1>1. Len(out) \in Nat /\ DOMAIN out = 1..Len(out)
    OBVIOUS
  <1>2. k \in 0..Len(out) /\ k + 1 \in 0..Len(out) /\ k + 1 \in 1..Len(out)
        /\ k \in Nat /\ (k + 1) - 1 = k
    BY <1>1
  <1>3. out[k + 1] \in MessagesOf(Data) /\ out[k + 1] \in ToSet(out)
    BY <1>1, <1>2 DEF ToSet
  <1>4. \A j \in 0..Len(out) : g[j] \in QueuesOf(Data)
    BY DEF TakesInTurn, Incomings
  <1>5. g[k + 1] = Taking(g[(k + 1) - 1], out[k + 1])
    BY <1>2 DEF TakesInTurn
  <1> QED
    BY <1>1, <1>2, <1>3, <1>4, <1>5

\* A packet hands over its own messages and what waited in the heap, and only
\* its own go into the heap.
LEMMA ReceivedData ==
    ASSUME NEW Data, NEW q \in QueuesOf(Data), NEW out \in Seq(MessagesOf(Data)),
           NEW pre \in Seq(Data)
    PROVE  LET new == QueueReceivePacket(q, Wire(out))
           IN  /\ Handed(pre, q) \in Seq(Data) /\ Handed(pre, new) \in Seq(Data)
               /\ new.oRecvHeap \subseteq
                     q.oRecvHeap \cup {m \in ToSet(out) : m.kind = "Ordered"}
               /\ ToSet(Handed(pre, new)) \subseteq
                     ToSet(Handed(pre, q))
                     \cup {m.data : m \in ToSet(out) \cup q.oRecvHeap}
  <1> DEFINE n == Len(out)
             all == ToSet(out) \cup q.oRecvHeap
             told == ToSet(Handed(pre, q))
             mayWait == q.oRecvHeap \cup {m \in ToSet(out) : m.kind = "Ordered"}
             Good(x) == /\ x.oRecvHeap \subseteq mayWait
                        /\ ToSet(Handed(pre, x)) \subseteq told \cup {m.data : m \in all}
  <1>1. PICK g : TakesInTurn(g, Data, q, out)
    BY ReceiveRuns
  <1>2. n \in Nat /\ g[0] = q /\ QueueReceivePacket(q, Wire(out)) = g[n]
    BY <1>1 DEF TakesInTurn
  <1>3. ASSUME NEW x \in QueuesOf(Data)
        PROVE  Handed(pre, x) \in Seq(Data)
    <2>1. x.recvQueue \in Seq(MessagesOf(Data))
      BY DEF QueuesOf
    <2>2. DataIn(x.recvQueue) \in Seq(Data)
      BY <2>1, DataInJoined
    <2> QED
      BY <2>2, JoinedAt DEF Handed
  <1> DEFINE T == {k \in 0..n : Good(g[k])}
  <1>4. 0 \in T
    BY <1>2
  <1>5. ASSUME NEW k \in 0..(n - 1), k \in T
        PROVE  k + 1 \in T
    <2> DEFINE m == out[k + 1]
               old == g[k]
               new == g[k + 1]
    <2>1. /\ m \in MessagesOf(Data) /\ m \in ToSet(out) /\ new = Taking(old, m)
          /\ old \in QueuesOf(Data) /\ new \in QueuesOf(Data)
      BY <1>1, OneTurn
    <2>2. PICK more \in Seq(MessagesOf(Data)) : HandsOver(new, old, m, more)
      BY <2>1, TakingHandsOver
    <2> HIDE DEF m, old, new
    <2>3. /\ ToSet(more) \subseteq old.oRecvHeap \cup {m}
          /\ ToSet(Handed(pre, new))
                = ToSet(Handed(pre, old)) \cup {x.data : x \in ToSet(more)}
          /\ new.oRecvHeap \subseteq old.oRecvHeap \cup {m}
          /\ m.kind # "Ordered" => new.oRecvHeap = old.oRecvHeap
      BY <2>1, <2>2, HandsOverData DEF Adds
    <2>4. Good(old)
      BY <1>5 DEF old
    <2>5. new.oRecvHeap \subseteq mayWait /\ old.oRecvHeap \subseteq all
      BY <2>1, <2>3, <2>4
    <2>6. Good(new)
      BY <2>1, <2>3, <2>4, <2>5
    <2> QED
      BY <1>2, <2>6 DEF new
  <1> HIDE DEF T, n
  <1>6. 0..n \subseteq T
    BY <1>2, <1>4, <1>5, SetInduction
  <1>8. n \in T
    BY <1>2, <1>6
  <1>7. g[n] \in QueuesOf(Data)
    BY <1>1, <1>2 DEF TakesInTurn, Incomings, n
  <1> QED
    BY <1>2, <1>3, <1>7, <1>8 DEF T

\* An Instant message that comes for the first time, and once in the packet,
\* is handed over once.
LEMMA ReceivedOnce ==
    ASSUME NEW Data, NEW q \in QueuesOf(Data), NEW out \in Seq(MessagesOf(Data)),
           NEW pre \in Seq(Data), NEW d,
           \A m \in ToSet(out) : m.data = d => m.kind = "Instant",
           \A m \in q.oRecvHeap : m.data # d,
           OnceEach(out), Once(Handed(pre, q), d),
           d \in ToSet(Handed(pre, q)) => \A m \in ToSet(out) : m.data # d
    PROVE  Once(Handed(pre, QueueReceivePacket(q, Wire(out))), d)
  <1> DEFINE n == Len(out)
             Good(k, x) ==
                /\ \A m \in x.oRecvHeap : m.data # d
                /\ Once(Handed(pre, x), d)
                /\ d \in ToSet(Handed(pre, x)) =>
                      \/ d \in ToSet(Handed(pre, q))
                      \/ \E i \in 1..k : out[i].data = d
  <1>1. PICK g : TakesInTurn(g, Data, q, out)
    BY ReceiveRuns
  <1>2. n \in Nat /\ g[0] = q /\ QueueReceivePacket(q, Wire(out)) = g[n]
        /\ DOMAIN out = 1..n
    BY <1>1 DEF TakesInTurn
  <1> DEFINE T == {k \in 0..n : Good(k, g[k])}
  <1>4. 0 \in T
    BY <1>2
  <1>5. ASSUME NEW k \in 0..(n - 1), k \in T
        PROVE  k + 1 \in T
    <2> DEFINE m == out[k + 1]
               old == g[k]
               new == g[k + 1]
    <2>1. /\ m \in MessagesOf(Data) /\ m \in ToSet(out) /\ new = Taking(old, m)
          /\ old \in QueuesOf(Data) /\ new \in QueuesOf(Data)
          /\ k + 1 \in DOMAIN out /\ k \in Nat
      BY <1>1, OneTurn
    <2>2. PICK more \in Seq(MessagesOf(Data)) : HandsOver(new, old, m, more)
      BY <2>1, TakingHandsOver
    <2>4. Good(k, old)
      BY <1>5
    <2>8. out[k + 1] = m
      OBVIOUS
    <2> HIDE DEF m, old, new
    <2>3. /\ Handed(pre, old) \in Seq(Data) /\ DataIn(more) \in Seq(Data)
          /\ Handed(pre, new) = Joined(Handed(pre, old), DataIn(more))
          /\ ToSet(DataIn(more)) = {x.data : x \in ToSet(more)}
          /\ ToSet(more) \subseteq old.oRecvHeap \cup {m}
          /\ ToSet(Handed(pre, new))
                = ToSet(Handed(pre, old)) \cup {x.data : x \in ToSet(more)}
          /\ new.oRecvHeap \subseteq old.oRecvHeap \cup {m}
          /\ m.kind # "Ordered" => more = <<m>> /\ new.oRecvHeap = old.oRecvHeap
      BY <2>1, <2>2, HandsOverData DEF Adds
    <2>5. CASE m.data # d
      <3>1. d \notin ToSet(DataIn(more))
        BY <2>3, <2>4, <2>5
      <3>2. Once(DataIn(more), d)
        BY <3>1 DEF Once, ToSet
      <3>3. Once(Handed(pre, new), d)
        BY <2>3, <2>4, <3>1, <3>2, OnceJoined
      <3>4. \A x \in new.oRecvHeap : x.data # d
        BY <2>3, <2>4, <2>5
      <3>5. 1..k \subseteq 1..(k + 1)
        BY <2>1
      <3>6. Good(k + 1, new)
        BY <2>3, <2>4, <3>1, <3>3, <3>4, <3>5
      <3> QED
        BY <1>2, <3>6 DEF new
    <2>6. CASE m.data = d
      <3>1. m.kind = "Instant" /\ more = <<m>> /\ new.oRecvHeap = old.oRecvHeap
        BY <2>1, <2>3, <2>6
      <3>2. Once(DataIn(more), d)
        BY <3>1 DEF DataIn, Once
      <3>3. d \notin ToSet(Handed(pre, old))
        <4> SUFFICES ASSUME d \in ToSet(Handed(pre, old))
                     PROVE  FALSE
          OBVIOUS
        <4>1. d \notin ToSet(Handed(pre, q))
          BY <2>1, <2>6
        <4>2. PICK i \in 1..k : out[i].data = d
          BY <2>4, <4>1
        <4>3. i \in DOMAIN out /\ i # k + 1
          BY <1>2, <2>1
        <4>4. out[i].kind = "Instant"
          BY <4>2, <4>3 DEF ToSet
        <4> QED
          BY <2>1, <2>6, <2>8, <3>1, <4>2, <4>3, <4>4 DEF OnceEach
      <3>4. Once(Handed(pre, new), d)
        BY <2>3, <2>4, <3>2, <3>3, OnceJoined
      <3>5. k + 1 \in 1..(k + 1)
        BY <2>1
      <3>6. Good(k + 1, new)
        BY <2>4, <2>6, <2>8, <3>1, <3>4, <3>5
      <3> QED
        BY <1>2, <3>6 DEF new
    <2> QED
      BY <2>5, <2>6
  <1> HIDE DEF T, n
  <1>6. 0..n \subseteq T
    BY <1>2, <1>4, <1>5, SetInduction
  <1>8. n \in T
    BY <1>2, <1>6
  <1> QED
    BY <1>2, <1>8 DEF T

\* Of all the copies of Ordered messages there are, only those with an id that
\* has passed were handed over, and every message once.
OrderKept(q, told, copies, all, limit) ==
    /\ WaitAhead(q, limit) /\ q.oRecvHeap \subseteq copies
    /\ \A m \in copies : m.data \in ToSet(told) => m.order < q.remoteOrderId
    /\ \A d \in all : Once(told, d)

LEMMA TakingKeepsOrder ==
    ASSUME NEW Data, NEW q \in QueuesOf(Data), NEW m \in MessagesOf(Data),
           NEW pre \in Seq(Data), NEW copies, NEW all,
           NEW limit \in 0..(MaxOrderId \div 2),
           \A x \in copies : /\ x.kind = "Ordered" /\ x.data \in all
                             /\ x.order \in Nat /\ x.order < limit,
           \A x, y \in copies : x.data = y.data <=> x.order = y.order,
           IF m.kind = "Ordered" THEN m \in copies ELSE m.data \notin all,
           OrderKept(q, Handed(pre, q), copies, all, limit),
           Taking(q, m) \in QueuesOf(Data)
    PROVE  OrderKept(Taking(q, m), Handed(pre, Taking(q, m)), copies, all, limit)
  <1> DEFINE new == Taking(q, m)
             next == q.remoteOrderId
             told == Handed(pre, q)
  <1>1. PICK more \in Seq(MessagesOf(Data)) :
           /\ HandsOver(new, q, m, more)
           /\ m.kind = "Ordered" /\ m.order < limit /\ WaitAhead(q, limit)
              => InTurn(new, q, more, limit)
    BY TakingHandsOver
  <1>2. /\ WaitAhead(q, limit) /\ q.oRecvHeap \subseteq copies
        /\ \A x \in copies : x.data \in ToSet(told) => x.order < next
        /\ \A d \in all : Once(told, d)
    BY DEF OrderKept
  <1> HIDE DEF new
  <1>3. /\ told \in Seq(Data) /\ DataIn(more) \in Seq(Data)
        /\ Handed(pre, new) = Joined(told, DataIn(more))
        /\ ToSet(DataIn(more)) = {x.data : x \in ToSet(more)}
        /\ ToSet(more) \subseteq q.oRecvHeap \cup {m}
        /\ ToSet(Handed(pre, new)) = ToSet(told) \cup {x.data : x \in ToSet(more)}
        /\ new.oRecvHeap \subseteq q.oRecvHeap \cup {m}
        /\ m.kind # "Ordered" => /\ more = <<m>> /\ new.oRecvHeap = q.oRecvHeap
                                 /\ new.remoteOrderId = next
    BY <1>1, HandsOverData DEF Adds, new
  <1>4. next \in Nat /\ new.remoteOrderId \in Nat
    BY MaxOrderIdType DEF QueuesOf, OrderIds, new
  <1> HIDE DEF told, next
  <1>5. CASE m.kind # "Ordered"
    <2>1. more = <<m>> /\ new.oRecvHeap = q.oRecvHeap /\ new.remoteOrderId = next
          /\ m.data \notin all
      BY <1>3, <1>5
    <2>2. ToSet(more) = {m}
      BY <2>1 DEF ToSet
    <2>3. \A d \in all : d \notin ToSet(DataIn(more))
      BY <1>3, <2>1, <2>2
    <2>4. \A d \in all : Once(Joined(told, DataIn(more)), d)
      <3> SUFFICES ASSUME NEW d \in all
                   PROVE  Once(Joined(told, DataIn(more)), d)
        OBVIOUS
      <3>1. Once(DataIn(more), d)
        BY <2>3 DEF Once, ToSet
      <3> QED
        BY <1>2, <1>3, <2>3, <3>1, OnceJoined
    <2>5. WaitAhead(new, limit)
      BY <1>2, <2>1 DEF WaitAhead, next
    <2>6. \A x \in copies : x.data \in ToSet(Handed(pre, new)) => x.order < next
      BY <1>2, <1>3, <2>1, <2>2
    <2> QED
      BY <1>2, <1>3, <2>1, <2>4, <2>5, <2>6 DEF OrderKept, new
  <1>6. CASE m.kind = "Ordered"
    <2>1. m \in copies /\ m.order < limit
      BY <1>6
    <2>2. /\ WaitAhead(new, limit) /\ new.remoteOrderId = next + Len(more)
          /\ \A i \in DOMAIN more : more[i].order = next + (i - 1)
      BY <1>1, <1>2, <1>6, <2>1 DEF InTurn, next
    <2>3. Len(more) \in Nat /\ DOMAIN more = 1..Len(more)
      OBVIOUS
    <2>4. \A i \in DOMAIN more : more[i] \in copies
      BY <1>2, <1>3, <2>1 DEF ToSet
    <2>5. new.oRecvHeap \subseteq copies
      BY <1>2, <1>3, <2>1
    <2>6. \A x \in copies : x.data \in ToSet(Handed(pre, new))
                            => x.order < new.remoteOrderId
      <3> SUFFICES ASSUME NEW x \in copies, x.data \in ToSet(Handed(pre, new))
                   PROVE  x.order < new.remoteOrderId
        OBVIOUS
      <3>1. x.order \in Nat
        OBVIOUS
      <3>2. CASE x.data \in ToSet(told)
        BY <1>2, <1>4, <2>2, <2>3, <3>1, <3>2
      <3>3. CASE x.data \in {y.data : y \in ToSet(more)}
        <4>1. PICK i \in DOMAIN more : x.data = more[i].data
          BY <3>3 DEF ToSet
        <4>2. x.order = next + (i - 1)
          BY <2>2, <2>4, <4>1
        <4> QED
          BY <1>4, <2>2, <2>3, <4>2
      <3> QED
        BY <1>3, <3>2, <3>3
    <2>7. \A d \in all : Once(Joined(told, DataIn(more)), d)
      <3> SUFFICES ASSUME NEW d \in all
                   PROVE  Once(Joined(told, DataIn(more)), d)
        OBVIOUS
      <3>1. Once(DataIn(more), d)
        <4> SUFFICES ASSUME NEW i \in DOMAIN more, NEW j \in DOMAIN more,
                            more[i].data = d, more[j].data = d
                     PROVE  i = j
          BY DEF Once, DataIn
        <4>1. more[i].order = more[j].order
          BY <2>4
        <4> QED
          BY <1>4, <2>2, <2>3, <4>1
      <3>2. d \in ToSet(told) => d \notin ToSet(DataIn(more))
        <4> SUFFICES ASSUME d \in ToSet(told), d \in ToSet(DataIn(more))
                     PROVE  FALSE
          OBVIOUS
        <4>1. PICK i \in DOMAIN more : d = more[i].data
          <5>1. PICK y \in ToSet(more) : d = y.data
            BY <1>3
          <5> QED
            BY <5>1 DEF ToSet
        <4>2. more[i] \in copies /\ more[i].order < next
          BY <1>2, <2>4, <4>1
        <4> QED
          BY <1>4, <2>2, <2>3, <4>2
      <3> QED
        BY <1>2, <1>3, <3>1, <3>2, OnceJoined
    <2> QED
      BY <1>3, <2>2, <2>5, <2>6, <2>7 DEF OrderKept, new
  <1> QED
    BY <1>5, <1>6

LEMMA ReceivedInTurn ==
    ASSUME NEW Data, NEW q \in QueuesOf(Data), NEW out \in Seq(MessagesOf(Data)),
           NEW pre \in Seq(Data), NEW copies, NEW all,
           NEW limit \in 0..(MaxOrderId \div 2),
           \A x \in copies : /\ x.kind = "Ordered" /\ x.data \in all
                             /\ x.order \in Nat /\ x.order < limit,
           \A x, y \in copies : x.data = y.data <=> x.order = y.order,
           \A m \in ToSet(out) :
              IF m.kind = "Ordered" THEN m \in copies ELSE m.data \notin all,
           OrderKept(q, Handed(pre, q), copies, all, limit)
    PROVE  LET new == QueueReceivePacket(q, Wire(out))
           IN  OrderKept(new, Handed(pre, new), copies, all, limit)
  <1> DEFINE n == Len(out)
  <1>1. PICK g : TakesInTurn(g, Data, q, out)
    BY ReceiveRuns
  <1>2. n \in Nat /\ g[0] = q /\ QueueReceivePacket(q, Wire(out)) = g[n]
    BY <1>1 DEF TakesInTurn
  <1> DEFINE T == {k \in 0..n : OrderKept(g[k], Handed(pre, g[k]), copies, all, limit)}
  <1>3. 0 \in T
    BY <1>2
  <1>4. ASSUME NEW k \in 0..(n - 1), k \in T
        PROVE  k + 1 \in T
    <2> DEFINE m == out[k + 1]
               old == g[k]
               new == g[k + 1]
    <2>1. /\ m \in MessagesOf(Data) /\ m \in ToSet(out) /\ new = Taking(old, m)
          /\ old \in QueuesOf(Data) /\ new \in QueuesOf(Data) /\ k \in Nat
      BY <1>1, OneTurn
    <2>2. OrderKept(old, Handed(pre, old), copies, all, limit)
      BY <1>4
    <2>3. IF m.kind = "Ordered" THEN m \in copies ELSE m.data \notin all
      BY <2>1
    <2> HIDE DEF m, old, new
    <2>4. OrderKept(new, Handed(pre, new), copies, all, limit)
      BY <2>1, <2>2, <2>3, TakingKeepsOrder
    <2> QED
      BY <1>2, <2>1, <2>4 DEF new
  <1> HIDE DEF T, n
  <1>6. 0..n \subseteq T
    BY <1>2, <1>3, <1>4, SetInduction
  <1>5. n \in T
    BY <1>2, <1>6
  <1> QED
    BY <1>2, <1>5 DEF T

-----------------------------------------------------------------------------
(* The calls of the application *)

\* send()
LEMMA SendQueues ==
    ASSUME NEW Data, NEW q \in QueuesOf(Data), NEW kind \in Kinds,
           NEW data \in Data, NEW len \in Nat
    PROVE  LET new == QueueSend(q, kind, data, len)
           IN  /\ new \in QueuesOf(Data) /\ new.recvQueue = q.recvQueue
               /\ new.oRecvHeap = q.oRecvHeap
               /\ new.remoteOrderId = q.remoteOrderId
               /\ new.localOrderId = IF kind = "Ordered"
                                     THEN Successor(q.localOrderId, MaxOrderId)
                                     ELSE q.localOrderId
               /\ \E m \in MessagesOf(Data) :
                     /\ m.kind = kind /\ m.data = data
                     /\ m.order = q.localOrderId
                     /\ Queued(new) = Queued(q) \cup {m}
                     /\ new.iQueue = IF kind = "Instant" THEN Append(q.iQueue, m)
                                     ELSE q.iQueue
  <1> DEFINE m == [kind |-> kind, order |-> q.localOrderId,
                   size |-> len % 65536, data |-> data]
             new == QueueSend(q, kind, data, len)
  <1>1. m \in OfKind(Data, kind) /\ m.kind = kind /\ m.data = data
        /\ m.order = q.localOrderId
    <2>1. len % 65536 \in Sizes
      BY DEF Sizes
    <2>2. q.localOrderId \in OrderIds
      BY DEF QueuesOf
    <2> QED
      BY <2>1, <2>2 DEF OfKind, MessagesOf
  <1>2. /\ q.iQueue \in Seq(OfKind(Data, "Instant"))
        /\ q.rQueue \in Seq(OfKind(Data, "Reliable"))
        /\ q.oQueue \in Seq(OfKind(Data, "Ordered"))
        /\ Successor(q.localOrderId, MaxOrderId) \in OrderIds
    BY SuccessorType DEF QueuesOf
  <1>3. CASE kind = "Instant"
    <2> DEFINE longer == Append(q.iQueue, m)
    <2>1. new = [q EXCEPT !.iQueue = longer]
      BY <1>3 DEF QueueSend
    <2> HIDE DEF new, m
    <2>2. /\ longer \in Seq(OfKind(Data, "Instant"))
          /\ ToSet(longer) = ToSet(q.iQueue) \cup {m}
      BY <1>1, <1>2, <1>3, AppendSet
    <2> HIDE DEF longer
    <2>3. /\ new \in QueuesOf(Data) /\ new.recvQueue = q.recvQueue
          /\ new.oRecvHeap = q.oRecvHeap /\ new.remoteOrderId = q.remoteOrderId
          /\ new.localOrderId = q.localOrderId
          /\ new.iQueue = longer /\ new.rQueue = q.rQueue /\ new.oQueue = q.oQueue
      BY <2>1, <2>2 DEF QueuesOf
    <2>4. Queued(new) = Queued(q) \cup {m}
      BY <2>2, <2>3 DEF Queued
    <2> QED
      BY <1>1, <1>3, <2>3, <2>4 DEF OfKind, new, longer
  <1>4. CASE kind = "Reliable"
    <2> DEFINE longer == Append(q.rQueue, m)
    <2>1. new = [q EXCEPT !.rQueue = longer]
      BY <1>4 DEF QueueSend
    <2> HIDE DEF new, m
    <2>2. /\ longer \in Seq(OfKind(Data, "Reliable"))
          /\ ToSet(longer) = ToSet(q.rQueue) \cup {m}
      BY <1>1, <1>2, <1>4, AppendSet
    <2> HIDE DEF longer
    <2>3. /\ new \in QueuesOf(Data) /\ new.recvQueue = q.recvQueue
          /\ new.oRecvHeap = q.oRecvHeap /\ new.remoteOrderId = q.remoteOrderId
          /\ new.localOrderId = q.localOrderId
          /\ new.rQueue = longer /\ new.iQueue = q.iQueue /\ new.oQueue = q.oQueue
      BY <2>1, <2>2 DEF QueuesOf
    <2>4. Queued(new) = Queued(q) \cup {m}
      BY <2>2, <2>3 DEF Queued
    <2> QED
      BY <1>1, <1>4, <2>3, <2>4 DEF OfKind, new
  <1>5. CASE kind = "Ordered"
    <2> DEFINE longer == Append(q.oQueue, m)
               id == Successor(q.localOrderId, MaxOrderId)
    <2>1. new = [q EXCEPT !.oQueue = longer, !.localOrderId = id]
      BY <1>5 DEF QueueSend
    <2> HIDE DEF new, m
    <2>2. /\ longer \in Seq(OfKind(Data, "Ordered"))
          /\ ToSet(longer) = ToSet(q.oQueue) \cup {m}
      BY <1>1, <1>2, <1>5, AppendSet
    <2>3. id \in OrderIds
      BY <1>2
    <2> HIDE DEF longer, id
    <2>4. /\ new \in QueuesOf(Data) /\ new.recvQueue = q.recvQueue
          /\ new.oRecvHeap = q.oRecvHeap /\ new.remoteOrderId = q.remoteOrderId
          /\ new.localOrderId = id
          /\ new.oQueue = longer /\ new.iQueue = q.iQueue /\ new.rQueue = q.rQueue
      BY <2>1, <2>2, <2>3 DEF QueuesOf
    <2>5. Queued(new) = Queued(q) \cup {m}
      BY <2>2, <2>4 DEF Queued
    <2> QED
      BY <1>1, <1>5, <2>4, <2>5 DEF OfKind, new, id
  <1> QED
    BY <1>3, <1>4, <1>5 DEF Kinds

\* received() and dismiss()
LEMMA DismissEmpties ==
    ASSUME NEW Data, NEW q, QueueDismiss(q) \in QueuesOf(Data)
    PROVE  QueueDismiss(q).recvQueue = <<>>
  <1> DEFINE none == <<>>
             new == QueueDismiss(q)
  <1>1. new = [q EXCEPT !.recvQueue = none]
    BY DEF QueueDismiss
  <1> HIDE DEF none, new
  <1>2. new.recvQueue \in Seq(MessagesOf(Data)) /\ "recvQueue" \in DOMAIN new
    BY DEF QueuesOf, new
  <1>3. "recvQueue" \in DOMAIN q
    BY <1>1, <1>2
  <1>4. new.recvQueue = none
    BY <1>1, <1>3
  <1> QED
    BY <1>4 DEF none, new

=============================================================================
