---------------------------- MODULE WriterProofs ----------------------------
(***************************************************************************)
(* Proofs about Writer, for documents, buffers and windows of every size   *)
(* and with any failures: the type invariant, that the byte count keeps    *)
(* running, that no store passes the buffer while nothing has failed, and  *)
(* that a call which is over has told the truth and leaked nothing.        *)
(***************************************************************************)
EXTENDS Writer, TLAPS

\* What the lemmas about the primitives need of a state inside a call.
Context ==
  /\ route \in Routes
  /\ doc \in [total : Totals, unser : BOOLEAN]
  /\ host \in HostCaps

\* The numbers of a call.
LEMMA Sizes ==
  ASSUME Context
  PROVE  /\ Watermark \in Nat /\ Watermark > 0 /\ Window = 2 * Watermark
         /\ doc.total \in Nat /\ host \in Nat /\ doc.total + Window < Wrap /\ Wrap \in Nat
<1>1. Watermark \in Nat /\ Watermark > 0
  BY WatermarkAssumption
<1>2. doc.total \in Totals /\ host \in HostCaps
  BY DEF Context
<1>3. doc.total \in Nat /\ host \in Nat
  BY <1>2, TotalsAssumption, HostCapsAssumption
<1>4. doc.total + Window < Wrap /\ Wrap \in Nat
  BY <1>2, WrapAssumption
<1>. QED BY <1>1, <1>3, <1>4 DEF Window

\* A store moves len and the ends, and nothing the routes rely on.
LEMMA StoreFacts ==
  ASSUME NEW x \in WriterType, NEW n \in Nat
  PROVE  LET y == Store(x, n)
         IN /\ y \in WriterType
            /\ y.len = x.len + n /\ y.cap = x.cap /\ y.reserve = x.reserve
            /\ y.flushed = x.flushed /\ y.oom = x.oom /\ y.aborted = x.aborted
            /\ y.extent = x.extent /\ y.lost = x.lost
            /\ x.len + n <= x.extent => y.past = x.past
<1>1. CASE n = 0
  BY <1>1 DEF Store, WriterType
<1>2. CASE n # 0
  <2>. DEFINE m == Most(x.top, x.len + n)
              p == IF x.len + n > x.extent THEN 1 ELSE x.past
  <2>1. x.len + n \in Nat /\ m \in Nat /\ p \in {0, 1} /\ (x.len + n <= x.extent => p = x.past)
    BY DEF Most, WriterType
  <2>2. Store(x, n) = [[x EXCEPT !.top = m, !.past = p] EXCEPT !.len = x.len + n]
    BY <1>2 DEF Store, Touch, Count, WriterType
  <2>. HIDE DEF m, p
  <2>. QED BY <2>1, <2>2 DEF WriterType
<1>. QED BY <1>1, <1>2

\* One call of the sink: the bytes stay counted.
LEMMA SinkFacts ==
  ASSUME NEW x \in WriterType, NEW takes \in BOOLEAN
  PROVE  LET y == CallSink(x, takes)
         IN /\ y \in WriterType
            /\ y.flushed + y.len = x.flushed + x.len
            /\ y.len <= x.len
            /\ y.aborted = 0 => y.len = 0 /\ x.aborted = 0
            /\ y.cap = x.cap /\ y.reserve = x.reserve /\ y.oom = x.oom
            /\ y.extent = x.extent /\ y.lost = x.lost /\ y.past = x.past
<1>1. CASE takes
  <2>. DEFINE a == x.flushed + x.len
              b == x.taken + x.len
  <2>1. CallSink(x, takes) = [x EXCEPT !.flushed = a, !.taken = b, !.len = 0]
    BY <1>1 DEF CallSink
  <2>2. a \in Nat /\ b \in Nat
    BY DEF WriterType
  <2>3. x.len \in Nat /\ a = x.flushed + x.len
    BY DEF WriterType
  <2>. HIDE DEF a, b
  <2>. DEFINE t == [x EXCEPT !.flushed = a, !.taken = b]
  <2>5. t \in WriterType
    BY <2>2 DEF WriterType
  <2>6. CallSink(x, takes) = [t EXCEPT !.len = 0]
    BY <2>1 DEF WriterType
  <2>. HIDE DEF t
  <2>4. CallSink(x, takes) \in WriterType
    BY <2>5, <2>6 DEF WriterType
  <2>. QED BY <2>1, <2>2, <2>3, <2>4 DEF WriterType
<1>2. CASE ~takes
  <2>1. CallSink(x, takes) = [x EXCEPT !.aborted = 1]
    BY <1>2 DEF CallSink
  <2>. QED BY <2>1 DEF WriterType
<1>. QED BY <1>1, <1>2

\* A flush at the mark keeps a writer sound, and leaves len below the mark
\* unless the sink refuses.
LEMMA FlushSound ==
  ASSUME Context, NEW x \in WriterType, NEW k \in Nat, NEW takes \in BOOLEAN, Sound(x, k)
  PROVE  LET y == wr_maybe_flush(x, takes)
         IN /\ y \in WriterType
            /\ Sound(y, k)
            /\ y.len <= x.len /\ y.reserve = x.reserve
            /\ route # "stream" => y = x
            /\ (route = "stream" /\ y.aborted = 0) => y.len < Watermark /\ x.aborted = 0
<1>1. CASE ~Sink \/ x.len < Watermark
  BY <1>1, Sizes DEF wr_maybe_flush, Sink, WriterType
<1>2. CASE Sink /\ x.len >= Watermark
  <2>. DEFINE y == CallSink(x, takes)
  <2>1. wr_maybe_flush(x, takes) = y
    BY <1>2, Sizes DEF wr_maybe_flush, WriterType
  <2>. QED BY <1>2, <2>1, Sizes, SinkFacts DEF Sink, WriterType, Sound, Hurt
<1>. QED BY <1>1, <1>2, Sizes DEF WriterType

\* realloc moves the size of the buffer only, or marks the failure.
LEMMA GrowFacts ==
  ASSUME NEW x \in WriterType, NEW need \in Nat, NEW got \in BOOLEAN
  PROVE  LET y == wr_grow(x, need, got)
         IN /\ y \in WriterType
            /\ y.len = x.len /\ y.reserve = x.reserve /\ y.flushed = x.flushed
            /\ y.aborted = x.aborted /\ y.past = x.past
            /\ y.lost = 0 => x.lost = 0
            /\ (x.oom = 0 /\ y.lost = 0) => y.oom = 0
            /\ (x.oom = 0 /\ y.oom = 0) => y.cap = y.extent /\ x.len + need + 1 <= y.cap
<1>1. CASE x.oom = 1
  BY <1>1 DEF wr_grow, WriterType
<1>2. CASE x.oom = 0 /\ ~got
  <2>1. wr_grow(x, need, got) = [x EXCEPT !.oom = 1, !.lost = 1]
    BY <1>2 DEF wr_grow
  <2>2. wr_grow(x, need, got) \in WriterType
    BY <2>1 DEF WriterType
  <2>3. wr_grow(x, need, got).oom = 1 /\ wr_grow(x, need, got).lost = 1
    BY <2>1 DEF WriterType
  <2>. QED BY <2>1, <2>2, <2>3 DEF WriterType
<1>3. CASE x.oom = 0 /\ got
  <2>. DEFINE want == Most(x.len + need + 1, 2 * x.cap)
  <2>1. wr_grow(x, need, got) = [x EXCEPT !.cap = want, !.extent = want]
    BY <1>3 DEF wr_grow
  <2>2. want \in Nat /\ x.len + need + 1 <= want
    BY DEF Most, WriterType
  <2>. HIDE DEF want
  <2>3. wr_grow(x, need, got) \in WriterType
    BY <2>1, <2>2 DEF WriterType
  <2>4. wr_grow(x, need, got).cap = want /\ wr_grow(x, need, got).extent = want
    BY <2>1 DEF WriterType
  <2>. QED BY <1>3, <2>1, <2>2, <2>3, <2>4 DEF WriterType
<1>. QED BY <1>1, <1>2, <1>3 DEF WriterType

\* The refill keeps a writer sound and, unless something failed, provides
\* what was asked for.
LEMMA ReserveSound ==
  ASSUME Context, NEW x \in WriterType, NEW k \in Nat, NEW need \in Nat,
         NEW takes \in BOOLEAN, NEW got \in BOOLEAN, Sound(x, k)
  PROVE  LET y == wr_reserve(x, need, takes, got)
         IN /\ y \in WriterType
            /\ Sound(y, k)
            /\ y.len <= x.len
            /\ (route = "grow" /\ y.lost = 0) => need <= y.reserve
            /\ (route = "stream" /\ y.aborted = 0) => y.len < Watermark /\ x.aborted = 0
<1>. DEFINE y == wr_maybe_flush(x, takes)
            r == wr_reserve(x, need, takes, got)
<1>1. /\ y \in WriterType /\ Sound(y, k) /\ y.len <= x.len
      /\ route # "stream" => y = x
      /\ (route = "stream" /\ y.aborted = 0) => y.len < Watermark /\ x.aborted = 0
  BY FlushSound
<1>. HIDE DEF y
<1>2. CASE route # "grow"
  <2>1. r = [y EXCEPT !.reserve = 0]
    BY <1>2 DEF wr_reserve, Grow, Bounded, y
  <2>. HIDE DEF r
  <2>2. r \in WriterType
    BY <1>1, <2>1 DEF WriterType
  <2>3. Sound(r, k)
    BY <1>1, <1>2, <2>1, <2>2 DEF WriterType, Sound, Hurt
  <2>. QED BY <1>1, <1>2, <2>1, <2>2, <2>3 DEF r, WriterType
<1>3. CASE route = "grow"
  <2>. DEFINE z == IF y.len + need + 1 > y.cap THEN wr_grow(y, need, got) ELSE y
  <2>1. r = IF y.oom = 1 THEN y ELSE IF z.oom = 1 THEN z
            ELSE [z EXCEPT !.reserve = Minus1(z.cap, z.len)]
    BY <1>3 DEF wr_reserve, Grow, Bounded, y
  <2>2. /\ z \in WriterType /\ z.len = y.len /\ z.flushed = y.flushed
        /\ z.aborted = y.aborted /\ z.past = y.past
        /\ z.lost = 0 => y.lost = 0
        /\ (y.oom = 0 /\ z.lost = 0) => z.oom = 0 /\ z.cap = z.extent
        /\ (y.oom = 0 /\ z.oom = 0) => z.len + need + 1 <= z.cap
    <3>1. CASE y.len + need + 1 > y.cap
      BY <1>1, <3>1, GrowFacts
    <3>2. CASE y.len + need + 1 <= y.cap
      <4>1. z = y
        BY <1>1, <3>2 DEF WriterType
      <4>. QED BY <1>1, <1>3, <3>2, <4>1 DEF WriterType, Sound
    <3>. QED BY <1>1, <3>1, <3>2 DEF WriterType
  <2>. HIDE DEF z, r
  <2>3. CASE y.oom = 1
    <3>1. r = y /\ y.lost = 1
      BY <1>1, <1>3, <2>1, <2>3 DEF WriterType, Sound
    <3>. QED BY <1>1, <1>3, <3>1 DEF r
  <2>4. CASE y.oom = 0 /\ z.oom = 1
    <3>1. r = z /\ z.lost = 1
      BY <1>1, <2>1, <2>2, <2>4 DEF WriterType
    <3>2. Sound(r, k)
      BY <1>1, <1>3, <2>2, <3>1 DEF Sound, Hurt
    <3>. QED BY <1>1, <1>3, <2>2, <3>1, <3>2 DEF r
  <2>5. CASE y.oom = 0 /\ z.oom = 0
    <3>. DEFINE m == z.cap - z.len - 1
    <3>1. r = [z EXCEPT !.reserve = m] /\ m \in Nat /\ need <= m /\ z.len + m + 1 <= z.cap
      BY <2>1, <2>2, <2>5 DEF WriterType, Minus1
    <3>. HIDE DEF m
    <3>2. r \in WriterType /\ r.reserve = m
      BY <2>2, <3>1 DEF WriterType
    <3>3. Sound(r, k)
      BY <1>1, <1>3, <2>2, <2>5, <3>1, <3>2 DEF WriterType, Sound, Hurt
    <3>. QED BY <1>1, <1>3, <2>2, <3>1, <3>2, <3>3 DEF r, WriterType
  <2>. QED BY <1>1, <2>2, <2>3, <2>4, <2>5 DEF WriterType
<1>. QED BY <1>2, <1>3

\* Spending n of the reservation.
Spent(x, n) == [x EXCEPT !.reserve = IF n <= @ THEN @ - n ELSE 0]

\* n bytes of the k still to come are stored where a sound writer has room
\* for them: the writer stays sound.
LEMMA SpendSound ==
  ASSUME Context, NEW x \in WriterType, NEW k \in Nat, NEW n \in 1 .. k, Sound(x, k),
         (route = "grow" /\ x.lost = 0) => x.len + n + 1 <= x.cap,
         (route = "stream" /\ x.aborted = 0) => x.len + n + 1 <= x.cap
  PROVE  LET y == Store(Spent(x, n), n) IN y \in WriterType /\ Sound(y, k - n)
<1>. DEFINE m == IF n <= x.reserve THEN x.reserve - n ELSE 0
            s == Spent(x, n)
            y == Store(s, n)
<1>1. m \in Nat /\ m <= x.reserve /\ (n <= x.reserve => m = x.reserve - n) /\ (n > x.reserve => m = 0)
  BY DEF WriterType
<1>2. s = [x EXCEPT !.reserve = m]
  BY DEF Spent
<1>. HIDE DEF m, s
<1>3. s \in WriterType /\ s.reserve = m
  BY <1>1, <1>2 DEF WriterType
<1>4. /\ y \in WriterType
      /\ y.len = x.len + n /\ y.cap = x.cap /\ y.reserve = m
      /\ y.flushed = x.flushed /\ y.oom = x.oom /\ y.aborted = x.aborted
      /\ y.extent = x.extent /\ y.lost = x.lost
      /\ x.len + n <= x.extent => y.past = x.past
  BY <1>2, <1>3, StoreFacts DEF WriterType
<1>. HIDE DEF y
<1>5. Hurt(x) \/ (x.len + n <= x.extent)
  BY Sizes DEF Sound, Hurt, WriterType, Context, Routes
<1>6. Sound(y, k - n)
  BY <1>1, <1>4, <1>5, Sizes DEF Sound, Hurt, WriterType
<1>. QED BY <1>4, <1>6 DEF y, s

\* A write that is only counted.
LEMMA CountSound ==
  ASSUME Context, NEW x \in WriterType, NEW k \in Nat, NEW n \in 0 .. k, Sound(x, k),
         route = "grow" => x.lost = 1,
         route = "stream" => x.aborted = 1
  PROVE  Count(x, n) \in WriterType /\ Sound(Count(x, n), k - n)
<1>1. Count(x, n) = [x EXCEPT !.len = x.len + n] /\ x.len + n \in Nat
  BY DEF Count, WriterType
<1>2. Count(x, n) \in WriterType
  BY <1>1 DEF WriterType
<1>. QED BY <1>1, <1>2, Sizes DEF Sound, Hurt, WriterType

\* wr_put, when the window holds the bytes or there is one.
LEMMA PutSound ==
  ASSUME Context, NEW x \in WriterType, NEW k \in Nat, NEW n \in 1 .. k,
         NEW takes \in BOOLEAN, NEW got \in BOOLEAN, Sound(x, k),
         n = 1 \/ ~Cut(x, n)
  PROVE  wr_put(x, n, takes, got) \in WriterType /\ Sound(wr_put(x, n, takes, got), k - n)
<1>. DEFINE y == IF x.reserve < n THEN wr_reserve(x, n, takes, got) ELSE x
<1>1. wr_put(x, n, takes, got) = IF x.reserve < n /\ y.oom = 1 THEN Count(y, n) ELSE Store(Spent(y, n), n)
  BY DEF wr_put, Spent
<1>2. /\ y \in WriterType /\ Sound(y, k) /\ y.len <= x.len
      /\ (route = "grow" /\ y.lost = 0) => n <= y.reserve
      /\ (route = "stream" /\ y.aborted = 0) => y.len < Watermark /\ x.aborted = 0
  <2>1. CASE x.reserve < n
    BY <2>1, ReserveSound
  <2>2. CASE x.reserve >= n
    BY <2>2 DEF WriterType, Sound
  <2>. QED BY <2>1, <2>2 DEF WriterType
<1>. HIDE DEF y
<1>4. (route = "grow" /\ y.lost = 0) => y.len + n + 1 <= y.cap
  BY <1>2 DEF Sound, WriterType
<1>5. (route = "stream" /\ y.aborted = 0) => y.len + n + 1 <= y.cap
  BY <1>2, Sizes DEF Sound, WriterType, Cut, Minus1, Sink
<1>6. CASE y.oom = 0 \/ x.reserve >= n
  <2>1. wr_put(x, n, takes, got) = Store(Spent(y, n), n)
    BY <1>1, <1>6 DEF WriterType
  <2>. QED BY <1>2, <1>4, <1>5, <1>6, <2>1, SpendSound
<1>7. CASE y.oom = 1 /\ x.reserve < n
  <2>1. wr_put(x, n, takes, got) = Count(y, n)
    BY <1>1, <1>7
  <2>2. (route = "grow" => y.lost = 1) /\ route # "stream"
    BY <1>2, <1>7 DEF Sound, WriterType
  <2>. QED BY <1>2, <2>1, <2>2, CountSound
<1>. QED BY <1>2, <1>6, <1>7 DEF WriterType

\* wr_byte is wr_put of one byte.
LEMMA ByteIsPut ==
  ASSUME NEW x \in WriterType, NEW takes \in BOOLEAN, NEW got \in BOOLEAN,
         wr_reserve(x, 1, takes, got) \in WriterType
  PROVE  wr_byte(x, takes, got) = wr_put(x, 1, takes, got)
<1>. DEFINE y == IF x.reserve = 0 THEN wr_reserve(x, 1, takes, got) ELSE x
<1>1. (x.reserve = 0) <=> (x.reserve < 1)
  BY DEF WriterType
<1>2. y = IF x.reserve < 1 THEN wr_reserve(x, 1, takes, got) ELSE x
  BY <1>1
<1>3. y.reserve \in Nat
  BY DEF WriterType
<1>4. wr_put(x, 1, takes, got) = IF x.reserve < 1 /\ y.oom = 1 THEN Count(y, 1)
                                ELSE Store([y EXCEPT !.reserve = IF 1 <= y.reserve THEN y.reserve - 1 ELSE 0], 1)
  BY <1>2 DEF wr_put
<1>5. wr_byte(x, takes, got) = IF x.reserve = 0 /\ y.oom = 1 THEN Count(y, 1)
                              ELSE Store([y EXCEPT !.reserve = IF y.reserve > 0 THEN y.reserve - 1 ELSE 0], 1)
  BY DEF wr_byte
<1>. HIDE DEF y
<1>6. (IF 1 <= y.reserve THEN y.reserve - 1 ELSE 0) = (IF y.reserve > 0 THEN y.reserve - 1 ELSE 0)
  BY <1>3
<1>. QED BY <1>1, <1>4, <1>5, <1>6

\* The fused member, when it is not declined.
LEMMA FusedSound ==
  ASSUME Context, NEW x \in WriterType, NEW k \in Nat, NEW n \in 2 .. k,
         NEW takes \in BOOLEAN, NEW got \in BOOLEAN, Sound(x, k), ~Declined(x, n)
  PROVE  Fused(x, n, takes, got) \in WriterType /\ Sound(Fused(x, n, takes, got), k - n)
<1>. DEFINE y == IF ~Grow \/ x.len + n + 1 <= x.cap THEN x
                 ELSE IF Bounded THEN [x EXCEPT !.oom = 1]
                 ELSE wr_grow(x, n, got)
<1>1. Fused(x, n, takes, got) = IF y.oom = 1 THEN Count(y, n)
                               ELSE wr_maybe_flush(Store(Spent(y, n), n), takes)
  BY DEF Fused, Spent
<1>2. /\ y \in WriterType /\ Sound(y, k)
      /\ (route = "grow" /\ y.lost = 0) => y.oom = 0 /\ y.len + n + 1 <= y.cap
      /\ (route = "stream" /\ y.aborted = 0) => y.len + n + 1 <= y.cap
      /\ route = "stream" => y.oom = 0
  <2>1. CASE ~Grow \/ x.len + n + 1 <= x.cap
    <3>1. y = x
      BY <2>1
    <3>. HIDE DEF y
    <3>. QED BY <2>1, <3>1, Sizes DEF Grow, Declined, Sound, WriterType
  <2>2. CASE Grow /\ ~(x.len + n + 1 <= x.cap) /\ Bounded
    <3>1. y = [x EXCEPT !.oom = 1]
      BY <2>2
    <3>. HIDE DEF y
    <3>2. y \in WriterType
      BY <3>1 DEF WriterType
    <3>. QED BY <2>2, <3>1, <3>2 DEF Bounded, Sound, Hurt, WriterType
  <2>3. CASE Grow /\ ~(x.len + n + 1 <= x.cap) /\ ~Bounded
    <3>1. y = wr_grow(x, n, got) /\ route = "grow"
      BY <2>3 DEF Grow, Bounded
    <3>. HIDE DEF y
    <3>2. /\ y \in WriterType
          /\ y.len = x.len /\ y.reserve = x.reserve /\ y.flushed = x.flushed
          /\ y.aborted = x.aborted /\ y.past = x.past
          /\ y.lost = 0 => x.lost = 0
          /\ (x.oom = 0 /\ y.lost = 0) => y.oom = 0
          /\ (x.oom = 0 /\ y.oom = 0) => y.cap = y.extent /\ x.len + n + 1 <= y.cap
      <4>1. n \in Nat
        OBVIOUS
      <4>. QED BY <3>1, <4>1, GrowFacts
    <3>3. y.lost = 0 => y.oom = 0 /\ y.cap = y.extent /\ y.len + n + 1 <= y.cap
      <4>1. y.lost = 0 => x.oom = 0
        BY <3>1, <3>2 DEF Sound
      <4>. QED BY <3>2, <4>1
    <3>4. Sound(y, k)
      BY <2>3, <3>1, <3>2, <3>3 DEF Sound, Hurt, WriterType
    <3>. QED BY <3>1, <3>2, <3>3, <3>4
  <2>. QED BY <2>1, <2>2, <2>3
<1>. HIDE DEF y
<1>3. CASE y.oom = 0
  <2>1. Store(Spent(y, n), n) \in WriterType /\ Sound(Store(Spent(y, n), n), k - n)
    BY <1>2, SpendSound
  <2>2. Fused(x, n, takes, got) = wr_maybe_flush(Store(Spent(y, n), n), takes)
    BY <1>1, <1>3
  <2>3. k - n \in Nat
    OBVIOUS
  <2>. QED BY <2>1, <2>2, <2>3, FlushSound
<1>4. CASE y.oom = 1
  <2>1. (route = "grow" => y.lost = 1) /\ (route = "stream" => y.aborted = 1)
    BY <1>2, <1>4 DEF WriterType
  <2>2. Fused(x, n, takes, got) = Count(y, n) /\ n \in 0 .. k
    BY <1>1, <1>4
  <2>. QED BY <1>2, <2>1, <2>2, CountSound
<1>. QED BY <1>2, <1>3, <1>4 DEF WriterType

\* A pass begins with nothing written.
LEMMA ResetFacts ==
  ASSUME NEW x \in WriterType
  PROVE  LET y == Reset(x)
         IN /\ y \in WriterType
            /\ y.len = 0 /\ y.reserve = 0 /\ y.flushed = 0 /\ y.aborted = 0
            /\ y.cap = x.cap /\ y.extent = x.extent /\ y.oom = x.oom /\ y.lost = x.lost
            /\ y.past = x.past
<1>. DEFINE s == [x EXCEPT !.len = 0, !.reserve = 0, !.flushed = 0]
<1>1. s \in WriterType
  <2>. DEFINE t == [x EXCEPT !.len = 0, !.reserve = 0]
  <2>1. t \in WriterType
    BY DEF WriterType
  <2>2. s = [t EXCEPT !.flushed = 0]
    BY DEF WriterType
  <2>. HIDE DEF t, s
  <2>. QED BY <2>1, <2>2 DEF WriterType
<1>2. /\ s.len = 0 /\ s.reserve = 0 /\ s.flushed = 0 /\ s.cap = x.cap /\ s.extent = x.extent
      /\ s.oom = x.oom /\ s.lost = x.lost /\ s.past = x.past
  BY DEF WriterType
<1>3. Reset(x) = [s EXCEPT !.aborted = 0]
  BY DEF Reset, WriterType
<1>. HIDE DEF s
<1>4. Reset(x) \in WriterType
  BY <1>1, <1>3 DEF WriterType
<1>. QED BY <1>1, <1>2, <1>3, <1>4 DEF WriterType

\* A buffer of c bytes is given to the writer.
LEMMA BufferFacts ==
  ASSUME NEW x \in WriterType, NEW c \in Nat
  PROVE  LET y == [x EXCEPT !.cap = c, !.extent = c]
             z == [x EXCEPT !.extent = c]
         IN /\ y \in WriterType /\ z \in WriterType
            /\ y.cap = c /\ y.extent = c /\ z.cap = x.cap /\ z.extent = c
            /\ y.oom = x.oom /\ z.oom = x.oom /\ y.past = x.past /\ z.past = x.past
            /\ z.len = x.len
<1>1. [x EXCEPT !.cap = c, !.extent = c] \in WriterType
  BY DEF WriterType
<1>2. [x EXCEPT !.extent = c] \in WriterType
  BY DEF WriterType
<1>. QED BY <1>1, <1>2 DEF WriterType

\* The type invariant with the writer's: inductive together.
Inv == TypeOK /\ WriterInv

\* The first wet pass begins with a sound writer.
LEMMA BeginSound ==
  ASSUME Context, NEW x \in WriterType, x.oom = 0, x.past = 0,
         route \in {"into", "pretty"} => x.cap = 0 /\ doc.total < x.extent,
         route = "trusted" => x.cap = host /\ x.extent = host,
         route = "grow" => x.cap = Est /\ x.extent = Est,
         route = "stream" => x.cap = Window /\ x.extent = Window
  PROVE  Reset(x) \in WriterType /\ Sound(Reset(x), doc.total)
<1>1. Est \in Nat /\ Est >= 1
  BY EstAssumption
<1>. QED BY <1>1, ResetFacts, Sizes DEF Sound, Hurt, WriterType

\* Every answer of a fault is a Boolean.
LEMMA WorksIsBoolean ==
  ASSUME NEW site PROVE Works(site) \subseteq BOOLEAN
BY DEF Works

\* Before and after the walk: when the call is over, or the first dry pass
\* begins, the invariant asks little of the writer.
LEMMA OverInv ==
  ASSUME Context', pc' = "done", rest' \in Nat, left' \in Nat, w' \in WriterType,
         heap' \subseteq {"names", "scratch", "buffer", "window"},
         ret' \in Nat \cup {NoAnswer, Null}, Hurt(w)' \/ w'.past = 0
  PROVE  Inv'
BY DEF Inv, TypeOK, Pcs, WriterInv, StaysInBounds, Context

\* A wet pass that goes on with a sound writer.
LEMMA WetInv ==
  ASSUME Context', pc' = "wet", rest' \in Nat, left' = 0, w' \in WriterType,
         heap' \subseteq {"names", "scratch", "buffer", "window"},
         ret' \in Nat \cup {NoAnswer, Null}, Sound(w, rest)'
  PROVE  Inv'
BY DEF Inv, TypeOK, Pcs, WriterInv, StaysInBounds, Context, Sound

\* The entry points.
LEMMA EntryInv ==
  ASSUME Inv, Entry PROVE Inv'
<1>. USE DEF Inv
<1>1. /\ Context /\ Context' /\ rest \in Nat /\ left = 0 /\ left' = 0 /\ w \in WriterType
      /\ w.cap = 0 /\ w.oom = 0 /\ w.past = 0 /\ w.reserve = 0
      /\ route' = route /\ doc' = doc /\ host' = host
      /\ heap \subseteq {"names", "scratch", "buffer", "window"} /\ ret \in Nat \cup {NoAnswer, Null}
  BY DEF Entry, SerializeIntoEx, SerializeIntoTrusted, SerializeEx, SerializeJson, SerializeJsonPretty,
         SerializeStream, TypeOK, WriterInv, Context
<1>2. heap' \subseteq {"names", "scratch", "buffer", "window"}
  BY <1>1 DEF Entry, SerializeIntoEx, SerializeIntoTrusted, SerializeEx, SerializeJson, SerializeJsonPretty,
              SerializeStream, Names
<1>3. CASE ret' \in {0, Null} /\ pc' = "done" /\ UNCHANGED <<rest, w>>
  BY <1>1, <1>2, <1>3, OverInv DEF Hurt
<1>4. CASE route \in {"into", "pretty"} /\ BeginPass("dry", w)
  <2>1. /\ w' \in WriterType /\ w'.len = 0 /\ w'.reserve = 0 /\ w'.flushed = 0
        /\ w'.cap = 0 /\ w'.oom = 0 /\ w'.past = 0
    BY <1>1, <1>4, ResetFacts DEF BeginPass
  <2>2. rest' = doc.total /\ doc.total \in Nat /\ pc' = "dry" /\ ret' = ret
    BY <1>1, <1>4, Sizes DEF BeginPass
  <2>. QED BY <1>1, <1>2, <1>4, <2>1, <2>2
       DEF TypeOK, Pcs, WriterInv, StaysInBounds, Context, Sound
<1>5. ASSUME NEW x \in WriterType, x.oom = 0, x.past = 0, BeginPass("wet", x),
             route = "trusted" => x.cap = host /\ x.extent = host,
             route = "grow" => x.cap = Est /\ x.extent = Est,
             route = "stream" => x.cap = Window /\ x.extent = Window,
             route \in {"trusted", "grow", "stream"}
      PROVE  Inv'
  <2>1. w' \in WriterType /\ Sound(Reset(x), doc.total) /\ w' = Reset(x)
    BY <1>1, <1>5, BeginSound DEF BeginPass
  <2>2. rest' = doc.total /\ doc.total \in Nat /\ pc' = "wet" /\ ret' = ret
    BY <1>1, <1>5, Sizes DEF BeginPass
  <2>3. Sound(w, rest)'
    BY <1>1, <2>1, <2>2 DEF Sound, Hurt
  <2>. QED BY <1>1, <1>2, <2>1, <2>2, <2>3, WetInv
<1>6. Est \in Nat /\ Window \in Nat /\ host \in Nat
  BY <1>1, EstAssumption, Sizes
<1>7. CASE SerializeIntoEx
  BY <1>3, <1>4, <1>7 DEF SerializeIntoEx, Answer
<1>8. CASE SerializeIntoTrusted
  BY <1>1, <1>3, <1>5, <1>6, <1>8, BufferFacts DEF SerializeIntoTrusted, Answer
<1>9. CASE SerializeEx
  BY <1>1, <1>3, <1>5, <1>6, <1>9, BufferFacts DEF SerializeEx, Answer
<1>10. CASE SerializeJsonPretty
  BY <1>3, <1>4, <1>10 DEF SerializeJsonPretty, Answer
<1>11. CASE SerializeStream
  BY <1>1, <1>3, <1>5, <1>6, <1>11, BufferFacts DEF SerializeStream, Answer
<1>12. CASE SerializeJson
  BY <1>1, <1>3, <1>5, <1>6, <1>12, BufferFacts DEF SerializeJson, Answer
<1>. QED BY <1>7, <1>8, <1>9, <1>10, <1>11, <1>12 DEF Entry

\* A put being cut that goes on with a sound writer.
LEMMA ChunkInv ==
  ASSUME Context', pc' = "chunk", route' = "stream", rest' \in Nat, left' \in Nat, w' \in WriterType,
         heap' \subseteq {"names", "scratch", "buffer", "window"},
         ret' \in Nat \cup {NoAnswer, Null}, Sound(w, left + rest)'
  PROVE  Inv'
BY DEF Inv, TypeOK, Pcs, WriterInv, StaysInBounds, Context, Sound

\* One turn of the loop that cuts a put.
LEMMA ChunkStep ==
  ASSUME Inv, Chunk PROVE Inv'
<1>1. /\ Context /\ Context' /\ rest \in Nat /\ left \in Nat /\ w \in WriterType
      /\ route = "stream" /\ route' = route /\ doc' = doc /\ host' = host /\ rest' = rest
      /\ heap' = heap /\ heap \subseteq {"names", "scratch", "buffer", "window"}
      /\ ret' = ret /\ ret \in Nat \cup {NoAnswer, Null}
      /\ Sound(w, left + rest)
  BY DEF Inv, Chunk, Quiet, TypeOK, WriterInv, Context
<1>2. CASE left = 0 \/ w.aborted = 1
  <2>1. left' = 0 /\ pc' = "wet" /\ w' = Count(w, left)
    BY <1>2 DEF Chunk
  <2>2. w' \in WriterType /\ Sound(w', rest)
    <3>1. CASE w.aborted = 1
      <4>1. left + rest \in Nat /\ left \in 0 .. (left + rest) /\ (left + rest) - left = rest
        BY <1>1
      <4>. QED BY <1>1, <2>1, <3>1, <4>1, CountSound
    <3>2. CASE left = 0
      <4>1. w' = [w EXCEPT !.len = w.len] /\ left + rest = rest
        BY <1>1, <2>1, <3>2 DEF Count, WriterType
      <4>2. w' = w
        BY <1>1, <4>1 DEF WriterType
      <4>. QED BY <1>1, <4>1, <4>2
    <3>. QED BY <1>2, <3>1, <3>2
  <2>3. Sound(w, rest)'
    BY <1>1, <2>2 DEF Sound, Hurt
  <2>. QED BY <1>1, <2>1, <2>2, <2>3, WetInv
<1>3. CASE left # 0 /\ w.aborted = 0
  <2>. DEFINE room == Least(Minus1(w.cap, w.len), left)
              y == Store(w, room)
  <2>1. PICK takes \in BOOLEAN :
          /\ left' = left - room /\ pc' = pc /\ pc = "chunk"
          /\ w' = IF room < left THEN CallSink(y, takes) ELSE y
    BY <1>1, <1>3, WorksIsBoolean DEF Chunk, WriterType
  <2>2. room \in Nat /\ room <= left /\ w.len + room + 1 <= w.cap
    BY <1>1, <1>3, Sizes DEF Least, Minus1, Sound, WriterType
  <2>. HIDE DEF room
  <2>3. /\ y \in WriterType
        /\ y.len = w.len + room /\ y.cap = w.cap /\ y.reserve = w.reserve
        /\ y.flushed = w.flushed /\ y.oom = w.oom /\ y.aborted = w.aborted
        /\ y.extent = w.extent /\ y.lost = w.lost
        /\ w.len + room <= w.extent => y.past = w.past
    BY <1>1, <2>2, StoreFacts
  <2>. HIDE DEF y
  <2>4. Sound(y, left' + rest)
    BY <1>1, <1>3, <2>1, <2>2, <2>3, Sizes DEF Sound, Hurt, WriterType
  <2>5. w' \in WriterType /\ Sound(w', left' + rest)
    <3>1. CASE room < left
      <4>1. w' = CallSink(y, takes)
        BY <2>1, <3>1
      <4>. QED BY <1>1, <2>3, <2>4, <4>1, SinkFacts, Sizes DEF Sound, Hurt, WriterType
    <3>2. CASE ~(room < left)
      BY <2>1, <2>3, <2>4, <3>2
    <3>. QED BY <3>1, <3>2
  <2>6. Sound(w, left + rest)' /\ left' \in Nat
    BY <1>1, <2>1, <2>2, <2>5 DEF Sound, Hurt
  <2>. QED BY <1>1, <2>1, <2>5, <2>6, ChunkInv
<1>. QED BY <1>1, <1>2, <1>3 DEF WriterType

\* The writes of a dry pass only count.
LEMMA DryInv ==
  ASSUME Inv, pc = "dry", pc' = "dry", NEW n \in 1 .. rest, rest' = rest - n,
         w' = Count(w, n), left' = left, Quiet
  PROVE  Inv'
<1>0. w \in WriterType /\ rest \in Nat
  BY DEF Inv, TypeOK
<1>1. w' = [w EXCEPT !.len = w.len + n] /\ w.len + n \in Nat /\ w \in WriterType
  BY <1>0 DEF Count, WriterType
<1>2. w' \in WriterType /\ w'.len = w.len + n
  BY <1>1 DEF WriterType
<1>3. rest' \in Nat
  BY <1>0
<1>4. doc.total \in Nat
  BY Sizes DEF Context, Inv, TypeOK
<1>. QED BY <1>1, <1>2, <1>3, <1>4 DEF Inv, TypeOK, WriterInv, StaysInBounds, Sound, Hurt, Quiet, WriterType

\* A byte, a put and a fused member.
LEMMA WriteInv ==
  ASSUME Inv, Byte \/ Put \/ Member PROVE Inv'
<1>1. /\ Context /\ Context' /\ rest \in Nat /\ left = 0 /\ w \in WriterType
      /\ pc \in {"dry", "wet"} /\ Quiet
      /\ route' = route /\ doc' = doc /\ host' = host
      /\ heap' \subseteq {"names", "scratch", "buffer", "window"}
      /\ ret' \in Nat \cup {NoAnswer, Null}
      /\ pc = "wet" => Sound(w, rest)
  <2>1. pc \in {"dry", "wet"} /\ Quiet
    BY DEF Byte, Put, Member
  <2>2. left = 0 /\ rest \in Nat /\ (pc = "wet" => Sound(w, left + rest))
    BY <2>1 DEF Inv, TypeOK, WriterInv
  <2>3. left + rest = rest
    BY <2>2
  <2>4. pc = "wet" => Sound(w, rest)
    BY <2>2, <2>3
  <2>. QED BY <2>1, <2>2, <2>4 DEF Inv, Quiet, TypeOK, Context
<1>2. ASSUME NEW n \in 1 .. rest, rest' = rest - n, pc = "wet", pc' = "wet", left' = left,
             w' \in WriterType, Sound(w', rest - n)
      PROVE  Inv'
  <2>1. Sound(w, rest)' /\ rest' \in Nat
    BY <1>1, <1>2 DEF Sound, Hurt
  <2>. QED BY <1>1, <1>2, <2>1, WetInv
<1>3. CASE Byte
  <2>1. PICK takes \in BOOLEAN, got \in BOOLEAN :
          w' = IF Dry THEN Count(w, 1) ELSE wr_byte(w, takes, got)
    BY <1>3, WorksIsBoolean DEF Byte
  <2>2. rest' = rest - 1 /\ 1 \in 1 .. rest /\ pc' = pc /\ left' = left
    BY <1>1, <1>3 DEF Byte
  <2>3. CASE pc = "dry"
    BY <1>1, <2>1, <2>2, <2>3, DryInv DEF Dry
  <2>4. CASE pc = "wet"
    <3>1. wr_reserve(w, 1, takes, got) \in WriterType
      BY <1>1, <2>4, ReserveSound
    <3>2. w' = wr_put(w, 1, takes, got)
      BY <1>1, <2>1, <2>4, <3>1, ByteIsPut DEF Dry
    <3>3. w' \in WriterType /\ Sound(w', rest - 1)
      BY <1>1, <2>2, <2>4, <3>2, PutSound
    <3>. QED BY <1>2, <2>2, <2>4, <3>3
  <2>. QED BY <1>1, <2>3, <2>4
<1>4. CASE Put
  <2>1. PICK n \in 1 .. rest, takes \in BOOLEAN, got \in BOOLEAN :
          /\ rest' = rest - n
          /\ IF ~Dry /\ Cut(w, n)
             THEN pc' = "chunk" /\ left' = n /\ UNCHANGED w
             ELSE /\ w' = IF Dry THEN Count(w, n) ELSE wr_put(w, n, takes, got)
                  /\ UNCHANGED <<pc, left>>
    BY <1>4, WorksIsBoolean DEF Put
  <2>2. CASE pc = "dry"
    BY <1>1, <2>1, <2>2, DryInv DEF Dry
  <2>3. CASE pc = "wet" /\ Cut(w, n)
    <3>1. pc' = "chunk" /\ left' = n /\ w' = w /\ route = "stream" /\ rest' \in Nat /\ left' \in Nat
      BY <1>1, <2>1, <2>3 DEF Dry, Cut, Sink
    <3>2. left' + rest' = rest
      BY <1>1, <2>1, <3>1
    <3>3. Sound(w, left + rest)'
      BY <1>1, <2>3, <3>1, <3>2 DEF Sound, Hurt
    <3>. QED BY <1>1, <3>1, <3>3, ChunkInv
  <2>4. CASE pc = "wet" /\ ~Cut(w, n)
    <3>1. w' = wr_put(w, n, takes, got) /\ pc' = pc /\ left' = left
      BY <2>1, <2>4 DEF Dry
    <3>2. w' \in WriterType /\ Sound(w', rest - n)
      BY <1>1, <2>4, <3>1, PutSound
    <3>. QED BY <1>2, <2>1, <2>4, <3>1, <3>2
  <2>. QED BY <1>1, <2>2, <2>3, <2>4
<1>5. CASE Member
  <2>1. PICK n \in 2 .. rest, takes \in BOOLEAN, got \in BOOLEAN :
          /\ Dry \/ ~Declined(w, n)
          /\ rest' = rest - n
          /\ w' = IF Dry THEN Count(w, n) ELSE Fused(w, n, takes, got)
    BY <1>5, WorksIsBoolean DEF Member
  <2>2. pc' = pc /\ left' = left /\ n \in 1 .. rest
    BY <1>1, <1>5 DEF Member
  <2>3. CASE pc = "dry"
    BY <1>1, <2>1, <2>2, <2>3, DryInv DEF Dry
  <2>4. CASE pc = "wet"
    <3>1. w' = Fused(w, n, takes, got) /\ ~Declined(w, n)
      BY <2>1, <2>4 DEF Dry
    <3>2. w' \in WriterType /\ Sound(w', rest - n)
      BY <1>1, <2>4, <3>1, FusedSound
    <3>. QED BY <1>2, <2>1, <2>2, <2>4, <3>2
  <2>. QED BY <1>1, <2>3, <2>4
<1>. QED BY <1>3, <1>4, <1>5

\* The terminator, put where the buffer has room for it.
LEMMA TerminateFacts ==
  ASSUME NEW x \in WriterType
  PROVE  LET y == Terminate(x, x.len)
         IN /\ y \in WriterType
            /\ y.lost = x.lost /\ y.aborted = x.aborted
            /\ x.len + 1 <= x.extent => y.past = x.past
<1>. DEFINE m == Most(x.top, x.len + 1)
            p == IF x.len + 1 > x.extent THEN 1 ELSE x.past
<1>1. m \in Nat /\ p \in {0, 1} /\ (x.len + 1 <= x.extent => p = x.past)
  BY DEF Most, WriterType
<1>2. Terminate(x, x.len) = [x EXCEPT !.top = m, !.past = p]
  BY DEF Terminate, Touch
<1>. HIDE DEF m, p
<1>3. Terminate(x, x.len) \in WriterType
  BY <1>1, <1>2 DEF WriterType
<1>. QED BY <1>1, <1>2, <1>3 DEF WriterType

\* What follows a dry pass.
LEMMA MeasuredInv ==
  ASSUME Inv, IntoMeasured \/ PrettyMeasured PROVE Inv'
<1>1. /\ Context /\ Context' /\ rest = 0 /\ left' = 0 /\ w \in WriterType
      /\ w.cap = 0 /\ w.oom = 0 /\ w.past = 0
      /\ route' = route /\ doc' = doc /\ host' = host
      /\ ret \in Nat \cup {NoAnswer, Null}
      /\ w.len + rest = doc.total /\ route \in {"into", "pretty"}
  BY DEF Inv, IntoMeasured, PrettyMeasured, Done, Rest, TypeOK, WriterInv, Context
<1>2. heap' \subseteq {"names", "scratch", "buffer", "window"}
  BY DEF Inv, IntoMeasured, PrettyMeasured, TypeOK
<1>3. w.len \in Nat /\ w.len = doc.total /\ host \in Nat
  BY <1>1, Sizes DEF WriterType
<1>4. ASSUME NEW c \in Nat, c > w.len, BeginPass("wet", [w EXCEPT !.extent = c])
      PROVE  Inv'
  <2>. DEFINE x == [w EXCEPT !.extent = c]
  <2>1. x \in WriterType /\ x.oom = 0 /\ x.past = 0 /\ x.cap = 0 /\ doc.total < x.extent
    BY <1>1, <1>3, <1>4, BufferFacts
  <2>2. rest' = doc.total /\ doc.total \in Nat /\ pc' = "wet" /\ ret' = ret /\ w' = Reset(x)
    BY <1>1, <1>4, Sizes DEF BeginPass
  <2>. HIDE DEF x
  <2>3. Reset(x) \in WriterType /\ Sound(Reset(x), doc.total)
    BY <1>1, <2>1, BeginSound
  <2>4. Sound(w, rest)'
    BY <1>1, <2>2, <2>3 DEF Sound, Hurt
  <2>. QED BY <1>1, <1>2, <2>2, <2>3, <2>4, WetInv
<1>5. CASE pc' = "done" /\ ret' \in {w.len, Null} /\ UNCHANGED <<rest, w>>
  BY <1>1, <1>2, <1>3, <1>5, OverInv DEF Hurt
<1>6. CASE IntoMeasured
  BY <1>3, <1>4, <1>5, <1>6 DEF IntoMeasured, Answer
<1>7. CASE PrettyMeasured
  <2>1. w.len + 1 \in Nat /\ w.len + 1 > w.len
    BY <1>3
  <2>. QED BY <1>4, <1>5, <1>7, <2>1 DEF PrettyMeasured, Answer
<1>. QED BY <1>6, <1>7

\* What follows a wet pass.
LEMMA WrittenInv ==
  ASSUME Inv, IntoWritten \/ PrettyWritten \/ TrustedWritten \/ Written \/ StreamWritten
  PROVE  Inv'
<1>1. /\ Context /\ Context' /\ rest = 0 /\ rest' = 0 /\ left' = 0 /\ w \in WriterType
      /\ route' = route /\ doc' = doc /\ host' = host
      /\ pc = "wet" /\ pc' = "done"
  BY DEF Inv, IntoWritten, PrettyWritten, TrustedWritten, Written, StreamWritten, Done, Rest,
         Answer, TypeOK, WriterInv, Context
<1>2. heap' \subseteq {"names", "scratch", "buffer", "window"}
  BY DEF Inv, IntoWritten, PrettyWritten, TrustedWritten, Written, StreamWritten, TypeOK
<1>3. Sound(w, 0)
  <2>1. left = 0 /\ Sound(w, left + rest)
    BY <1>1 DEF Inv, WriterInv
  <2>2. left + rest = 0
    BY <1>1, <2>1
  <2>. QED BY <2>1, <2>2
<1>4. w.len \in Nat /\ w.flushed \in Nat /\ w.flushed + w.len = doc.total
  BY <1>1, <1>3 DEF Sound, WriterType
<1>5. ASSUME w' \in WriterType, ret' \in Nat \cup {NoAnswer, Null}, Hurt(w') \/ w'.past = 0
      PROVE  Inv'
  <2>1. Hurt(w)' \/ w'.past = 0
    BY <1>1, <1>5 DEF Hurt
  <2>. QED BY <1>1, <1>2, <1>5, <2>1, OverInv
<1>6. ASSUME route # "stream", w' = Terminate(w, w.len), ret' = w.len PROVE Inv'
  <2>1. Hurt(w) \/ w.len + 1 <= w.extent
    BY <1>1, <1>3, Sizes DEF Sound, Hurt, WriterType, Context, Routes
  <2>2. Hurt(w) \/ w.past = 0
    BY <1>3 DEF Sound
  <2>3. w' \in WriterType /\ w'.lost = w.lost /\ w'.aborted = w.aborted
        /\ (w.len + 1 <= w.extent => w'.past = w.past)
    BY <1>1, <1>6, TerminateFacts
  <2>4. Hurt(w') \/ w'.past = 0
    BY <2>1, <2>2, <2>3 DEF Hurt
  <2>. QED BY <1>4, <1>5, <1>6, <2>3, <2>4
<1>7. ASSUME w' = w, ret' \in {w.len, Null} PROVE Inv'
  BY <1>1, <1>3, <1>4, <1>5, <1>7 DEF Sound
<1>8. CASE IntoWritten
  BY <1>6, <1>8 DEF IntoWritten, Answer
<1>9. CASE PrettyWritten
  BY <1>6, <1>9 DEF PrettyWritten, Answer
<1>10. CASE TrustedWritten
  BY <1>6, <1>7, <1>10 DEF TrustedWritten, Answer
<1>11. CASE Written
  <2>1. CASE w.oom = 1 \/ doc.unser
    BY <1>7, <1>11, <2>1 DEF Written, Answer
  <2>2. CASE ~(w.oom = 1 \/ doc.unser)
    <3>. DEFINE x == [w EXCEPT !.extent = w.len + 1]
    <3>1. ret' = w.len /\ (w' = Terminate(x, w.len) \/ w' = Terminate(w, w.len)) /\ route = "grow"
      BY <1>11, <2>2 DEF Written, Answer
    <3>2. CASE w' = Terminate(x, w.len)
      <4>1. x \in WriterType /\ x.len = w.len /\ x.extent = w.len + 1 /\ x.past = w.past
            /\ x.lost = w.lost /\ x.aborted = w.aborted
        BY <1>1, <1>4 DEF WriterType
      <4>. HIDE DEF x
      <4>2. w' \in WriterType /\ w'.lost = w.lost /\ w'.aborted = w.aborted /\ w'.past = w.past
        BY <1>4, <3>2, <4>1, TerminateFacts
      <4>3. Hurt(w') \/ w'.past = 0
        BY <1>3, <4>2 DEF Sound, Hurt
      <4>. QED BY <1>4, <1>5, <3>1, <4>2, <4>3
    <3>. QED BY <1>6, <3>1, <3>2
  <2>. QED BY <2>1, <2>2
<1>12. CASE StreamWritten
  <2>1. /\ ret' \in {0, w.flushed + w.len}
        /\ \/ w' = w
           \/ w' = [w EXCEPT !.taken = w.taken + w.len]
           \/ w' = [w EXCEPT !.aborted = 1]
    BY <1>12 DEF StreamWritten, Answer
  <2>2. w' \in WriterType /\ w'.past = w.past /\ w'.lost = w.lost /\ (w.aborted = 1 => w'.aborted = 1)
    <3>1. w.taken + w.len \in Nat
      BY <1>1 DEF WriterType
    <3>. QED BY <1>1, <2>1, <3>1 DEF WriterType
  <2>3. Hurt(w') \/ w'.past = 0
    BY <1>3, <2>2 DEF Sound, Hurt
  <2>. QED BY <1>4, <1>5, <2>1, <2>2, <2>3
<1>. QED BY <1>8, <1>9, <1>10, <1>11, <1>12

\* Every step keeps the type and the writer sound.
LEMMA StepInv ==
  ASSUME Inv, [Next]_vars PROVE Inv'
<1>1. CASE Entry
  BY <1>1, EntryInv
<1>2. CASE Walk
  BY <1>2, WriteInv, ChunkStep DEF Walk
<1>3. CASE Exit
  BY <1>3, MeasuredInv, WrittenInv DEF Exit
<1>4. CASE UNCHANGED vars
  BY <1>4 DEF vars, Inv, TypeOK, WriterInv, StaysInBounds, Sound, Hurt
<1>. QED BY <1>1, <1>2, <1>3, <1>4 DEF Next, Idle

\* The entry state of a call.
LEMMA InitInv ==
  ASSUME Init PROVE Inv
<1>1. Cleared \in WriterType /\ Cleared.cap = 0 /\ Cleared.reserve = 0 /\ Cleared.oom = 0 /\ Cleared.past = 0
  BY DEF Cleared, WriterType
<1>. QED BY <1>1 DEF Init, Inv, TypeOK, Pcs, WriterInv, StaysInBounds, NoAnswer

\* The writer invariant, on every route, with every failure.
THEOREM WriterSound == Spec => [](TypeOK /\ WriterInv)
<1>1. Init => Inv
  BY InitInv
<1>2. Inv /\ [Next]_vars => Inv'
  BY StepInv
<1>. QED BY <1>1, <1>2, PTL DEF Spec, Inv

\* No store of a serialize call ends past the buffer it was given or made,
\* for documents, buffers and windows of every size, as long as no growth
\* failed, the sink refused nothing and a trusted buffer is large enough.
THEOREM InBoundsAlways == Spec => []StaysInBounds
<1>1. TypeOK /\ WriterInv => StaysInBounds
  BY DEF WriterInv
<1>. QED BY <1>1, WriterSound, PTL

\* The count of a pass and what is still to come add up to the document in
\* every state of every route, whatever failed before.
THEOREM CountAlwaysRuns == Spec => []CountKeepsRunning
<1>1. TypeOK /\ WriterInv => CountKeepsRunning
  <2>. SUFFICES ASSUME TypeOK, WriterInv, pc \in {"dry", "wet", "chunk"}
                PROVE  w.flushed + w.len + left + rest = doc.total
    BY DEF CountKeepsRunning
  <2>1. w \in WriterType /\ left \in Nat /\ rest \in Nat
    BY DEF TypeOK
  <2>2. CASE pc = "dry"
    BY <2>1, <2>2 DEF WriterInv, WriterType
  <2>3. CASE pc \in {"wet", "chunk"}
    BY <2>1, <2>3 DEF WriterInv, WriterType, Sound
  <2>. QED BY <2>2, <2>3
<1>. QED BY <1>1, WriterSound, PTL

-----------------------------------------------------------------------------
(* What a finished call leaves behind: Kept follows the writer through the *)
(* same primitives.                                                        *)

\* A store keeps the stored bytes contiguous, and one that passes the buffer is remembered.
LEMMA StoreEnds ==
  ASSUME NEW x \in WriterType, NEW n \in Nat
  PROVE  LET y == Store(x, n)
         IN /\ y.taken = x.taken
            /\ x.top = x.len => y.top = x.len + n
            /\ y.past = 0 => x.past = 0 /\ (n > 0 => x.len + n <= x.extent)
<1>1. CASE n = 0
  BY <1>1 DEF Store, WriterType
<1>2. CASE n # 0
  <2>. DEFINE m == Most(x.top, x.len + n)
              p == IF x.len + n > x.extent THEN 1 ELSE x.past
  <2>1. /\ x.top = x.len => m = x.len + n
        /\ p = 0 => x.past = 0 /\ x.len + n <= x.extent
    BY DEF Most, WriterType
  <2>2. Store(x, n) = [[x EXCEPT !.top = m, !.past = p] EXCEPT !.len = x.len + n]
    BY <1>2 DEF Store, Touch, Count, WriterType
  <2>. HIDE DEF m, p
  <2>. QED BY <2>1, <2>2 DEF WriterType
<1>. QED BY <1>1, <1>2

\* The sink has what was flushed.
LEMMA SinkEnds ==
  ASSUME NEW x \in WriterType, NEW takes \in BOOLEAN, x.taken = x.flushed
  PROVE  CallSink(x, takes).taken = CallSink(x, takes).flushed
<1>1. CASE takes
  BY <1>1 DEF CallSink, WriterType
<1>2. CASE ~takes
  BY <1>2 DEF CallSink, WriterType
<1>. QED BY <1>1, <1>2

\* A failed growth leaves the buffer as it was; one asked for with oom standing clears it.
LEMMA GrowEnds ==
  ASSUME NEW x \in WriterType, NEW need \in Nat, NEW got \in BOOLEAN
  PROVE  LET y == wr_grow(x, need, got)
         IN /\ y.top = x.top
            /\ x.oom = 1 => y.oom = 0 /\ y.lost = x.lost /\ y.extent = x.extent
            /\ (x.oom = 0 /\ y.oom = 1) => y.lost = 1 /\ y.extent = x.extent
            /\ (x.oom = 0 /\ y.oom = 0) => y.lost = x.lost
<1>1. CASE x.oom = 1
  BY <1>1 DEF wr_grow, WriterType
<1>2. CASE x.oom = 0 /\ ~got
  <2>. DEFINE y == wr_grow(x, need, got)
  <2>1. y = [x EXCEPT !.oom = 1, !.lost = 1]
    BY <1>2 DEF wr_grow
  <2>2. y.oom = 1 /\ y.lost = 1 /\ y.top = x.top /\ y.extent = x.extent
    BY <2>1 DEF WriterType
  <2>. HIDE DEF y
  <2>. QED BY <1>2, <2>2 DEF y
<1>3. CASE x.oom = 0 /\ got
  <2>. DEFINE want == Most(x.len + need + 1, 2 * x.cap)
  <2>1. wr_grow(x, need, got) = [x EXCEPT !.cap = want, !.extent = want]
    BY <1>3 DEF wr_grow
  <2>. HIDE DEF want
  <2>. DEFINE y == wr_grow(x, need, got)
  <2>2. y.oom = x.oom /\ y.lost = x.lost /\ y.top = x.top
    BY <2>1 DEF WriterType
  <2>3. x.oom = 0 /\ y.oom = 0
    BY <1>3, <2>2
  <2>. HIDE DEF y
  <2>4. /\ y.top = x.top
        /\ x.oom = 1 => y.oom = 0 /\ y.lost = x.lost /\ y.extent = x.extent
        /\ (x.oom = 0 /\ y.oom = 1) => y.lost = 1 /\ y.extent = x.extent
        /\ (x.oom = 0 /\ y.oom = 0) => y.lost = x.lost
    BY <2>2, <2>3
  <2>. QED BY <2>4 DEF y
<1>. QED BY <1>1, <1>2, <1>3 DEF WriterType

\* A flush at the mark, for what the call leaves behind.
LEMMA FlushEnds ==
  ASSUME NEW x \in WriterType, NEW takes \in BOOLEAN, Kept(x)
  PROVE  Kept(wr_maybe_flush(x, takes))
<1>1. CASE ~Sink \/ x.len < Watermark
  BY <1>1 DEF wr_maybe_flush
<1>2. CASE Sink /\ ~(x.len < Watermark)
  <2>1. wr_maybe_flush(x, takes) = CallSink(x, takes)
    BY <1>2 DEF wr_maybe_flush
  <2>2. CallSink(x, takes).past = x.past
    BY SinkFacts
  <2>. QED BY <1>2, <2>1, <2>2, SinkEnds DEF Kept, Sink
<1>. QED BY <1>1, <1>2

\* Spending the reservation and storing, where the bytes have room or the store is remembered.
LEMMA SpendEnds ==
  ASSUME Context, NEW x \in WriterType, NEW n \in Nat \ {0}, Kept(x)
  PROVE  Kept(Store(Spent(x, n), n))
<1>. DEFINE m == IF n <= x.reserve THEN x.reserve - n ELSE 0
            s == Spent(x, n)
            y == Store(s, n)
<1>1. m \in Nat
  BY DEF WriterType
<1>2. s = [x EXCEPT !.reserve = m]
  BY DEF Spent
<1>. HIDE DEF m, s
<1>3. /\ s \in WriterType /\ s.len = x.len /\ s.top = x.top /\ s.past = x.past /\ s.oom = x.oom
      /\ s.lost = x.lost /\ s.extent = x.extent /\ s.taken = x.taken /\ s.flushed = x.flushed
  BY <1>1, <1>2 DEF WriterType
<1>4. /\ y.len = s.len + n /\ y.flushed = s.flushed /\ y.oom = s.oom /\ y.extent = s.extent /\ y.lost = s.lost
      /\ y.taken = s.taken /\ (s.top = s.len => y.top = s.len + n)
      /\ y.past = 0 => s.past = 0 /\ s.len + n <= s.extent
  BY <1>3, StoreFacts, StoreEnds
<1>. HIDE DEF y
<1>5. Kept(y)
  BY <1>3, <1>4 DEF Kept, WriterType
<1>. QED BY <1>5 DEF y, s

\* wr_put, and with it wr_byte.
LEMMA PutEnds ==
  ASSUME Context, NEW x \in WriterType, NEW k \in Nat, NEW n \in 1 .. k,
         NEW takes \in BOOLEAN, NEW got \in BOOLEAN, Sound(x, k), Kept(x)
  PROVE  Kept(wr_put(x, n, takes, got))
<1>. DEFINE y == IF x.reserve < n THEN wr_reserve(x, n, takes, got) ELSE x
<1>1. wr_put(x, n, takes, got) = IF x.reserve < n /\ y.oom = 1 THEN Count(y, n) ELSE Store(Spent(y, n), n)
  BY DEF wr_put, Spent
<1>2. y \in WriterType /\ Sound(y, k) /\ n \in Nat \ {0}
  <2>1. n \in Nat /\ n \in Nat \ {0}
    OBVIOUS
  <2>2. CASE x.reserve < n
    BY <2>1, <2>2, ReserveSound
  <2>3. CASE ~(x.reserve < n)
    BY <2>1, <2>3
  <2>. QED BY <2>2, <2>3
<1>3. CASE ~(x.reserve < n)
  <2>1. wr_put(x, n, takes, got) = Store(Spent(x, n), n)
    BY <1>1, <1>3
  <2>. QED BY <1>2, <2>1, SpendEnds
<1>4. CASE x.reserve < n /\ route # "grow"
  <2>. DEFINE f == wr_maybe_flush(x, takes)
  <2>1. y = [f EXCEPT !.reserve = 0]
    BY <1>4 DEF wr_reserve, Grow, Bounded
  <2>2. f \in WriterType /\ Kept(f)
    BY FlushSound, FlushEnds
  <2>. HIDE DEF f
  <2>. HIDE DEF y
  <2>3. Kept(y)
    BY <2>1, <2>2 DEF Kept, WriterType
  <2>4. CASE y.oom = 1
    <3>1. route = "trusted"
      BY <1>2, <1>4, <2>4 DEF Sound, Context, Routes
    <3>2. wr_put(x, n, takes, got) = Count(y, n) /\ Count(y, n).past = y.past
      BY <1>1, <1>2, <1>4, <2>4 DEF Count, WriterType
    <3>. QED BY <2>3, <2>4, <3>1, <3>2 DEF Kept
  <2>5. CASE y.oom = 0
    <3>1. wr_put(x, n, takes, got) = Store(Spent(y, n), n)
      BY <1>1, <2>5
    <3>. QED BY <1>2, <2>3, <3>1, SpendEnds
  <2>. QED BY <1>2, <2>4, <2>5 DEF WriterType
<1>5. CASE x.reserve < n /\ route = "grow"
  <2>. DEFINE z == IF x.len + n + 1 > x.cap THEN wr_grow(x, n, got) ELSE x
              c == Count(y, n)
  <2>1. y = IF x.oom = 1 THEN x ELSE IF z.oom = 1 THEN z ELSE [z EXCEPT !.reserve = Minus1(z.cap, z.len)]
    BY <1>5 DEF wr_reserve, wr_maybe_flush, Sink, Grow, Bounded
  <2>2. /\ z \in WriterType /\ z.len = x.len /\ z.past = x.past /\ z.top = x.top
        /\ x.oom = 0 /\ z.oom = 1 => z.lost = 1 /\ z.extent = x.extent /\ x.len + n + 1 > x.cap
        /\ x.oom = 0 /\ z.oom = 0 => z.lost = x.lost
    <3>1. n \in Nat
      OBVIOUS
    <3>2. CASE x.len + n + 1 > x.cap
      BY <3>1, <3>2, GrowFacts, GrowEnds
    <3>3. CASE ~(x.len + n + 1 > x.cap)
      BY <3>3
    <3>. QED BY <3>2, <3>3
  <2>. HIDE DEF z, y
  <2>3. CASE y.oom = 1
    <3>1. wr_put(x, n, takes, got) = c
      BY <1>1, <1>5, <2>3
    <3>2. /\ c.past = y.past /\ c.len = y.len + n /\ c.oom = 1 /\ c.extent = y.extent /\ c.lost = y.lost
      BY <1>2, <2>3 DEF Count, WriterType
    <3>. HIDE DEF c
    <3>3. CASE x.oom = 1
      <4>1. y = x /\ x.lost = 1
        BY <1>5, <2>1, <3>3 DEF Sound, WriterType
      <4>. QED BY <1>2, <1>5, <3>1, <3>2, <4>1 DEF Kept, WriterType
    <3>4. CASE x.oom = 0
      <4>1. z.oom = 1 /\ y = z
        <5>1. z.oom = 0 => y.oom = 0
          BY <2>1, <2>2, <3>4 DEF WriterType
        <5>. QED BY <2>1, <2>2, <2>3, <3>4, <5>1 DEF WriterType
      <4>2. x.past = 0 => x.lost = 0
        BY <1>5, <3>4 DEF Kept, WriterType
      <4>3. x.past = 0 => x.cap = x.extent
        BY <1>5, <4>2 DEF Sound
      <4>. QED BY <1>2, <1>5, <2>2, <3>1, <3>2, <3>4, <4>1, <4>3 DEF Kept, WriterType
    <3>. QED BY <3>3, <3>4 DEF WriterType
  <2>4. CASE y.oom = 0
    <3>1. wr_put(x, n, takes, got) = Store(Spent(y, n), n)
      BY <1>1, <2>4
    <3>2. x.oom = 0 /\ z.oom = 0 /\ y = [z EXCEPT !.reserve = Minus1(z.cap, z.len)]
      BY <2>1, <2>2, <2>4 DEF WriterType
    <3>3. y.past = x.past /\ y.top = x.top /\ y.len = x.len /\ y.lost = x.lost
      BY <2>2, <3>2 DEF WriterType
    <3>4. Kept(y)
      BY <1>5, <3>2, <3>3 DEF Kept
    <3>. QED BY <1>2, <3>1, <3>4, SpendEnds
  <2>. QED BY <1>2, <2>3, <2>4 DEF WriterType
<1>. QED BY <1>3, <1>4, <1>5

\* The fused member: growth asked for with oom standing lets the store through, past the buffer.
LEMMA FusedEnds ==
  ASSUME Context, NEW x \in WriterType, NEW k \in Nat, NEW n \in 2 .. k,
         NEW takes \in BOOLEAN, NEW got \in BOOLEAN, Sound(x, k), Kept(x), ~Declined(x, n)
  PROVE  Kept(Fused(x, n, takes, got))
<1>. DEFINE y == IF ~Grow \/ x.len + n + 1 <= x.cap THEN x
                 ELSE IF Bounded THEN [x EXCEPT !.oom = 1]
                 ELSE wr_grow(x, n, got)
            c == Count(y, n)
<1>1. Fused(x, n, takes, got) = IF y.oom = 1 THEN c ELSE wr_maybe_flush(Store(Spent(y, n), n), takes)
  BY DEF Fused, Spent
<1>2. n \in Nat /\ n \in Nat \ {0}
  OBVIOUS
<1>3. ASSUME NEW v \in WriterType, y = v, v.oom = 0, Kept(v)
      PROVE  Kept(Fused(x, n, takes, got))
  <2>. HIDE DEF y
  <2>1. Spent(v, n) \in WriterType
    <3>. DEFINE m == IF n <= v.reserve THEN v.reserve - n ELSE 0
    <3>1. m \in Nat /\ Spent(v, n) = [v EXCEPT !.reserve = m]
      BY DEF WriterType, Spent
    <3>. HIDE DEF m
    <3>. QED BY <3>1 DEF WriterType
  <2>2. Store(Spent(v, n), n) \in WriterType
    BY <1>2, <2>1, StoreFacts
  <2>3. Kept(Store(Spent(v, n), n))
    BY <1>2, <1>3, SpendEnds
  <2>4. Fused(x, n, takes, got) = wr_maybe_flush(Store(Spent(v, n), n), takes)
    BY <1>1, <1>3
  <2>. QED BY <2>2, <2>3, <2>4, FlushEnds
<1>4. ASSUME NEW v \in WriterType, y = v, v.oom = 1
      PROVE  /\ Fused(x, n, takes, got) = c
             /\ c.past = v.past /\ c.len = v.len + n /\ c.oom = 1 /\ c.extent = v.extent /\ c.lost = v.lost
             /\ c.top = v.top
  <2>1. c = [v EXCEPT !.len = v.len + n]
    BY <1>4 DEF Count, WriterType
  <2>. QED BY <1>1, <1>4, <2>1 DEF WriterType
<1>5. CASE ~Grow \/ x.len + n + 1 <= x.cap
  <2>1. y = x
    BY <1>5
  <2>2. CASE x.oom = 0
    BY <1>3, <2>1, <2>2
  <2>3. CASE x.oom = 1
    <3>1. /\ Fused(x, n, takes, got) = c
          /\ c.past = x.past /\ c.len = x.len + n /\ c.oom = 1 /\ c.extent = x.extent /\ c.lost = x.lost
      BY <1>4, <2>1, <2>3
    <3>. HIDE DEF c, y
    <3>2. route \in {"trusted", "grow"} /\ (route = "grow" => x.lost = 1)
      BY <2>3 DEF Sound, Context, Routes, WriterType
    <3>. QED BY <1>2, <2>3, <3>1, <3>2 DEF Kept, WriterType
  <2>. QED BY <2>2, <2>3 DEF WriterType
<1>6. CASE Grow /\ ~(x.len + n + 1 <= x.cap) /\ Bounded
  <2>1. route = "trusted" /\ y = [x EXCEPT !.oom = 1]
    BY <1>6 DEF Bounded
  <2>2. y \in WriterType /\ y.oom = 1 /\ y.past = x.past
    BY <2>1 DEF WriterType
  <2>. HIDE DEF y
  <2>3. Fused(x, n, takes, got) = c /\ c.past = y.past
    BY <1>4, <2>2
  <2>4. ~(doc.total < host)
    BY <1>6, <2>1, Sizes DEF Sound, WriterType
  <2>. QED BY <2>1, <2>3, <2>4 DEF Kept
<1>7. CASE Grow /\ ~(x.len + n + 1 <= x.cap) /\ ~Bounded
  <2>1. route = "grow" /\ y = wr_grow(x, n, got)
    BY <1>7 DEF Grow, Bounded
  <2>. HIDE DEF y
  <2>2. /\ y \in WriterType /\ y.len = x.len /\ y.past = x.past /\ y.top = x.top
        /\ x.oom = 1 => y.oom = 0 /\ y.lost = x.lost /\ y.extent = x.extent
        /\ (x.oom = 0 /\ y.oom = 1) => y.lost = 1 /\ y.extent = x.extent
        /\ (x.oom = 0 /\ y.oom = 0) => y.lost = x.lost
    BY <1>2, <2>1, GrowFacts, GrowEnds
  <2>3. CASE y.oom = 1
    <3>1. /\ Fused(x, n, takes, got) = c
          /\ c.past = y.past /\ c.len = y.len + n /\ c.oom = 1 /\ c.extent = y.extent /\ c.lost = y.lost
      BY <1>4, <2>2, <2>3
    <3>. HIDE DEF c
    <3>2. x.oom = 0 /\ (x.past = 0 => x.cap = x.extent)
      BY <2>1, <2>2, <2>3 DEF Kept, Sound, WriterType
    <3>. QED BY <1>2, <1>7, <2>1, <2>2, <2>3, <3>1, <3>2 DEF Kept, WriterType
  <2>4. CASE x.oom = 0 /\ y.oom = 0
    <3>1. Kept(y)
      BY <2>1, <2>2, <2>4 DEF Kept
    <3>. QED BY <1>3, <2>2, <2>4, <3>1
  <2>5. CASE x.oom = 1 /\ y.oom = 0
    <3>. DEFINE s == Spent(y, n)
                t == Store(s, n)
    <3>1. Fused(x, n, takes, got) = wr_maybe_flush(t, takes)
      BY <1>1, <2>5
    <3>2. wr_maybe_flush(t, takes) = t
      BY <2>1 DEF wr_maybe_flush, Sink
    <3>3. s \in WriterType /\ s.len = y.len /\ s.extent = y.extent /\ s.past = y.past
      <4>. DEFINE m == IF n <= y.reserve THEN y.reserve - n ELSE 0
      <4>1. m \in Nat /\ s = [y EXCEPT !.reserve = m]
        BY <2>2 DEF WriterType, Spent
      <4>. HIDE DEF m, s
      <4>. QED BY <2>2, <4>1 DEF WriterType
    <3>. HIDE DEF s
    <3>4. t.past = 0 => s.past = 0 /\ s.len + n <= s.extent
      BY <1>2, <3>3, StoreEnds
    <3>. HIDE DEF t
    <3>5. x.past = 0 => x.extent <= x.len
      BY <2>1, <2>5 DEF Kept, Sound, WriterType
    <3>6. t.past # 0
      BY <1>2, <2>2, <2>5, <3>3, <3>4, <3>5 DEF WriterType
    <3>. QED BY <3>1, <3>2, <3>6 DEF Kept
  <2>. QED BY <2>2, <2>3, <2>4, <2>5 DEF WriterType
<1>. QED BY <1>5, <1>6, <1>7

\* A wet pass begins with nothing kept of nothing written.
LEMMA BeginEnds ==
  ASSUME NEW x \in WriterType, x.top = 0, x.oom = 0, x.lost = 0 \/ route # "grow",
         x.taken = 0 \/ route # "stream"
  PROVE  Kept(Reset(x))
<1>1. Reset(x).top = x.top /\ Reset(x).taken = x.taken
  BY DEF Reset, WriterType
<1>. QED BY <1>1, ResetFacts DEF Kept

\* The terminator follows the last byte.
LEMMA TerminateEnds ==
  ASSUME NEW x \in WriterType
  PROVE  LET y == Terminate(x, x.len)
         IN /\ y.past = 0 => x.past = 0
            /\ x.top = x.len => y.top = x.len + 1
            /\ y.lost = x.lost
<1>. DEFINE m == Most(x.top, x.len + 1)
            p == IF x.len + 1 > x.extent THEN 1 ELSE x.past
<1>1. (p = 0 => x.past = 0) /\ (x.top = x.len => m = x.len + 1)
  BY DEF Most, WriterType
<1>2. Terminate(x, x.len) = [x EXCEPT !.top = m, !.past = p]
  BY DEF Terminate, Touch
<1>. HIDE DEF m, p
<1>. QED BY <1>1, <1>2 DEF WriterType

\* A state inside a call: the answer is still to come.
LEMMA EndWhileRunning ==
  ASSUME pc' # "done", pc' # "idle",
         pc' = "dry" => w'.top = 0 /\ w'.extent = 0,
         pc' \in {"wet", "chunk"} => Kept(w)',
         (pc' = "wet" /\ route' = "pretty") => heap' = {"buffer"}
  PROVE  EndInv'
BY DEF EndInv, EndsWell, AnswersRight, NothingLeaks

\* The entry points answer with nothing allocated, or begin a pass on a cleared writer.
LEMMA EntryEnds ==
  ASSUME Inv, EndInv, Entry PROVE EndInv'
<1>1. /\ Context /\ w = Cleared /\ heap = {} /\ route' = route /\ doc' = doc /\ host' = host
  BY DEF Inv, EndInv, TypeOK, Context, Entry, SerializeIntoEx, SerializeIntoTrusted, SerializeEx,
         SerializeJson, SerializeJsonPretty, SerializeStream
<1>2. /\ w \in WriterType /\ w.top = 0 /\ w.extent = 0 /\ w.lost = 0 /\ w.taken = 0 /\ w.oom = 0
  BY <1>1 DEF Cleared, WriterType
<1>3. CASE /\ pc' = "done" /\ heap' = {} /\ w' = w
           /\ ret' = IF route \in {"grow", "pretty"} THEN Null ELSE 0
  <2>1. w'.extent = 0 /\ Null # 0 /\ NoAnswer # 0
    BY <1>2, <1>3 DEF Null, NoAnswer
  <2>2. AnswersRight'
    BY <1>1, <1>2, <1>3, <2>1 DEF AnswersRight, Null
  <2>3. NothingLeaks'
    BY <1>1, <1>3 DEF NothingLeaks
  <2>. QED BY <1>3, <2>2, <2>3 DEF EndInv, EndsWell
<1>4. CASE BeginPass("dry", w)
  <2>1. pc' = "dry" /\ w' = Reset(w)
    BY <1>4 DEF BeginPass
  <2>2. w'.top = 0 /\ w'.extent = 0
    BY <1>2, <2>1 DEF Reset, WriterType
  <2>. QED BY <2>1, <2>2, EndWhileRunning
<1>5. ASSUME NEW x \in WriterType, x.top = 0, x.oom = 0, x.lost = 0, x.taken = 0, route # "pretty",
             BeginPass("wet", x)
      PROVE  EndInv'
  <2>1. pc' = "wet" /\ w' = Reset(x)
    BY <1>5 DEF BeginPass
  <2>2. Kept(Reset(x))
    BY <1>5, BeginEnds
  <2>3. Kept(w)'
    BY <1>1, <2>1, <2>2 DEF Kept
  <2>. QED BY <1>1, <1>5, <2>1, <2>3, EndWhileRunning
<1>6. ASSUME NEW c \in Nat, route # "pretty", BeginPass("wet", [w EXCEPT !.cap = c, !.extent = c])
      PROVE  EndInv'
  <2>1. [w EXCEPT !.cap = c, !.extent = c] \in WriterType
    BY <1>2, BufferFacts
  <2>2. LET x == [w EXCEPT !.cap = c, !.extent = c]
        IN x.top = 0 /\ x.oom = 0 /\ x.lost = 0 /\ x.taken = 0
    BY <1>2 DEF WriterType
  <2>. QED BY <1>5, <1>6, <2>1, <2>2
<1>7. Est \in Nat /\ Window \in Nat /\ host \in Nat
  BY <1>1, EstAssumption, Sizes
<1>8. CASE SerializeIntoEx
  BY <1>3, <1>4, <1>8 DEF SerializeIntoEx, Answer
<1>9. CASE SerializeIntoTrusted
  BY <1>3, <1>6, <1>7, <1>9 DEF SerializeIntoTrusted, Answer
<1>10. CASE SerializeEx
  BY <1>3, <1>6, <1>7, <1>10 DEF SerializeEx, Answer
<1>11. CASE SerializeJson
  BY <1>3, <1>6, <1>7, <1>11 DEF SerializeJson, Answer
<1>12. CASE SerializeJsonPretty
  BY <1>1, <1>3, <1>4, <1>12 DEF SerializeJsonPretty, Answer
<1>13. CASE SerializeStream
  BY <1>3, <1>6, <1>7, <1>13 DEF SerializeStream, Answer
<1>. QED BY <1>8, <1>9, <1>10, <1>11, <1>12, <1>13 DEF Entry

\* The walk.
LEMMA WalkEnds ==
  ASSUME Inv, EndInv, Walk PROVE EndInv'
<1>1. /\ Context /\ rest \in Nat /\ left \in Nat /\ w \in WriterType /\ Quiet
      /\ pc \in {"dry", "wet", "chunk"}
      /\ pc \in {"wet", "chunk"} => Kept(w) /\ Sound(w, left + rest)
      /\ pc = "wet" => left = 0
      /\ pc = "dry" => w.top = 0 /\ w.extent = 0
      /\ (pc = "wet" /\ route = "pretty") => heap = {"buffer"}
      /\ pc = "chunk" => route = "stream"
  BY DEF Inv, EndInv, TypeOK, WriterInv, Context, Walk, Byte, Put, Member, Chunk
<1>2. route' = route /\ doc' = doc /\ host' = host /\ heap' = heap
  BY <1>1 DEF Quiet
<1>3. ASSUME pc = "wet" PROVE Sound(w, rest)
  <2>1. left + rest = rest
    BY <1>1, <1>3
  <2>. QED BY <1>1, <1>3, <2>1
<1>4. ASSUME NEW n \in Nat, pc = "dry", pc' = "dry", w' = Count(w, n) PROVE EndInv'
  <2>1. w'.top = 0 /\ w'.extent = 0
    BY <1>1, <1>4 DEF Count, WriterType
  <2>. QED BY <1>4, <2>1, EndWhileRunning
<1>5. ASSUME pc' \in {"wet", "chunk"}, Kept(w'), pc = "chunk" \/ pc = "wet" PROVE EndInv'
  <2>1. Kept(w)'
    BY <1>2, <1>5 DEF Kept
  <2>. QED BY <1>1, <1>2, <1>5, <2>1, EndWhileRunning
<1>6. CASE Byte
  <2>1. PICK takes \in BOOLEAN, got \in BOOLEAN :
          w' = IF Dry THEN Count(w, 1) ELSE wr_byte(w, takes, got)
    BY <1>6, WorksIsBoolean DEF Byte
  <2>2. pc' = pc /\ 1 \in 1 .. rest /\ pc \in {"dry", "wet"}
    BY <1>1, <1>6 DEF Byte
  <2>3. CASE pc = "dry"
    BY <1>4, <2>1, <2>2, <2>3 DEF Dry
  <2>4. CASE pc = "wet"
    <3>1. wr_reserve(w, 1, takes, got) \in WriterType
      BY <1>1, <1>3, <2>4, ReserveSound
    <3>2. w' = wr_put(w, 1, takes, got)
      BY <1>1, <2>1, <2>4, <3>1, ByteIsPut DEF Dry
    <3>3. Kept(w')
      BY <1>1, <1>3, <2>2, <2>4, <3>2, PutEnds
    <3>. QED BY <1>5, <2>2, <2>4, <3>3
  <2>. QED BY <2>2, <2>3, <2>4
<1>7. CASE Put
  <2>1. PICK n \in 1 .. rest, takes \in BOOLEAN, got \in BOOLEAN :
          /\ rest' = rest - n
          /\ IF ~Dry /\ Cut(w, n)
             THEN pc' = "chunk" /\ left' = n /\ UNCHANGED w
             ELSE /\ w' = IF Dry THEN Count(w, n) ELSE wr_put(w, n, takes, got)
                  /\ UNCHANGED <<pc, left>>
    BY <1>7, WorksIsBoolean DEF Put
  <2>2. pc \in {"dry", "wet"} /\ n \in Nat
    BY <1>1, <1>7 DEF Put
  <2>3. CASE pc = "dry"
    BY <1>4, <2>1, <2>2, <2>3 DEF Dry
  <2>4. CASE pc = "wet" /\ Cut(w, n)
    <3>1. pc' = "chunk" /\ w' = w
      BY <2>1, <2>4 DEF Dry
    <3>. QED BY <1>1, <1>5, <2>4, <3>1
  <2>5. CASE pc = "wet" /\ ~Cut(w, n)
    <3>1. w' = wr_put(w, n, takes, got) /\ pc' = pc
      BY <2>1, <2>5 DEF Dry
    <3>2. Kept(w')
      BY <1>1, <1>3, <2>5, <3>1, PutEnds
    <3>. QED BY <1>5, <2>5, <3>1, <3>2
  <2>. QED BY <2>2, <2>3, <2>4, <2>5
<1>8. CASE Member
  <2>1. PICK n \in 2 .. rest, takes \in BOOLEAN, got \in BOOLEAN :
          /\ Dry \/ ~Declined(w, n)
          /\ rest' = rest - n
          /\ w' = IF Dry THEN Count(w, n) ELSE Fused(w, n, takes, got)
    BY <1>8, WorksIsBoolean DEF Member
  <2>2. pc' = pc /\ n \in Nat /\ pc \in {"dry", "wet"}
    BY <1>1, <1>8 DEF Member
  <2>3. CASE pc = "dry"
    BY <1>4, <2>1, <2>2, <2>3 DEF Dry
  <2>4. CASE pc = "wet"
    <3>1. w' = Fused(w, n, takes, got) /\ ~Declined(w, n)
      BY <2>1, <2>4 DEF Dry
    <3>2. Kept(w')
      BY <1>1, <1>3, <2>4, <3>1, FusedEnds
    <3>. QED BY <1>5, <2>2, <2>4, <3>2
  <2>. QED BY <2>2, <2>3, <2>4
<1>9. CASE Chunk
  <2>1. pc = "chunk" /\ route = "stream" /\ pc' \in {"wet", "chunk"}
    BY <1>1, <1>9 DEF Chunk
  <2>2. CASE left = 0 \/ w.aborted = 1
    <3>1. w' = Count(w, left)
      BY <1>9, <2>2 DEF Chunk
    <3>2. w'.past = w.past /\ w'.taken = w.taken /\ w'.flushed = w.flushed
      BY <1>1, <3>1 DEF Count, WriterType
    <3>. QED BY <1>1, <1>5, <2>1, <3>2 DEF Kept
  <2>3. CASE ~(left = 0 \/ w.aborted = 1)
    <3>. DEFINE room == Least(Minus1(w.cap, w.len), left)
                y == Store(w, room)
    <3>1. PICK takes \in BOOLEAN : w' = IF room < left THEN CallSink(y, takes) ELSE y
      BY <1>9, <2>3, WorksIsBoolean DEF Chunk
    <3>2. room \in Nat
      BY <1>1, <2>1, <2>3, Sizes DEF Least, Minus1, Sound, WriterType
    <3>. HIDE DEF room
    <3>3. y \in WriterType /\ y.taken = w.taken /\ y.flushed = w.flushed /\ (y.past = 0 => w.past = 0)
      BY <1>1, <3>2, StoreFacts, StoreEnds
    <3>. HIDE DEF y
    <3>4. w'.past = 0 => w'.taken = w'.flushed
      <4>1. CASE room < left
        <5>1. w' = CallSink(y, takes) /\ CallSink(y, takes).past = y.past
          BY <3>1, <3>3, <4>1, SinkFacts
        <5>. QED BY <1>1, <2>1, <3>3, <5>1, SinkEnds DEF Kept
      <4>2. CASE ~(room < left)
        BY <1>1, <2>1, <3>1, <3>3, <4>2 DEF Kept
      <4>. QED BY <4>1, <4>2
    <3>. QED BY <1>5, <2>1, <3>4 DEF Kept
  <2>. QED BY <2>2, <2>3
<1>. QED BY <1>6, <1>7, <1>8, <1>9 DEF Walk

\* The measuring pass ends: too small a buffer is answered with the size, else the bytes follow.
LEMMA MeasuredEnds ==
  ASSUME Inv, EndInv, IntoMeasured \/ PrettyMeasured PROVE EndInv'
<1>1. /\ Context /\ w \in WriterType /\ w.oom = 0 /\ w.top = 0 /\ w.extent = 0
      /\ route' = route /\ doc' = doc /\ host' = host
      /\ w.len + rest = doc.total /\ rest = 0 /\ route \in {"into", "pretty"}
  BY DEF Inv, EndInv, IntoMeasured, PrettyMeasured, Done, Rest, TypeOK, WriterInv, Context
<1>2. w.len \in Nat /\ w.len = doc.total /\ host \in Nat
  BY <1>1, Sizes DEF WriterType
<1>3. ASSUME NEW c \in Nat, BeginPass("wet", [w EXCEPT !.extent = c]),
             route = "pretty" => heap' = {"buffer"}
      PROVE  EndInv'
  <2>. DEFINE x == [w EXCEPT !.extent = c]
  <2>1. x \in WriterType /\ x.top = 0 /\ x.oom = 0
    BY <1>1, <1>3, BufferFacts DEF WriterType
  <2>2. pc' = "wet" /\ w' = Reset(x)
    BY <1>3 DEF BeginPass
  <2>. HIDE DEF x
  <2>3. Kept(Reset(x))
    BY <1>1, <2>1, BeginEnds
  <2>4. Kept(w)'
    BY <1>1, <2>2, <2>3 DEF Kept
  <2>. QED BY <1>1, <1>3, <2>2, <2>4, EndWhileRunning
<1>4. CASE IntoMeasured
  <2>1. CASE host < w.len + 1
    <3>1. pc' = "done" /\ ret' = doc.total /\ heap' = {} /\ w' = w /\ route = "into"
      BY <1>2, <1>4, <2>1 DEF IntoMeasured, Answer
    <3>2. AnswersRight' /\ NothingLeaks'
      BY <1>1, <3>1 DEF AnswersRight, NothingLeaks, Null
    <3>. QED BY <3>1, <3>2 DEF EndInv, EndsWell
  <2>2. CASE ~(host < w.len + 1)
    BY <1>2, <1>3, <1>4, <2>2 DEF IntoMeasured
  <2>. QED BY <2>1, <2>2
<1>5. CASE PrettyMeasured
  <2>1. CASE heap' = {"buffer"} /\ BeginPass("wet", [w EXCEPT !.extent = w.len + 1])
    <3>1. w.len + 1 \in Nat
      BY <1>2
    <3>. QED BY <1>3, <2>1, <3>1
  <2>2. CASE heap' = {} /\ pc' = "done" /\ ret' = Null /\ w' = w
    <3>1. route = "pretty"
      BY <1>5 DEF PrettyMeasured
    <3>2. AnswersRight' /\ NothingLeaks'
      BY <1>1, <2>2, <3>1 DEF AnswersRight, NothingLeaks
    <3>. QED BY <2>2, <3>2 DEF EndInv, EndsWell
  <2>. QED BY <1>5, <2>1, <2>2 DEF PrettyMeasured, Answer
<1>. QED BY <1>4, <1>5

\* The bytes are written: every answer is true and everything but the buffer is freed.
LEMMA WrittenEnds ==
  ASSUME Inv, EndInv, IntoWritten \/ PrettyWritten \/ TrustedWritten \/ Written \/ StreamWritten
  PROVE  EndInv'
<1>1. /\ Context /\ w \in WriterType /\ route' = route /\ doc' = doc /\ host' = host
      /\ pc = "wet" /\ pc' = "done" /\ rest = 0 /\ left = 0 /\ Kept(w) /\ Sound(w, left + rest)
      /\ route = "pretty" => heap = {"buffer"}
  BY DEF Inv, EndInv, IntoWritten, PrettyWritten, TrustedWritten, Written, StreamWritten, Done, Rest,
         Answer, TypeOK, WriterInv, Context
<1>2. /\ w.len \in Nat /\ w.flushed \in Nat /\ w.flushed + w.len = doc.total
      /\ route # "stream" => w.flushed = 0 /\ w.len = doc.total
      /\ doc.total \in Nat /\ host \in Nat
  <2>1. Sound(w, 0)
    BY <1>1
  <2>. QED BY <1>1, <2>1, Sizes DEF Sound, WriterType
<1>3. SUFFICES AnswersRight' /\ NothingLeaks'
  BY <1>1 DEF EndInv, EndsWell
<1>4. Null # doc.total /\ Null # 0
  BY <1>2 DEF Null
<1>5. ASSUME route # "stream", route # "grow", w' = Terminate(w, w.len), ret' = w.len
      PROVE  AnswersRight'
  <2>1. /\ w'.past = 0 => w.past = 0
        /\ w.top = w.len => w'.top = doc.total + 1
    BY <1>1, <1>2, <1>5, TerminateEnds
  <2>2. (w'.past = 0 /\ route \in {"into", "pretty"}) => w'.top = doc.total + 1
    BY <1>1, <2>1 DEF Kept
  <2>3. (w'.past = 0 /\ route = "trusted" /\ doc.total < host) => w'.top = doc.total + 1
    BY <1>1, <2>1 DEF Kept
  <2>. QED BY <1>1, <1>2, <1>4, <1>5, <2>2, <2>3 DEF AnswersRight, NeverPastTheBuffer
<1>6. CASE IntoWritten
  <2>1. AnswersRight'
    BY <1>5, <1>6 DEF IntoWritten, Answer
  <2>2. heap' = {} /\ route' = "into"
    BY <1>1, <1>6 DEF IntoWritten
  <2>. QED BY <2>1, <2>2 DEF NothingLeaks
<1>7. CASE PrettyWritten
  <2>1. AnswersRight'
    BY <1>5, <1>7 DEF PrettyWritten, Answer
  <2>2. heap' = {"buffer"} /\ route' = "pretty" /\ ret' # Null
    BY <1>1, <1>2, <1>4, <1>7 DEF PrettyWritten, Answer
  <2>. QED BY <2>1, <2>2 DEF NothingLeaks
<1>8. CASE TrustedWritten
  <2>1. heap' = {} /\ route = "trusted" /\ ret' = w.len
    BY <1>8 DEF TrustedWritten, Answer
  <2>2. CASE w.oom = 1 \/ doc.unser
    <3>1. w' = w
      BY <1>8, <2>2 DEF TrustedWritten
    <3>2. (w.past = 0 /\ doc.total < host) => doc.unser
      BY <1>1, <2>1, <2>2 DEF Kept
    <3>. QED BY <1>1, <1>2, <1>4, <2>1, <3>1, <3>2 DEF AnswersRight, NothingLeaks, NeverPastTheBuffer
  <2>3. CASE ~(w.oom = 1 \/ doc.unser)
    <3>1. w' = Terminate(w, w.len)
      BY <1>8, <2>3 DEF TrustedWritten
    <3>2. AnswersRight'
      BY <1>5, <2>1, <3>1
    <3>. QED BY <1>1, <2>1, <3>2 DEF NothingLeaks
  <2>. QED BY <2>2, <2>3
<1>9. CASE Written
  <2>1. route = "grow"
    BY <1>9 DEF Written
  <2>2. CASE w.oom = 1 \/ doc.unser
    <3>1. heap' = {} /\ ret' = Null
      BY <1>9, <2>2 DEF Written, Answer
    <3>. QED BY <1>1, <2>1, <3>1 DEF AnswersRight, NothingLeaks
  <2>3. CASE ~(w.oom = 1 \/ doc.unser)
    <3>. DEFINE x == [w EXCEPT !.extent = w.len + 1]
    <3>1. /\ heap' = {"buffer"} /\ ret' = w.len
          /\ w' = Terminate(x, w.len) \/ w' = Terminate(w, w.len)
      BY <1>9, <2>3 DEF Written, Answer
    <3>2. x \in WriterType /\ x.len = w.len /\ x.top = w.top /\ x.past = w.past /\ x.lost = w.lost
      BY <1>1, <1>2 DEF WriterType
    <3>. HIDE DEF x
    <3>3. /\ w'.past = 0 => w.past = 0
          /\ w.top = w.len => w'.top = doc.total + 1
          /\ w'.lost = w.lost
      <4>1. CASE w' = Terminate(x, w.len)
        <5>1. w' = Terminate(x, x.len)
          BY <3>2, <4>1
        <5>. QED BY <1>2, <2>1, <3>2, <5>1, TerminateEnds
      <4>2. CASE w' = Terminate(w, w.len)
        BY <1>1, <1>2, <2>1, <4>2, TerminateEnds
      <4>. QED BY <3>1, <4>1, <4>2
    <3>4. w.past = 0 => w.lost = 0 /\ w.top = w.len
      BY <1>1, <2>1, <2>3 DEF Kept, WriterType
    <3>. QED BY <1>1, <1>2, <1>4, <2>1, <2>3, <3>1, <3>3, <3>4
         DEF AnswersRight, NothingLeaks, NeverPastTheBuffer
  <2>. QED BY <2>2, <2>3
<1>10. CASE StreamWritten
  <2>1. route = "stream" /\ heap' = {}
    BY <1>10 DEF StreamWritten
  <2>2. PICK takes \in BOOLEAN :
          LET x == IF w.len = 0 \/ w.aborted = 1 THEN w
                   ELSE IF takes THEN [w EXCEPT !.taken = @ + w.len]
                   ELSE [w EXCEPT !.aborted = 1]
          IN w' = x /\ ret' = IF x.aborted = 1 THEN 0 ELSE w.flushed + w.len
    BY <1>10, WorksIsBoolean DEF StreamWritten, Answer
  <2>3. ret' \in {0, doc.total}
    BY <1>2, <2>2
  <2>4. (w'.past = 0 /\ ret' # 0) => w'.taken = doc.total
    <3>1. w.past = 0 => w.taken = w.flushed
      BY <1>1, <2>1 DEF Kept
    <3>2. CASE w.len = 0 \/ w.aborted = 1
      <4>1. w' = w /\ (ret' # 0 => w.len = 0)
        BY <2>2, <3>2
      <4>. QED BY <1>2, <3>1, <4>1
    <3>3. CASE ~(w.len = 0 \/ w.aborted = 1) /\ takes
      <4>1. w' = [w EXCEPT !.taken = w.taken + w.len]
        BY <2>2, <3>3
      <4>2. w'.past = w.past /\ w'.taken = w.taken + w.len
        BY <1>1, <4>1 DEF WriterType
      <4>. QED BY <1>2, <3>1, <4>2
    <3>4. CASE ~(w.len = 0 \/ w.aborted = 1) /\ ~takes
      <4>1. [w EXCEPT !.aborted = 1].aborted = 1
        BY <1>1 DEF WriterType
      <4>. QED BY <2>2, <3>4, <4>1
    <3>. QED BY <3>2, <3>3, <3>4
  <2>. QED BY <1>1, <2>1, <2>3, <2>4 DEF AnswersRight, NothingLeaks, NeverPastTheBuffer
<1>. QED BY <1>6, <1>7, <1>8, <1>9, <1>10

\* Every step keeps what a finished call promises within reach.
LEMMA StepEnds ==
  ASSUME Inv, EndInv, [Next]_vars PROVE EndInv'
<1>1. CASE Entry
  BY <1>1, EntryEnds
<1>2. CASE Walk
  BY <1>2, WalkEnds
<1>3. CASE Exit
  BY <1>3, MeasuredEnds, WrittenEnds DEF Exit
<1>4. CASE UNCHANGED vars
  BY <1>4 DEF vars, EndInv, EndsWell, AnswersRight, NothingLeaks, NeverPastTheBuffer, Kept
<1>. QED BY <1>1, <1>2, <1>3, <1>4 DEF Next, Idle

\* A serialize call that is over has told its host the truth, whatever failed: its size is the
\* document's, the buffer it returns holds every byte and the terminator, a lost growth returns
\* none, a stream counts as written when the sink took every byte, and nothing but the returned
\* buffer stays allocated (emit.c, writer.c), for documents, buffers and windows of every size.
THEOREM EndsWellAlways == Spec => []EndsWell
<1>1. Init => Inv /\ EndInv
  <2>1. Init => Inv
    BY InitInv
  <2>2. Init => EndInv
    BY DEF Init, EndInv, EndsWell, AnswersRight, NothingLeaks
  <2>. QED BY <2>1, <2>2
<1>2. (Inv /\ EndInv) /\ [Next]_vars => (Inv /\ EndInv)'
  BY StepInv, StepEnds
<1>3. Inv /\ EndInv => EndsWell
  BY DEF EndInv
<1>. QED BY <1>1, <1>2, <1>3, PTL DEF Spec
=============================================================================
