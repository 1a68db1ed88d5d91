---------------------------- MODULE AnchorsProofs ---------------------------
(***************************************************************************)
(* The name table is right for every size, load and hash, and with it the  *)
(* anchors of the engine and the canonical names of the emitter.           *)
(*                                                                         *)
(* Table(t) says what a table value must be: every used slot answers for   *)
(* one name, no name has two slots, probing from the hash of a name passes *)
(* only used slots on its way to its slot, the used slots are as many as   *)
(* count says and fewer than cap.  Lookups, overwriting, inserting and     *)
(* growing are shown to keep it and to change one answer, or none; the     *)
(* moves of a growth are taken one by one, by induction.  IInv adds what   *)
(* the stream said.                                                        *)
(***************************************************************************)
EXTENDS Anchors, NatRecursion, FiniteSetTheorems, TLAPS

-----------------------------------------------------------------------------
(* Remainders.                                                             *)

\* A remainder is what is left of a number after a multiple is taken away, ...
LEMMA ModIs ==
  ASSUME NEW c \in Nat \ {0}, NEW q \in Int, NEW r \in 0 .. c - 1
  PROVE  (q * c + r) % c = r
  OBVIOUS

\* ... is smaller than the divisor ...
LEMMA ModRange ==
  ASSUME NEW x \in Nat, NEW c \in Nat \ {0}
  PROVE  x % c \in 0 .. c - 1
  OBVIOUS

\* ... and every number is a multiple and a remainder.
LEMMA ModSplit ==
  ASSUME NEW x \in Nat, NEW c \in Nat \ {0}
  PROVE  \E q \in Nat, r \in 0 .. c - 1 : x = q * c + r
  <1>1. x \div c \in Int
    OBVIOUS
  <1>2. x % c = x - c * (x \div c)
    OBVIOUS
  <1>3. x % c \in 0 .. c - 1
    OBVIOUS
  <1>4. ASSUME NEW q \in Int, NEW r \in 0 .. c - 1, r = x - c * q PROVE q \in Nat /\ x = q * c + r
    <2>1. CASE q < 0
      <3>1. c * q <= c * (0 - 1)
        BY <2>1
      <3> QED
        BY <1>4, <3>1
    <2> QED
      BY <2>1, <1>4
  <1> DEFINE p == x \div c
             m == x % c
  <1>5. p \in Int /\ m = x - c * p /\ m \in 0 .. c - 1
    BY <1>1, <1>2, <1>3
  <1> HIDE DEF p, m
  <1> QED
    BY <1>4, <1>5

\* Every slot is reached by probing on from every hash.
LEMMA ProbeReaches ==
  ASSUME NEW h \in Nat, NEW c \in Nat \ {0}, NEW j \in 0 .. c - 1
  PROVE  \E d \in 0 .. c - 1 : (h + d) % c = j
  <1>2. PICK q \in Nat, r \in 0 .. c - 1 : h = q * c + r
    BY ModSplit
  <1>3. CASE r <= j
    <2>1. (q * c + j) % c = j
      BY ModIs
    <2>2. h + (j - r) = q * c + j /\ j - r \in 0 .. c - 1
      BY <1>2, <1>3
    <2> QED
      BY <2>1, <2>2
  <1>4. CASE r > j
    <2>1. ((q + 1) * c + j) % c = j
      BY ModIs
    <2>2. (q + 1) * c = q * c + c
      OBVIOUS
    <2>3. h + (j - r + c) = (q + 1) * c + j /\ j - r + c \in 0 .. c - 1
      BY <1>2, <1>4, <2>2
    <2> QED
      BY <2>1, <2>3
  <1> QED
    BY <1>3, <1>4

\* Probing from hash ends at a stop, d steps on, and passes none before it.
ProbeEnds(cap, hash, stops, j) ==
  \E d \in 0 .. cap - 1 :
    j = (hash + d) % cap /\ \A e \in 0 .. d - 1 : (hash + e) % cap \notin stops

\* Probing for a set of stops ends at the first of them.
LEMMA ProbeFinds ==
  ASSUME NEW cap \in Nat \ {0}, NEW hash \in Nat, NEW stops \in SUBSET (0 .. cap - 1), stops # {}
  PROVE  /\ Probe(cap, hash, stops) \in stops
         /\ ProbeEnds(cap, hash, stops, Probe(cap, hash, stops))
  <1> DEFINE hits == {d \in 0 .. cap - 1 : (hash + d) % cap \in stops}
             m == CHOOSE d \in hits : \A e \in hits : d <= e
  <1>1. hits # {} /\ hits \in SUBSET Nat
    <2>1. PICK j \in 0 .. cap - 1 : j \in stops
      OBVIOUS
    <2>2. PICK d \in 0 .. cap - 1 : (hash + d) % cap = j
      BY ProbeReaches
    <2>3. d \in hits
      BY <2>1, <2>2
    <2>4. hits \in SUBSET Nat
      OBVIOUS
    <2> HIDE DEF hits
    <2> QED
      BY <2>3, <2>4
  <1>2. m \in hits /\ \A e \in hits : m <= e
    <2> HIDE DEF hits
    <2>1. \E d \in hits : \A e \in hits : d <= e
      BY <1>1, LeastNat
    <2> QED
      BY <2>1
  <1>3. Probe(cap, hash, stops) = (hash + m) % cap
    BY <1>1 DEF Probe
  <1> HIDE DEF m
  <1>4. ASSUME NEW e \in 0 .. m - 1 PROVE (hash + e) % cap \notin stops
    <2>1. m \in 0 .. cap - 1
      BY <1>2
    <2>2. e \in 0 .. cap - 1 /\ ~(m <= e)
      BY <2>1
    <2>3. e \notin hits
      <3> HIDE DEF hits
      <3> QED
        BY <1>2, <2>2
    <2> QED
      BY <2>2, <2>3
  <1>5. m \in 0 .. cap - 1 /\ (hash + m) % cap \in stops
    BY <1>2
  <1> QED
    BY <1>3, <1>4, <1>5 DEF ProbeEnds

\* The doublings reach what they are asked for.
LEMMA DoubledReaches ==
  ASSUME NEW base \in Nat \ {0}, NEW need \in Nat
  PROVE  Doubled(base, need) \in Nat \ {0} /\ Doubled(base, need) >= need
  <1> DEFINE size == CHOOSE f : f = [k \in Nat |-> IF k = 0 THEN base ELSE 2 * f[k - 1]]
             g == [x \in Nat |-> 2 * x]
             reached == {k \in Nat : size[k] >= need}
             at == CHOOSE k \in 0 .. need : size[k] >= need /\ \A i \in 0 .. k - 1 : size[i] < need
  <1>1. PICK f \in [Nat -> Nat] : f[0] = base /\ \A k \in Nat : f[k + 1] = g[f[k]]
    <2> DEFINE S == Nat
               a == base
    <2>1. g \in [S -> S]
      OBVIOUS
    <2>a. a \in S
      OBVIOUS
    <2>2. \E f \in [Nat -> S] : f[0] = a /\ \A k \in Nat : f[k + 1] = g[f[k]]
      <3> HIDE DEF S, g, a
      <3> QED
        BY ONLY <2>1, <2>a, Iterate
    <2> QED
      BY <2>2
  <1>2. f = [k \in Nat |-> IF k = 0 THEN base ELSE 2 * f[k - 1]]
    <2>1. ASSUME NEW k \in Nat, k # 0 PROVE f[k] = 2 * f[k - 1]
      <3>1. k - 1 \in Nat /\ (k - 1) + 1 = k
        BY <2>1
      <3>2. f[k] = g[f[k - 1]] /\ f[k - 1] \in Nat
        BY <1>1, <3>1
      <3> QED
        BY <3>2
    <2> QED
      BY <1>1, <2>1
  <1>3. size = [k \in Nat |-> IF k = 0 THEN base ELSE 2 * size[k - 1]]
    BY <1>2
  <1>4. Doubled(base, need) = size[at]
    BY DEF Doubled
  <1> HIDE DEF size
  <1>5. size[0] = base /\ \A k \in Nat : size[k + 1] = 2 * size[k]
    BY <1>3
  <1>6. \A k \in Nat : size[k] \in Nat /\ size[k] >= k + 1
    <2> DEFINE T == {k \in Nat : size[k] \in Nat /\ size[k] >= k + 1}
    <2>1. 0 \in T
      BY <1>5
    <2>2. ASSUME NEW k \in Nat, k \in T PROVE k + 1 \in T
      BY <1>5, <2>2
    <2>3. Nat \subseteq T
      <3> HIDE DEF T
      <3> QED
        BY <2>1, <2>2, SetInduction
    <2> QED
      BY <2>3
  <1>7. at \in 0 .. need /\ size[at] >= need
    <2>1. reached \in SUBSET Nat /\ need \in reached
      BY <1>6
    <2>2. PICK m \in reached : \A k \in reached : m <= k
      <3> HIDE DEF reached
      <3> QED
        BY <2>1, LeastNat
    <2>3. m \in 0 .. need /\ size[m] >= need
      BY <2>1, <2>2
    <2>4. ASSUME NEW i \in 0 .. m - 1 PROVE size[i] < need
      <3>1. i \in Nat /\ i < m /\ i \notin reached
        BY <2>2, <2>3
      <3> QED
        BY <1>6, <3>1
    <2>5. \E k \in 0 .. need : size[k] >= need /\ \A i \in 0 .. k - 1 : size[i] < need
      BY <2>3, <2>4
    <2> QED
      BY <2>5
  <1> HIDE DEF at
  <1> QED
    BY <1>4, <1>6, <1>7

-----------------------------------------------------------------------------
(* Names and their hashes.                                                 *)

\* A name is a sequence of at least one byte.
LEMMA NamesTyped ==
  ASSUME NEW n \in Names
  PROVE  n \in Seq(Nat) /\ Len(n) \in Nat \ {0}
  <1> DEFINE B == 0 .. 255
  <1>1. n \in Seq(B) /\ Len(n) > 0
    BY NamesAssumption
  <1>2. \A x \in B : x \in Nat
    OBVIOUS
  <1> HIDE DEF B
  <1>3. Len(n) \in Nat /\ \A i \in 1 .. Len(n) : n[i] \in Nat
    BY <1>1, <1>2
  <1>4. n = [i \in 1 .. Len(n) |-> n[i]]
    BY <1>1
  <1> DEFINE len == Len(n)
  <1>5. len \in Nat /\ n \in [1 .. len -> Nat]
    BY <1>3, <1>4
  <1> HIDE DEF len
  <1>6. n \in Seq(Nat)
    BY <1>5
  <1> QED
    BY <1>1, <1>3, <1>6

\* The eight bytes of a word are numbers.
LEMMA WordTyped ==
  ASSUME NEW s \in Seq(Nat)
  PROVE  Word(s) \in [1 .. 8 -> Nat]
  <1>1. \A i \in 1 .. 8 : i <= Len(s) => s[i] \in Nat
    OBVIOUS
  <1> QED
    BY <1>1 DEF Word

\* Part of a sequence is a sequence.
LEMMA SubTyped ==
  ASSUME NEW s \in Seq(Nat), NEW a \in Nat \ {0}, NEW b \in Nat, b <= Len(s)
  PROVE  SubSeq(s, a, b) \in Seq(Nat) /\ Len(SubSeq(s, a, b)) = IF a <= b THEN b - a + 1 ELSE 0
  <1>1. CASE a <= b
    BY <1>1
  <1>2. CASE a > b
    <2>1. SubSeq(s, a, b) = << >>
      BY <1>2
    <2> QED
      BY <2>1, <1>2
  <1> QED
    BY <1>1, <1>2

\* The loads of load_small stay inside the name.
LEMMA LoadTyped ==
  ASSUME NEW p \in Seq(Nat), NEW n \in 1 .. 8, n <= Len(p)
  PROVE  load_small(p, n) \in [1 .. 8 -> Nat]
  <1> DEFINE bit(b) == (n \div b) % 2
             w4 == SubSeq(p, 1, 4 * bit(4))
             w2 == SubSeq(p, Len(w4) + 1, Len(w4) + 2 * bit(2))
             w1 == SubSeq(p, Len(w4) + Len(w2) + 1, Len(w4) + Len(w2) + bit(1))
  <1>1. bit(4) \in 0 .. 1 /\ bit(2) \in 0 .. 1 /\ bit(1) \in 0 .. 1
        /\ 4 * bit(4) + 2 * bit(2) + bit(1) <= n
    OBVIOUS
  <1>2. load_small(p, n) = Word(w1 \o w2 \o w4)
    BY DEF load_small
  <1> HIDE DEF bit
  <1>3. w4 \in Seq(Nat) /\ Len(w4) = 4 * bit(4)
    BY <1>1, SubTyped
  <1> HIDE DEF w4
  <1>a. /\ Len(w4) + 1 \in Nat \ {0}
        /\ Len(w4) + 2 * bit(2) \in Nat /\ Len(w4) + 2 * bit(2) <= Len(p)
    BY <1>1, <1>3
  <1>4. w2 \in Seq(Nat) /\ Len(w2) = 2 * bit(2)
    <2> DEFINE a == Len(w4) + 1
               b == Len(w4) + 2 * bit(2)
    <2>1. a \in Nat \ {0} /\ b \in Nat /\ b <= Len(p) /\ w2 = SubSeq(p, a, b)
      BY <1>a
    <2>2. (IF a <= b THEN b - a + 1 ELSE 0) = 2 * bit(2)
      BY <1>1, <1>3
    <2> HIDE DEF a, b, w2
    <2> QED
      BY <2>1, <2>2, SubTyped
  <1> HIDE DEF w2
  <1>5. w1 \in Seq(Nat)
    <2> DEFINE a == Len(w4) + Len(w2) + 1
               b == Len(w4) + Len(w2) + bit(1)
    <2>a. \A x, y, z, l \in Nat : x \in 0 .. 1 /\ y \in 0 .. 1 /\ z \in 0 .. 1 /\ n <= l
              /\ 4 * x + 2 * y + z <= n
              => /\ 4 * x + 2 * y + 1 \in Nat \ {0}
                 /\ 4 * x + 2 * y + z \in Nat /\ 4 * x + 2 * y + z <= l
      OBVIOUS
    <2>b. Len(p) \in Nat /\ bit(4) \in Nat /\ bit(2) \in Nat /\ bit(1) \in Nat
      <3>1. \A x \in 0 .. 1 : x \in Nat
        OBVIOUS
      <3>2. Len(p) \in Nat
        OBVIOUS
      <3> QED
        BY <1>1, <3>1, <3>2, Zenon
    <2>c. a = 4 * bit(4) + 2 * bit(2) + 1 /\ b = 4 * bit(4) + 2 * bit(2) + bit(1)
      BY <1>3, <1>4
    <2>1. a \in Nat \ {0} /\ b \in Nat /\ b <= Len(p) /\ w1 = SubSeq(p, a, b)
      <3>1. a \in Nat \ {0} /\ b \in Nat /\ b <= Len(p)
        <4> HIDE DEF a, b
        <4> QED
          BY <1>1, <2>a, <2>b, <2>c
      <3> QED
        BY <3>1
    <2> HIDE DEF a, b, w1
    <2> QED
      BY <2>1, SubTyped
  <1> HIDE DEF w1
  <1>6. w1 \o w2 \o w4 \in Seq(Nat)
    BY <1>3, <1>4, <1>5
  <1> QED
    BY <1>2, <1>6, WordTyped

\* A round of the hash gives a number.
LEMMA RoundTyped ==
  ASSUME NEW h \in Nat, NEW w \in [1 .. 8 -> Nat]
  PROVE  hash_round(h, w) \in Nat
  <1>1. /\ w[1] \in Nat /\ w[2] \in Nat /\ w[3] \in Nat /\ w[4] \in Nat
        /\ w[5] \in Nat /\ w[6] \in Nat /\ w[7] \in Nat /\ w[8] \in Nat
    OBVIOUS
  <1> DEFINE x == 3 * h + w[1] + 2 * w[2] + 3 * w[3] + 4 * w[4] + 5 * w[5] + 6 * w[6] + 7 * w[7]
                  + 8 * w[8]
  <1>2. x \in Nat
    BY <1>1
  <1>3. hash_round(h, w) = x % HashRange
    BY DEF hash_round
  <1> HIDE DEF x
  <1>4. x % HashRange \in 0 .. HashRange - 1 /\ HashRange \in Nat
    BY <1>2, ModRange, NameTableAssumption
  <1> QED
    BY <1>3, <1>4

\* Every name has a hash.
LEMMA HashTyped ==
  ASSUME NEW n \in Names
  PROVE  ViewHash[n] \in Nat
  <1>1. n \in Seq(Nat) /\ Len(n) \in Nat \ {0}
    BY NamesTyped
  <1>2. ViewHash[n] = yep_view_hash(n)
    BY DEF ViewHash
  <1>3. CASE Len(n) <= 8
    <2>1. yep_view_hash(n) = hash_round(Len(n), load_small(n, Len(n)))
      BY <1>3 DEF yep_view_hash
    <2>2. load_small(n, Len(n)) \in [1 .. 8 -> Nat]
      <3> DEFINE k == Len(n)
      <3>a. k \in Nat \ {0} /\ k <= 8
        BY <1>1, <1>3
      <3>b. k \in 1 .. 8 /\ k <= k
        <4> HIDE DEF k
        <4> QED
          BY ONLY <3>a
      <3>1. k \in 1 .. 8 /\ k <= Len(n) /\ n \in Seq(Nat)
        BY <1>1, <3>b, Zenon
      <3>2. load_small(n, k) \in [1 .. 8 -> Nat]
        <4> HIDE DEF k
        <4> QED
          BY ONLY <3>1, LoadTyped
      <3> QED
        BY <3>2
    <2> QED
      BY <1>1, <1>2, <2>1, <2>2, RoundTyped
  <1>4. CASE Len(n) > 8
    <2> DEFINE first == Word(SubSeq(n, 1, 8))
               once == hash_round(Len(n), first)
    <2>1. once \in Nat
      <3>1. SubSeq(n, 1, 8) \in Seq(Nat)
        <4>1. 8 <= Len(n) /\ 8 \in Nat /\ 1 \in Nat \ {0}
          BY <1>1, <1>4
        <4> QED
          BY <1>1, <4>1, SubTyped
      <3>2. first \in [1 .. 8 -> Nat]
        BY <3>1, WordTyped
      <3> HIDE DEF first
      <3> QED
        BY <1>1, <3>2, RoundTyped
    <2>2. CASE Len(n) <= 16
      <3> DEFINE rest == SubSeq(n, 9, Len(n))
      <3>1. yep_view_hash(n) = hash_round(once, load_small(rest, Len(n) - 8))
        BY <1>1, <1>4, <2>2 DEF yep_view_hash
      <3>2. rest \in Seq(Nat) /\ Len(rest) = Len(n) - 8
        BY <1>1, <1>4, SubTyped
      <3> HIDE DEF rest, once
      <3>3. load_small(rest, Len(n) - 8) \in [1 .. 8 -> Nat]
        <4> DEFINE k == Len(n) - 8
        <4>a. \A l \in Nat : l > 8 /\ l <= 16 => l - 8 \in 1 .. 8 /\ l - 8 <= l - 8
          OBVIOUS
        <4>b. Len(n) \in Nat /\ Len(n) > 8 /\ Len(n) <= 16
          BY <1>1, <1>4, <2>2
        <4>c. k \in 1 .. 8 /\ k <= k
          BY <4>a, <4>b, Zenon
        <4>1. k \in 1 .. 8 /\ k <= Len(rest) /\ rest \in Seq(Nat)
          BY <4>c, <3>2, Zenon
        <4>2. load_small(rest, k) \in [1 .. 8 -> Nat]
          <5> HIDE DEF k
          <5> QED
            BY ONLY <4>1, LoadTyped
        <4> QED
          BY <4>2
      <3> QED
        BY <1>2, <2>1, <3>1, <3>3, RoundTyped
    <2>3. CASE Len(n) > 16
      <3> DEFINE tail == SubSeq(n, Len(n) - 7, Len(n))
      <3>1. yep_view_hash(n) = hash_round(once, Word(tail))
        BY <1>1, <1>4, <2>3 DEF yep_view_hash
      <3>2. tail \in Seq(Nat)
        BY <1>1, <2>3, SubTyped
      <3> HIDE DEF tail, once
      <3>3. Word(tail) \in [1 .. 8 -> Nat]
        BY <3>2, WordTyped
      <3> QED
        BY <1>2, <2>1, <3>1, <3>3, RoundTyped
    <2> QED
      BY <1>1, <2>2, <2>3
  <1> QED
    BY <1>1, <1>3, <1>4

-----------------------------------------------------------------------------
(* What makes a table sound: every used slot answers for one name, no name  *)
(* has two slots, and probing for a name passes only used slots on its way. *)

\* A short name is packed into its prefix without loss (nametab.c:135-137 "lossless
\* for <=8-byte keys"): true of the lengths 1, 2 and 4, and what the two findings of
\* the README on names of 3 and of 5 to 8 bytes are about.
Rebuilds == \A n \in Names : Len(n) <= 8 => Rebuilt(Prefix[n], Len(n)) = n

Slot == [klen1 : Nat, prefix : {Word(<<>>)} \cup {Prefix[n] : n \in Names}, val : Nat]

Used(cap, slots) == {j \in 0 .. cap - 1 : slots[j].klen1 # 0}

Path(cap, slots, hash, j) ==
  \E d \in 0 .. cap - 1 :
    j = (hash + d) % cap /\ \A e \in 0 .. d - 1 : (hash + e) % cap \in Used(cap, slots)

\* A slot is that of a name: it answers for it, and a long name's entry exists.
Owns(keys, slot, n) == Answers(keys, slot, n) /\ (slot.klen1 > 9 => slot.val \in 1 .. Len(keys))

Owned(cap, slots, keys) ==
  \A j \in Used(cap, slots) : \E n \in Names : Owns(keys, slots[j], n)

OnceEach(cap, slots, keys) ==
  \A j, k \in Used(cap, slots), n \in Names :
    Answers(keys, slots[j], n) /\ Answers(keys, slots[k], n) => j = k

Reached(cap, slots, keys) ==
  \A j \in Used(cap, slots), n \in Names :
    Answers(keys, slots[j], n) => Path(cap, slots, ViewHash[n], j)

Sound(cap, slots, keys) ==
  /\ slots \in [0 .. cap - 1 -> Slot]
  /\ Owned(cap, slots, keys)
  /\ OnceEach(cap, slots, keys)
  /\ Reached(cap, slots, keys)

\* No used slot answers for n.
Missing(cap, slots, keys, n) == \A j \in Used(cap, slots) : ~Answers(keys, slots[j], n)

\* A slot answers for one name only.
LEMMA OneName ==
  ASSUME Rebuilds, NEW keys, NEW s \in Slot, NEW m \in Names, NEW n \in Names,
         Answers(keys, s, m), Answers(keys, s, n)
  PROVE  m = n
  <1>1. Len(m) \in Nat /\ Len(n) \in Nat
    BY NamesTyped
  <1>2. s.klen1 = Len(m) + 1 /\ s.klen1 = Len(n) + 1 /\ Prefix[m] = Prefix[n]
    BY DEF Answers
  <1>3. Len(m) = Len(n)
    <2> DEFINE a == Len(m)
               b == Len(n)
    <2>1. a \in Nat /\ b \in Nat /\ a + 1 = b + 1
      BY <1>1, <1>2
    <2>2. a = b
      <3> HIDE DEF a, b
      <3> QED
        BY <2>1
    <2> QED
      BY <2>2
  <1>4. CASE Inline(s)
    <2>1. Len(m) <= 8
      BY <1>1, <1>2, <1>4 DEF Inline
    <2>2. Rebuilt(Prefix[m], Len(m)) = m /\ Rebuilt(Prefix[n], Len(n)) = n
      BY <1>3, <2>1 DEF Rebuilds
    <2> QED
      BY <1>2, <1>3, <2>2
  <1>5. CASE ~Inline(s)
    BY <1>5 DEF Answers
  <1> QED
    BY <1>4, <1>5

\* A path stays a path when more slots are used.
LEMMA PathGrows ==
  ASSUME NEW cap, NEW slots, NEW more, NEW hash, NEW j,
         Used(cap, slots) \subseteq Used(cap, more), Path(cap, slots, hash, j)
  PROVE  Path(cap, more, hash, j)
  BY DEF Path

\* The slot s of the new name n may be put at j, where the probing for it ends.
Fits(cap, slots, keys, n, j, s) ==
  /\ cap \in Nat \ {0} /\ Sound(cap, slots, keys)
  /\ n \in Names /\ Missing(cap, slots, keys, n)
  /\ j \in 0 .. cap - 1 /\ j \notin Used(cap, slots) /\ Path(cap, slots, ViewHash[n], j)
  /\ s \in Slot /\ s.klen1 # 0 /\ Owns(keys, s, n)

PutIn(cap, slots, keys, j, s) ==
  /\ Sound(cap, [slots EXCEPT ![j] = s], keys)
  /\ Used(cap, [slots EXCEPT ![j] = s]) = Used(cap, slots) \cup {j}

\* Putting the slot of a new name where the probing for it ends keeps a table sound.
LEMMA PlaceSound ==
  ASSUME Rebuilds, NEW cap, NEW slots, NEW keys, NEW n, NEW j, NEW s, Fits(cap, slots, keys, n, j, s)
  PROVE  PutIn(cap, slots, keys, j, s)
  <1> DEFINE more == [slots EXCEPT ![j] = s]
             U == Used(cap, slots)
             V == Used(cap, more)
  <1>a. /\ cap \in Nat \ {0} /\ Sound(cap, slots, keys)
        /\ n \in Names /\ Missing(cap, slots, keys, n)
        /\ j \in 0 .. cap - 1 /\ j \notin Used(cap, slots) /\ Path(cap, slots, ViewHash[n], j)
        /\ s \in Slot /\ s.klen1 # 0 /\ Owns(keys, s, n)
    BY DEF Fits
  <1>1. slots \in [0 .. cap - 1 -> Slot]
    BY <1>a DEF Sound
  <1>2. more \in [0 .. cap - 1 -> Slot] /\ more[j] = s
        /\ \A k \in 0 .. cap - 1 : k # j => more[k] = slots[k]
    BY <1>a, <1>1
  <1> HIDE DEF more
  <1>3. V = U \cup {j} /\ U \subseteq 0 .. cap - 1
    BY <1>a, <1>1, <1>2 DEF Used
  <1>4. \A k \in U : more[k] = slots[k]
    BY <1>a, <1>2, <1>3
  <1>5. Answers(keys, s, n)
    BY <1>a DEF Owns
  <1> HIDE DEF U, V
  <1>6. Owned(cap, more, keys)
    <2>1. ASSUME NEW k \in V PROVE \E m \in Names : Owns(keys, more[k], m)
      <3>1. CASE k = j
        BY <1>a, <1>2, <3>1
      <3>2. CASE k \in U
        BY <1>a, <1>4, <3>2 DEF Sound, Owned, U
      <3> QED
        BY <1>a, <1>3, <2>1, <3>1, <3>2
    <2> QED
      BY <1>a, <2>1 DEF Owned, V
  <1>7. OnceEach(cap, more, keys)
    <2>1. ASSUME NEW a \in V, NEW b \in V, NEW m \in Names,
                 Answers(keys, more[a], m), Answers(keys, more[b], m)
          PROVE  a = b
      <3>1. CASE a \in U /\ b \in U
        BY <1>a, <1>4, <2>1, <3>1 DEF Sound, OnceEach, U
      <3>2. CASE a = j /\ b \in U
        <4>1. m = n
          BY <1>a, <1>2, <1>5, <2>1, <3>2, OneName
        <4> QED
          BY <1>a, <1>4, <2>1, <3>2, <4>1 DEF Missing, U
      <3>3. CASE a \in U /\ b = j
        <4>1. m = n
          BY <1>a, <1>2, <1>5, <2>1, <3>3, OneName
        <4> QED
          BY <1>a, <1>4, <2>1, <3>3, <4>1 DEF Missing, U
      <3> QED
        BY <1>a, <1>3, <2>1, <3>1, <3>2, <3>3
    <2> QED
      BY <1>a, <2>1 DEF OnceEach, V
  <1>8. Reached(cap, more, keys)
    <2>1. \A h, k : Path(cap, slots, h, k) => Path(cap, more, h, k)
      <3>1. Used(cap, slots) \subseteq Used(cap, more)
        BY <1>a, <1>3 DEF U, V
      <3> QED
        BY <1>a, <3>1, PathGrows
    <2>2. ASSUME NEW k \in V, NEW m \in Names, Answers(keys, more[k], m)
          PROVE  Path(cap, more, ViewHash[m], k)
      <3>1. CASE k = j
        <4>1. m = n
          BY <1>a, <1>2, <1>5, <2>2, <3>1, OneName
        <4> QED
          BY <1>a, <2>1, <3>1, <4>1
      <3>2. CASE k \in U
        BY <1>a, <1>4, <2>1, <2>2, <3>2 DEF Sound, Reached, U
      <3> QED
        BY <1>a, <1>3, <2>2, <3>1, <3>2
    <2> QED
      BY <1>a, <2>2 DEF Reached, V
  <1>9. Sound(cap, more, keys)
    BY <1>a, <1>2, <1>6, <1>7, <1>8 DEF Sound
  <1> QED
    BY <1>a, <1>3, <1>9 DEF PutIn, more, U, V

\* A longer list of long names leaves every used slot its name.
LEMMA KeysGrow ==
  ASSUME NEW cap, NEW slots, NEW keys \in Seq(Names), NEW n \in Names, Sound(cap, slots, keys)
  PROVE  /\ Sound(cap, slots, Append(keys, n))
         /\ \A j \in Used(cap, slots), m \in Names :
              Answers(Append(keys, n), slots[j], m) <=> Answers(keys, slots[j], m)
  <1> DEFINE more == Append(keys, n)
             U == Used(cap, slots)
  <1>1. Len(more) = Len(keys) + 1 /\ Len(keys) \in Nat
    OBVIOUS
  <1>2. \A v \in 1 .. Len(keys) : more[v] = keys[v]
    OBVIOUS
  <1> HIDE DEF more
  <1>3. ASSUME NEW j \in U
        PROVE  slots[j].klen1 > 9 => slots[j].val \in 1 .. Len(keys)
    BY <1>3 DEF Sound, Owned, Owns, U
  <1>4. ASSUME NEW j \in U PROVE slots[j].klen1 > 9 \/ Inline(slots[j])
    <2>1. slots[j].klen1 \in Nat
      BY <1>4 DEF Sound, Slot, Used, U
    <2> QED
      BY <2>1 DEF Inline
  <1>5. ASSUME NEW j \in U, NEW m \in Names
        PROVE  Answers(more, slots[j], m) <=> Answers(keys, slots[j], m)
    <2>1. CASE Inline(slots[j])
      BY <2>1 DEF Answers
    <2>2. CASE slots[j].klen1 > 9
      <3>1. more[slots[j].val] = keys[slots[j].val]
        BY <1>2, <1>3, <2>2
      <3> QED
        BY <3>1 DEF Answers
    <2> QED
      BY <1>4, <2>1, <2>2
  <1>6. Owned(cap, slots, more)
    <2>1. ASSUME NEW j \in U PROVE \E m \in Names : Owns(more, slots[j], m)
      <3>1. PICK m \in Names : Owns(keys, slots[j], m)
        BY DEF Sound, Owned, U
      <3>2. Answers(more, slots[j], m)
        BY <1>5, <3>1 DEF Owns
      <3>3. slots[j].klen1 > 9 => slots[j].val \in 1 .. Len(more)
        BY <1>1, <1>3
      <3> QED
        BY <3>2, <3>3 DEF Owns
    <2> QED
      BY <2>1 DEF Owned, U
  <1>7. OnceEach(cap, slots, more)
    BY <1>5 DEF Sound, OnceEach, U
  <1>8. Reached(cap, slots, more)
    BY <1>5 DEF Sound, Reached, U
  <1>9. Sound(cap, slots, more)
    BY <1>6, <1>7, <1>8 DEF Sound
  <1> QED
    BY <1>5, <1>9 DEF more, U

\* Fewer used slots than slots: one is free.
LEMMA FreeSlot ==
  ASSUME NEW cap \in Nat \ {0}, NEW slots, Cardinality(Used(cap, slots)) < cap
  PROVE  /\ \E j \in 0 .. cap - 1 : j \notin Used(cap, slots)
         /\ IsFiniteSet(Used(cap, slots))
  <1>1. IsFiniteSet(0 .. cap - 1) /\ Cardinality(0 .. cap - 1) = cap
    <2>1. 0 \in Int /\ cap - 1 \in Int
      OBVIOUS
    <2>2. IsFiniteSet(0 .. cap - 1) /\ Cardinality(0 .. cap - 1) = IF 0 > cap - 1 THEN 0 ELSE cap - 1 - 0 + 1
      BY <2>1, FS_Interval
    <2>3. ~(0 > cap - 1) /\ cap - 1 - 0 + 1 = cap
      OBVIOUS
    <2> QED
      BY <2>2, <2>3
  <1>2. Used(cap, slots) \subseteq 0 .. cap - 1
    BY DEF Used
  <1>3. IsFiniteSet(Used(cap, slots))
    BY <1>1, <1>2, FS_Subset
  <1>4. Used(cap, slots) # 0 .. cap - 1
    <2> DEFINE U == Used(cap, slots)
               C == Cardinality(U)
    <2>1. C < cap
      OBVIOUS
    <2>2. U = 0 .. cap - 1 => C = cap
      BY <1>1
    <2> HIDE DEF C
    <2> QED
      BY <2>1, <2>2
  <1> QED
    BY <1>2, <1>3, <1>4

\* A table value: fields, load and soundness.
TableType(t) ==
  /\ t = [cap |-> t.cap, slots |-> t.slots, keys |-> t.keys, values |-> t.values, count |-> t.count]
  /\ t.cap \in Nat \ {0} /\ t.count \in Nat
  /\ t.keys \in Seq(Names) /\ t.values \in Seq(Nat) /\ Len(t.keys) = Len(t.values)

Table(t) ==
  /\ TableType(t)
  /\ Sound(t.cap, t.slots, t.keys)
  /\ Cardinality(Used(t.cap, t.slots)) = t.count
  /\ t.count < t.cap

Lacks(t, n) == Missing(t.cap, t.slots, t.keys, n)

\* A lookup ends at the slot of the name.
LEMMA FindsHeld ==
  ASSUME NEW t, Table(t), NEW n \in Names, NEW k \in Used(t.cap, t.slots), Holds(t, k, n)
  PROVE  SlotOf(t, n) = k
  <1> DEFINE cap == t.cap
             U == Used(cap, t.slots)
             stops == {j \in 0 .. cap - 1 : IsFree(t, j) \/ Holds(t, j, n)}
             h == ViewHash[n]
             j == SlotOf(t, n)
  <1>1. cap \in Nat \ {0} /\ h \in Nat
    BY HashTyped DEF Table, TableType
  <1>2. k \in stops /\ stops \in SUBSET (0 .. cap - 1) /\ k \in 0 .. cap - 1
    BY DEF Used
  <1>3. j = Probe(cap, h, stops)
    BY DEF SlotOf
  <1>4. \A i \in U : i \in stops => i = k
    <2>1. ASSUME NEW i \in U, i \in stops PROVE i = k
      <3>1. Holds(t, i, n)
        BY <2>1 DEF Used, IsFree
      <3> QED
        BY <3>1 DEF Holds, Table, Sound, OnceEach
    <2> QED
      BY <2>1
  <1>5. Path(cap, t.slots, h, k)
    BY DEF Holds, Table, Sound, Reached
  <1> HIDE DEF h, stops, j, cap
  <1>6. j \in stops /\ ProbeEnds(cap, h, stops, j)
    BY <1>1, <1>2, <1>3, ProbeFinds
  <1>7. PICK d \in 0 .. cap - 1 :
          j = (h + d) % cap /\ \A e \in 0 .. d - 1 : (h + e) % cap \notin stops
    BY <1>6 DEF ProbeEnds
  <1>8. PICK dk \in 0 .. cap - 1 :
          k = (h + dk) % cap /\ \A e \in 0 .. dk - 1 : (h + e) % cap \in U
    BY <1>5 DEF Path
  <1>9. d <= dk
    <2>1. CASE dk < d
      <3>1. dk \in 0 .. d - 1
        BY <1>1, <2>1
      <3> QED
        BY <1>2, <1>7, <1>8, <3>1
    <2> QED
      BY <1>1, <2>1
  <1>10. CASE d = dk
    BY <1>7, <1>8, <1>10 DEF j
  <1>11. CASE d < dk
    <2>1. d \in 0 .. dk - 1
      BY <1>1, <1>11
    <2>2. j \in U
      BY <1>7, <1>8, <2>1
    <2> QED
      BY <1>4, <1>6, <2>2 DEF j
  <1> QED
    BY <1>1, <1>9, <1>10, <1>11

\* A lookup of a name without a slot ends at a free slot it may be put in.
LEMMA FindsFree ==
  ASSUME NEW t, Table(t), NEW n \in Names, Lacks(t, n)
  PROVE  /\ SlotOf(t, n) \in 0 .. t.cap - 1
         /\ SlotOf(t, n) \notin Used(t.cap, t.slots)
         /\ Path(t.cap, t.slots, ViewHash[n], SlotOf(t, n))
  <1> DEFINE cap == t.cap
             U == Used(cap, t.slots)
             stops == {i \in 0 .. cap - 1 : IsFree(t, i) \/ Holds(t, i, n)}
             h == ViewHash[n]
             j == SlotOf(t, n)
  <1>1. cap \in Nat \ {0} /\ h \in Nat
    BY HashTyped DEF Table, TableType
  <1>2. \A i \in 0 .. cap - 1 : i \in stops <=> i \notin U
    BY DEF Used, IsFree, Holds, Lacks, Missing
  <1>3. j = Probe(cap, h, stops)
    BY DEF SlotOf
  <1>4. \E i \in 0 .. cap - 1 : i \notin U
    BY <1>1, FreeSlot DEF Table
  <1>5. stops \in SUBSET (0 .. cap - 1)
    OBVIOUS
  <1>a. U \subseteq 0 .. cap - 1
    BY DEF Used
  <1> HIDE DEF h, stops, j, cap, U
  <1>6. j \in stops /\ ProbeEnds(cap, h, stops, j)
    BY <1>1, <1>2, <1>3, <1>4, <1>5, ProbeFinds
  <1>7. PICK d \in 0 .. cap - 1 :
          j = (h + d) % cap /\ \A e \in 0 .. d - 1 : (h + e) % cap \notin stops
    BY <1>6 DEF ProbeEnds
  <1>8. \A e \in 0 .. d - 1 : (h + e) % cap \in U
    <2>1. ASSUME NEW e \in 0 .. d - 1 PROVE (h + e) % cap \in U
      <3>1. h + e \in Nat
        BY <1>1, <1>7
      <3>2. (h + e) % cap \in 0 .. cap - 1
        BY <1>1, <3>1, ModRange
      <3> QED
        BY <1>2, <1>7, <3>2
    <2> QED
      BY <2>1
  <1>9. Path(cap, t.slots, h, j)
    BY <1>7, <1>8 DEF Path, U
  <1>10. j \in 0 .. cap - 1 /\ j \notin U
    BY <1>2, <1>5, <1>6
  <1> QED
    BY <1>9, <1>10 DEF h, j, cap, U

Value(t, slot) == IF Inline(slot) THEN slot.val ELSE t.values[slot.val]

\* yep_nametab_get answers with the value of the slot that holds the name, ...
LEMMA GetHeld ==
  ASSUME NEW t, Table(t), NEW n \in Names, NEW k \in Used(t.cap, t.slots), Holds(t, k, n)
  PROVE  yep_nametab_get(t, n) = Value(t, t.slots[k]) /\ Value(t, t.slots[k]) \in Nat
  <1>1. SlotOf(t, n) = k
    BY FindsHeld
  <1>2. k # Nil /\ ~IsFree(t, k) /\ k \in 0 .. t.cap - 1
    BY DEF Used, Nil, IsFree, Table, TableType
  <1>3. yep_nametab_get(t, n) = Value(t, t.slots[k])
    BY <1>1, <1>2 DEF yep_nametab_get, Value
  <1>4. t.slots[k] \in Slot
    BY <1>2 DEF Table, Sound
  <1>5. t.slots[k].val \in Nat /\ t.slots[k].klen1 \in Nat
    BY <1>4 DEF Slot
  <1>6. CASE Inline(t.slots[k])
    BY <1>3, <1>5, <1>6 DEF Value
  <1>7. CASE ~Inline(t.slots[k])
    <2>1. t.slots[k].klen1 > 9
      BY <1>5, <1>7 DEF Inline
    <2>2. t.slots[k].val \in 1 .. Len(t.keys)
      BY <2>1 DEF Table, Sound, Owned, Owns
    <2>3. t.values \in Seq(Nat) /\ t.slots[k].val \in 1 .. Len(t.values)
      BY <2>2 DEF Table, TableType
    <2>4. t.values[t.slots[k].val] \in Nat
      BY <2>3
    <2> QED
      BY <1>3, <1>7, <2>4 DEF Value
  <1> QED
    BY <1>6, <1>7

\* ... and with Nil when none does.
LEMMA GetMissing ==
  ASSUME NEW t, Table(t), NEW n \in Names, Lacks(t, n)
  PROVE  yep_nametab_get(t, n) = Nil
  <1>1. SlotOf(t, n) \in 0 .. t.cap - 1 /\ SlotOf(t, n) \notin Used(t.cap, t.slots)
    BY FindsFree
  <1>2. IsFree(t, SlotOf(t, n))
    BY <1>1 DEF Used, IsFree
  <1> QED
    BY <1>2 DEF yep_nametab_get

\* A name has a slot exactly when the table has an answer for it.
LEMMA GetEither ==
  ASSUME NEW t, Table(t), NEW n \in Names
  PROVE  /\ yep_nametab_get(t, n) \in Nat \cup {Nil}
         /\ Lacks(t, n) <=> yep_nametab_get(t, n) = Nil
         /\ yep_nametab_get(t, n) # Nil => IsFree(t, SlotOf(t, n)) = FALSE
  <1>1. CASE Lacks(t, n)
    BY <1>1, GetMissing
  <1>2. CASE ~Lacks(t, n)
    <2>1. PICK k \in Used(t.cap, t.slots) : Holds(t, k, n)
      BY <1>2 DEF Lacks, Missing, Holds
    <2>2. yep_nametab_get(t, n) \in Nat
      BY <2>1, GetHeld
    <2>3. yep_nametab_get(t, n) # Nil
      BY <2>2 DEF Nil
    <2>4. SlotOf(t, n) = k /\ ~IsFree(t, k)
      BY <2>1, FindsHeld DEF Used, IsFree
    <2> QED
      BY <1>2, <2>2, <2>3, <2>4
  <1> QED
    BY <1>1, <1>2

-----------------------------------------------------------------------------
(* The operations on a table.                                              *)

\* Two tables answer alike for n.
SameAnswer(t, u, n) == yep_nametab_get(u, n) = yep_nametab_get(t, n)

\* Tables whose slots hold the same names with the same values answer alike.
LEMMA AnswersCarryOver ==
  ASSUME NEW t, NEW u, Table(t), Table(u), NEW n \in Names,
         \A j \in Used(t.cap, t.slots) : Holds(t, j, n) =>
           \E k \in Used(u.cap, u.slots) :
             Holds(u, k, n) /\ Value(u, u.slots[k]) = Value(t, t.slots[j]),
         Lacks(t, n) => Lacks(u, n)
  PROVE  SameAnswer(t, u, n)
  <1>1. CASE Lacks(t, n)
    <2>1. yep_nametab_get(t, n) = Nil /\ yep_nametab_get(u, n) = Nil
      BY <1>1, GetMissing
    <2> QED
      BY <2>1 DEF SameAnswer
  <1>2. CASE ~Lacks(t, n)
    <2>1. PICK j \in Used(t.cap, t.slots) : Holds(t, j, n)
      BY <1>2 DEF Lacks, Missing, Holds
    <2>2. PICK k \in Used(u.cap, u.slots) : Holds(u, k, n) /\ Value(u, u.slots[k]) = Value(t, t.slots[j])
      BY <2>1
    <2>3. yep_nametab_get(t, n) = Value(t, t.slots[j])
      BY <2>1, GetHeld
    <2>4. yep_nametab_get(u, n) = Value(u, u.slots[k])
      BY <2>2, GetHeld
    <2> QED
      BY <2>2, <2>3, <2>4 DEF SameAnswer
  <1> QED
    BY <1>1, <1>2

\* Slots that are all empty are sound.
LEMMA EmptySound ==
  ASSUME NEW cap \in Nat \ {0}, NEW keys
  PROVE  /\ Sound(cap, [j \in 0 .. cap - 1 |-> Empty], keys)
         /\ Used(cap, [j \in 0 .. cap - 1 |-> Empty]) = {}
  <1> DEFINE none == [j \in 0 .. cap - 1 |-> Empty]
  <1>1. Empty \in Slot /\ Empty.klen1 = 0
    BY DEF Empty, Slot
  <1>2. none \in [0 .. cap - 1 -> Slot] /\ \A j \in 0 .. cap - 1 : none[j] = Empty
    BY <1>1
  <1> HIDE DEF none
  <1>3. Used(cap, none) = {}
    BY <1>1, <1>2 DEF Used
  <1>4. Sound(cap, none, keys)
    BY <1>2, <1>3 DEF Sound, Owned, OnceEach, Reached
  <1> QED
    BY <1>3, <1>4 DEF none

\* A fresh table, and one that was cleared, is sound and knows no name.
LEMMA FreshTable ==
  ASSUME NEW cap \in Nat \ {0}
  PROVE  /\ Table(Cleared(cap)) /\ Cleared(cap).count = 0 /\ Cleared(cap).cap = cap
         /\ \A n \in Names : yep_nametab_get(Cleared(cap), n) = Nil
  <1> DEFINE none == [j \in 0 .. cap - 1 |-> Empty]
             t == Cleared(cap)
  <1>1. Sound(cap, none, <<>>) /\ Used(cap, none) = {}
    BY EmptySound
  <1> HIDE DEF none
  <1>2. t = [cap |-> cap, slots |-> none, keys |-> <<>>, values |-> <<>>, count |-> 0]
    BY DEF none, Cleared
  <1> HIDE DEF t
  <1>3. t.cap = cap /\ t.slots = none /\ t.keys = <<>> /\ t.values = <<>> /\ t.count = 0
    BY <1>2
  <1>4. t = [cap |-> t.cap, slots |-> t.slots, keys |-> t.keys, values |-> t.values, count |-> t.count]
    BY <1>2, <1>3
  <1>5. t.keys \in Seq(Names) /\ t.values \in Seq(Nat) /\ Len(t.keys) = Len(t.values)
    BY <1>3
  <1>6. TableType(t)
    BY <1>3, <1>4, <1>5 DEF TableType
  <1>7. Cardinality(Used(t.cap, t.slots)) = t.count /\ t.count < t.cap
    <2>1. Cardinality({}) = 0 /\ Used(t.cap, t.slots) = {}
      BY <1>1, <1>3, FS_EmptySet
    <2>2. 0 < cap
      OBVIOUS
    <2> QED
      BY <1>3, <2>1, <2>2, Zenon
  <1>8. Table(t)
    BY <1>1, <1>3, <1>6, <1>7 DEF Table
  <1>9. \A n \in Names : Lacks(t, n)
    BY <1>1, <1>3 DEF Lacks, Missing
  <1>10. \A n \in Names : yep_nametab_get(t, n) = Nil
    BY <1>8, <1>9, GetMissing
  <1> QED
    BY <1>3, <1>8, <1>10 DEF t

\* A defined name takes its new value, in place.
LEMMA OverwriteDoes ==
  ASSUME Rebuilds, NEW t, Table(t), NEW n \in Names, NEW value \in Nat,
         yep_nametab_get(t, n) # Nil
  PROVE  LET u == Overwrite(t, SlotOf(t, n), value)
         IN  /\ Table(u) /\ u.cap = t.cap /\ u.count = t.count
             /\ yep_nametab_get(u, n) = value
             /\ \A m \in Names : m # n => SameAnswer(t, u, m)
  <1> DEFINE j == SlotOf(t, n)
             u == Overwrite(t, j, value)
             U == Used(t.cap, t.slots)
             s == t.slots[j]
  <1>1. PICK k \in U : Holds(t, k, n)
    <2>1. ~Lacks(t, n)
      BY GetEither
    <2> QED
      BY <2>1 DEF Lacks, Missing, Holds
  <1>2. j \in U /\ Holds(t, j, n) /\ j \in 0 .. t.cap - 1
    BY <1>1, FindsHeld DEF Used
  <1>3. t = [cap |-> t.cap, slots |-> t.slots, keys |-> t.keys, values |-> t.values, count |-> t.count]
        /\ t.slots \in [0 .. t.cap - 1 -> Slot]
    BY DEF Table, TableType, Sound
  <1> HIDE DEF j
  <1>4. s \in Slot /\ s = [klen1 |-> s.klen1, prefix |-> s.prefix, val |-> s.val] /\ s.klen1 \in Nat
    BY <1>2, <1>3 DEF Slot
  <1>5. CASE Inline(s)
    <2> DEFINE s2 == [s EXCEPT !.val = value]
               more == [t.slots EXCEPT ![j] = s2]
    <2>1. u = [t EXCEPT !.slots = more]
      <3>1. u = [t EXCEPT !.slots[j].val = value]
        BY <1>5 DEF Overwrite
      <3>2. [t EXCEPT !.slots[j].val = value] = [t EXCEPT !.slots = more]
        BY <1>2, <1>3
      <3> QED
        BY <3>1, <3>2
    <2>2. s2 \in Slot /\ s2.klen1 = s.klen1 /\ s2.prefix = s.prefix /\ s2.val = value
      BY <1>4 DEF Slot
    <2> HIDE DEF s2
    <2>3. more \in [0 .. t.cap - 1 -> Slot] /\ more[j] = s2
          /\ \A i \in 0 .. t.cap - 1 : i # j => more[i] = t.slots[i]
      BY <1>2, <1>3, <2>2
    <2> HIDE DEF more, u
    <2>4. /\ u.cap = t.cap /\ u.slots = more /\ u.keys = t.keys /\ u.values = t.values /\ u.count = t.count
          /\ u = [cap |-> u.cap, slots |-> u.slots, keys |-> u.keys, values |-> u.values, count |-> u.count]
      BY <1>3, <2>1
    <2>5. Used(t.cap, more) = U
      BY <1>2, <2>2, <2>3 DEF Used
    <2>6. \A i \in U, m \in Names : Answers(t.keys, more[i], m) <=> Answers(t.keys, t.slots[i], m)
      <3>1. ASSUME NEW m \in Names PROVE Answers(t.keys, s2, m) <=> Answers(t.keys, s, m)
        BY <1>5, <2>2 DEF Answers, Inline
      <3>2. U \subseteq 0 .. t.cap - 1
        BY DEF Used
      <3> QED
        BY <2>3, <3>1, <3>2
    <2>7. Sound(t.cap, more, t.keys)
      <3>1. Owned(t.cap, more, t.keys)
        <4>1. ASSUME NEW i \in U PROVE \E m \in Names : Owns(t.keys, more[i], m)
          <5>1. PICK m \in Names : Owns(t.keys, t.slots[i], m)
            BY DEF Table, Sound, Owned
          <5>2. Answers(t.keys, more[i], m)
            BY <2>6, <5>1 DEF Owns
          <5>3. more[i].klen1 > 9 => more[i].val \in 1 .. Len(t.keys)
            <6>1. CASE i = j
              BY <1>4, <1>5, <2>2, <2>3, <6>1 DEF Inline
            <6>2. CASE i # j
              <7>1. more[i] = t.slots[i]
                BY <2>3, <6>2 DEF Used
              <7> QED
                BY <5>1, <7>1 DEF Owns
            <6> QED
              BY <6>1, <6>2
          <5> QED
            BY <5>2, <5>3 DEF Owns
        <4> QED
          BY <2>5, <4>1 DEF Owned
      <3>2. OnceEach(t.cap, more, t.keys)
        BY <2>5, <2>6 DEF Table, Sound, OnceEach
      <3>3. \A h, i : Path(t.cap, t.slots, h, i) => Path(t.cap, more, h, i)
        BY <2>5, PathGrows
      <3>4. Reached(t.cap, more, t.keys)
        BY <2>5, <2>6, <3>3 DEF Table, Sound, Reached
      <3> QED
        BY <2>3, <3>1, <3>2, <3>4 DEF Sound
    <2>8. Table(u)
      BY <2>4, <2>5, <2>7 DEF Table, TableType
    <2>9. \A i \in U, m \in Names : Holds(u, i, m) <=> Holds(t, i, m)
      BY <2>4, <2>6 DEF Holds
    <2>10. yep_nametab_get(u, n) = value
      <3>1. j \in Used(u.cap, u.slots) /\ Holds(u, j, n)
        BY <1>2, <2>4, <2>5, <2>9
      <3>2. yep_nametab_get(u, n) = Value(u, u.slots[j])
        BY <2>8, <3>1, GetHeld
      <3>3. Value(u, u.slots[j]) = value
        BY <1>5, <2>2, <2>3, <2>4 DEF Value, Inline
      <3> QED
        BY <3>2, <3>3
    <2>11. ASSUME NEW m \in Names, m # n PROVE SameAnswer(t, u, m)
      <3>1. ~Holds(t, j, m)
        BY <1>2, <1>4, <2>11, OneName DEF Holds
      <3>2. ASSUME NEW i \in U, Holds(t, i, m)
            PROVE  i \in Used(u.cap, u.slots) /\ Holds(u, i, m) /\ Value(u, u.slots[i]) = Value(t, t.slots[i])
        <4>1. i # j /\ i \in 0 .. t.cap - 1
          BY <3>1, <3>2 DEF Used
        <4>2. u.slots[i] = t.slots[i]
          BY <2>3, <2>4, <4>1
        <4> QED
          BY <2>4, <2>5, <2>9, <3>2, <4>2 DEF Value
      <3>3. Lacks(t, m) => Lacks(u, m)
        BY <2>4, <2>5, <2>6 DEF Lacks, Missing
      <3> QED
        BY <2>8, <3>2, <3>3, AnswersCarryOver
    <2> QED
      BY <2>4, <2>8, <2>10, <2>11 DEF u, j
  <1>6. CASE ~Inline(s)
    <2> DEFINE v == s.val
               vals == [t.values EXCEPT ![v] = value]
    <2>1. u = [t EXCEPT !.values = vals]
      <3>1. u = [t EXCEPT !.values[v] = value]
        BY <1>6 DEF Overwrite
      <3>2. [t EXCEPT !.values[v] = value] = [t EXCEPT !.values = vals]
        BY <1>3
      <3> QED
        BY <3>1, <3>2
    <2>2. v \in 1 .. Len(t.keys) /\ t.values \in Seq(Nat) /\ Len(t.values) = Len(t.keys)
      <3>1. s.klen1 > 9
        BY <1>4, <1>6 DEF Inline
      <3> QED
        BY <1>2, <3>1 DEF Table, TableType, Sound, Owned, Owns
    <2>3. vals \in Seq(Nat) /\ Len(vals) = Len(t.values) /\ vals[v] = value
          /\ \A i \in 1 .. Len(t.values) : i # v => vals[i] = t.values[i]
      BY <2>2
    <2> HIDE DEF vals, u
    <2>4. /\ u.cap = t.cap /\ u.slots = t.slots /\ u.keys = t.keys /\ u.values = vals /\ u.count = t.count
          /\ u = [cap |-> u.cap, slots |-> u.slots, keys |-> u.keys, values |-> u.values, count |-> u.count]
      BY <1>3, <2>1
    <2>8. Table(u)
      BY <2>2, <2>3, <2>4 DEF Table, TableType
    <2>9. \A i, m : Holds(u, i, m) <=> Holds(t, i, m)
      BY <2>4 DEF Holds
    <2>10. yep_nametab_get(u, n) = value
      <3>1. j \in Used(u.cap, u.slots) /\ Holds(u, j, n)
        BY <1>2, <2>4, <2>9
      <3>2. yep_nametab_get(u, n) = Value(u, u.slots[j])
        BY <2>8, <3>1, GetHeld
      <3>3. Value(u, u.slots[j]) = value
        BY <1>6, <2>3, <2>4 DEF Value
      <3> QED
        BY <3>2, <3>3
    <2>11. ASSUME NEW m \in Names, m # n PROVE SameAnswer(t, u, m)
      <3>1. ~Holds(t, j, m)
        BY <1>2, <1>4, <2>11, OneName DEF Holds
      <3>2. ASSUME NEW i \in U, Holds(t, i, m)
            PROVE  i \in Used(u.cap, u.slots) /\ Holds(u, i, m) /\ Value(u, u.slots[i]) = Value(t, t.slots[i])
        <4>1. i # j /\ i \in 0 .. t.cap - 1
          BY <3>1, <3>2 DEF Used
        <4>2. CASE Inline(t.slots[i])
          BY <2>4, <2>9, <3>2, <4>2 DEF Value
        <4>3. CASE ~Inline(t.slots[i])
          <5>1. t.slots[i] \in Slot
            BY <1>3, <4>1
          <5>2. t.slots[i].klen1 > 9
            BY <4>3, <5>1 DEF Inline, Slot
          <5>3. t.slots[i].val \in 1 .. Len(t.values)
            BY <2>2, <3>2, <5>2 DEF Table, Sound, Owned, Owns
          <5>4. t.keys[t.slots[i].val] = m /\ t.keys[v] = n
            BY <1>2, <1>6, <3>2, <4>3 DEF Holds, Answers
          <5>5. t.slots[i].val # v
            BY <2>11, <5>4
          <5>6. vals[t.slots[i].val] = t.values[t.slots[i].val]
            BY <2>3, <5>3, <5>5
          <5> QED
            BY <2>4, <2>9, <3>2, <4>3, <5>6 DEF Value
        <4> QED
          BY <4>2, <4>3
      <3>3. Lacks(t, m) => Lacks(u, m)
        BY <2>4 DEF Lacks
      <3> QED
        BY <2>8, <3>2, <3>3, AnswersCarryOver
    <2> QED
      BY <2>4, <2>8, <2>10, <2>11 DEF u, j
  <1> QED
    BY <1>5, <1>6

\* One more used slot is one more name counted.
LEMMA CountOneMore ==
  ASSUME NEW U, NEW j, NEW c \in Nat, IsFiniteSet(U), Cardinality(U) = c, j \notin U
  PROVE  Cardinality(U \cup {j}) = c + 1
  BY FS_AddElement

\* A new name is put into the slot its lookup ended at.
LEMMA InsertDoes ==
  ASSUME Rebuilds, NEW t, Table(t), NEW n \in Names, NEW value \in Nat,
         yep_nametab_get(t, n) = Nil, t.count + 1 < t.cap
  PROVE  LET u == Insert(t, n, value)
         IN  /\ Table(u) /\ u.cap = t.cap /\ u.count = t.count + 1
             /\ yep_nametab_get(u, n) = value
             /\ \A m \in Names : m # n => SameAnswer(t, u, m)
  <1> DEFINE j == SlotOf(t, n)
             u == Insert(t, n, value)
             U == Used(t.cap, t.slots)
             long == Len(n) + 1 > 9
             s == [klen1 |-> Len(n) + 1, prefix |-> Prefix[n],
                   val |-> IF long THEN Len(t.keys) + 1 ELSE value]
             more == [t.slots EXCEPT ![j] = s]
             keys == IF long THEN Append(t.keys, n) ELSE t.keys
             vals == IF long THEN Append(t.values, value) ELSE t.values
  <1>1. Lacks(t, n)
    BY GetEither
  <1>2. j \in 0 .. t.cap - 1 /\ j \notin U /\ Path(t.cap, t.slots, ViewHash[n], j)
    BY <1>1, FindsFree
  <1>3. u = [cap |-> t.cap, slots |-> more, keys |-> keys, values |-> vals, count |-> t.count + 1]
    BY DEF Insert
  <1>4. /\ t.cap \in Nat \ {0} /\ t.count \in Nat
        /\ t.keys \in Seq(Names) /\ t.values \in Seq(Nat) /\ Len(t.keys) = Len(t.values)
        /\ Sound(t.cap, t.slots, t.keys) /\ t.slots \in [0 .. t.cap - 1 -> Slot]
    BY DEF Table, TableType, Sound
  <1>5. Len(n) \in Nat \ {0} /\ Len(t.keys) \in Nat
    BY <1>4, NamesTyped
  <1>6. s \in Slot /\ s.klen1 # 0 /\ s.klen1 = Len(n) + 1 /\ s.prefix = Prefix[n]
    BY <1>5 DEF Slot
  <1>7. (long => s.val = Len(t.keys) + 1) /\ (~long => s.val = value) /\ (Inline(s) <=> ~long)
    BY <1>5 DEF Inline
  <1>8. Owns(keys, s, n)
    <2>1. CASE long
      <3>1. Append(t.keys, n)[Len(t.keys) + 1] = n /\ Len(Append(t.keys, n)) = Len(t.keys) + 1
        BY <1>4
      <3>2. s.val \in 1 .. Len(keys) /\ keys[s.val] = n
        BY <1>5, <1>7, <2>1, <3>1
      <3> HIDE DEF s, keys
      <3> QED
        BY <1>6, <3>2 DEF Owns, Answers
    <2>2. CASE ~long
      <3> HIDE DEF s, keys
      <3>1. Inline(s) /\ ~(s.klen1 > 9)
        BY <1>6, <1>7, <2>2
      <3> QED
        BY <1>6, <3>1 DEF Owns, Answers
    <2> QED
      BY <2>1, <2>2
  <1>9. /\ Sound(t.cap, t.slots, keys)
        /\ \A i \in U, m \in Names : Answers(keys, t.slots[i], m) <=> Answers(t.keys, t.slots[i], m)
    BY <1>4, KeysGrow
  <1>10. keys \in Seq(Names) /\ vals \in Seq(Nat) /\ Len(keys) = Len(vals)
    BY <1>4
  <1>11. \A i \in 1 .. Len(t.values) : vals[i] = t.values[i]
    BY <1>4
  <1>12. long => vals[Len(t.keys) + 1] = value
    BY <1>4
  <1>13. more \in [0 .. t.cap - 1 -> Slot] /\ more[j] = s
         /\ \A i \in 0 .. t.cap - 1 : i # j => more[i] = t.slots[i]
    BY <1>2, <1>4, <1>6
  <1>14. Missing(t.cap, t.slots, keys, n)
    BY <1>1, <1>9 DEF Lacks, Missing
  <1> HIDE DEF s, keys, vals, j
  <1>15. Sound(t.cap, more, keys) /\ Used(t.cap, more) = U \cup {j}
    <2> DEFINE cap == t.cap
               old == t.slots
    <2>1. Fits(cap, old, keys, n, j, s)
      BY <1>2, <1>4, <1>6, <1>8, <1>9, <1>14 DEF Fits
    <2>2. PutIn(cap, old, keys, j, s)
      <3> HIDE DEF cap, old
      <3> QED
        BY <2>1, PlaceSound
    <2> QED
      BY <2>2 DEF PutIn
  <1> HIDE DEF more, u
  <1>16. /\ u.cap = t.cap /\ u.slots = more /\ u.keys = keys /\ u.values = vals
         /\ u.count = t.count + 1
         /\ u = [cap |-> u.cap, slots |-> u.slots, keys |-> u.keys, values |-> u.values, count |-> u.count]
    BY <1>3
  <1>17. Cardinality(U \cup {j}) = t.count + 1
    <2>1. IsFiniteSet(U) /\ Cardinality(U) = t.count
      BY <1>4, FreeSlot DEF Table
    <2> QED
      BY <1>2, <1>4, <2>1, CountOneMore
  <1>18. Table(u)
    <2>1. TableType(u)
      BY <1>4, <1>10, <1>16 DEF TableType
    <2>2. Sound(u.cap, u.slots, u.keys) /\ Cardinality(Used(u.cap, u.slots)) = u.count /\ u.count < u.cap
      BY <1>15, <1>16, <1>17
    <2> QED
      BY <2>1, <2>2 DEF Table
  <1>19. yep_nametab_get(u, n) = value
    <2>1. j \in Used(u.cap, u.slots) /\ Holds(u, j, n)
      BY <1>8, <1>13, <1>15, <1>16 DEF Holds, Owns
    <2>2. yep_nametab_get(u, n) = Value(u, u.slots[j])
      BY <1>18, <2>1, GetHeld
    <2>3. Value(u, s) = value
      BY <1>7, <1>12, <1>16 DEF Value
    <2> QED
      BY <1>13, <1>16, <2>2, <2>3
  <1>20. ASSUME NEW m \in Names, m # n PROVE SameAnswer(t, u, m)
    <2>1. \A i \in U : i \in Used(u.cap, u.slots) /\ i # j /\ u.slots[i] = t.slots[i]
      BY <1>2, <1>13, <1>15, <1>16 DEF Used
    <2>2. ~Answers(keys, s, m)
      BY <1>6, <1>8, <1>20, OneName DEF Owns
    <2>3. ASSUME NEW i \in U, Holds(t, i, m)
          PROVE  i \in Used(u.cap, u.slots) /\ Holds(u, i, m) /\ Value(u, u.slots[i]) = Value(t, t.slots[i])
      <3>1. Holds(u, i, m)
        BY <1>9, <1>16, <2>1, <2>3 DEF Holds
      <3>2. CASE Inline(t.slots[i])
        BY <2>1, <3>1, <3>2 DEF Value
      <3>3. CASE ~Inline(t.slots[i])
        <4>1. t.slots[i] \in Slot
          BY <1>4 DEF Used
        <4>2. t.slots[i].klen1 > 9
          BY <3>3, <4>1 DEF Inline, Slot
        <4>3. t.slots[i].val \in 1 .. Len(t.values)
          BY <1>4, <2>3, <4>2 DEF Sound, Owned, Owns
        <4>4. vals[t.slots[i].val] = t.values[t.slots[i].val]
          BY <1>11, <4>3
        <4> QED
          BY <1>16, <2>1, <3>1, <3>3, <4>4 DEF Value
      <3> QED
        BY <3>2, <3>3
    <2>4. Lacks(t, m) => Lacks(u, m)
      <3>1. ASSUME Lacks(t, m), NEW i \in Used(u.cap, u.slots) PROVE ~Answers(keys, more[i], m)
        <4>1. CASE i = j
          BY <1>13, <2>2, <4>1
        <4>2. CASE i \in U
          BY <1>9, <1>16, <2>1, <3>1, <4>2 DEF Lacks, Missing
        <4> QED
          BY <1>15, <1>16, <3>1, <4>1, <4>2
      <3> QED
        BY <1>16, <3>1 DEF Lacks, Missing
    <2> QED
      BY <1>18, <2>3, <2>4, AnswersCarryOver
  <1> QED
    BY <1>16, <1>18, <1>19, <1>20 DEF u

-----------------------------------------------------------------------------
(* A growth moves the used slots over, one after the other.                *)

\* The successive new slots inside nt_rehash, by themselves.
Moves(t, newcap) ==
  CHOOSE f : f = [i \in 0 .. t.cap |->
                    IF i = 0 THEN [j \in 0 .. newcap - 1 |-> Empty]
                    ELSE Moved(t, newcap, f[i - 1], t.slots[i - 1])]

\* nt_rehash ends with the slots of the last move.
LEMMA RehashIs ==
  ASSUME NEW t, NEW newcap
  PROVE  nt_rehash(t, newcap) = [t EXCEPT !.cap = newcap, !.slots = Moves(t, newcap)[t.cap]]
  BY DEF nt_rehash, Moves

\* One move takes slots to slots.
LEMMA MovedType ==
  ASSUME NEW t, NEW newcap \in Nat \ {0}, NEW slots \in [0 .. newcap - 1 -> Slot], NEW src \in Slot
  PROVE  Moved(t, newcap, slots, src) \in [0 .. newcap - 1 -> Slot]
  <1> DEFINE at == Probe(newcap, ViewHash[KeyBytes(t, src)], {k \in 0 .. newcap - 1 : slots[k].klen1 = 0})
  <1>1. Moved(t, newcap, slots, src) = slots \/ Moved(t, newcap, slots, src) = [slots EXCEPT ![at] = src]
    BY DEF Moved
  <1> HIDE DEF at
  <1>2. [slots EXCEPT ![at] = src] \in [0 .. newcap - 1 -> Slot]
    OBVIOUS
  <1> QED
    BY <1>1, <1>2

\* The moves satisfy their recursion equation.
LEMMA MovesAre ==
  ASSUME NEW t, Table(t), NEW newcap \in Nat \ {0}
  PROVE  /\ Moves(t, newcap)[0] = [j \in 0 .. newcap - 1 |-> Empty]
         /\ \A i \in 0 .. t.cap - 1 :
              Moves(t, newcap)[i + 1] = Moved(t, newcap, Moves(t, newcap)[i], t.slots[i])
  <1> DEFINE S == [0 .. newcap - 1 -> Slot]
             a == [j \in 0 .. newcap - 1 |-> Empty]
             N == t.cap
             step(i, x) == IF i < N THEN Moved(t, newcap, x, t.slots[i]) ELSE x
             row(i) == [x \in S |-> step(i, x)]
             g == [i \in Nat |-> row(i)]
  <1>1. N \in Nat /\ \A i \in 0 .. N - 1 : t.slots[i] \in Slot
    BY DEF Table, TableType, Sound
  <1>2. a \in S
    BY DEF Empty, Slot
  <1>3. g \in [Nat -> [S -> S]]
    <2>1. ASSUME NEW i \in Nat, NEW x \in S PROVE step(i, x) \in S
      <3>1. CASE i < N
        <4>1. t.slots[i] \in Slot
          BY <1>1, <3>1
        <4>2. Moved(t, newcap, x, t.slots[i]) \in S
          BY <4>1, MovedType
        <4> QED
          BY <3>1, <4>2
      <3>2. CASE ~(i < N)
        BY <3>2
      <3> QED
        BY <3>1, <3>2
    <2> HIDE DEF S, step
    <2>2. ASSUME NEW i \in Nat PROVE row(i) \in [S -> S]
      BY <2>1
    <2> HIDE DEF row
    <2> QED
      BY <2>2
  <1>4. PICK f \in [0 .. N -> S] : f[0] = a /\ \A k \in 0 .. N - 1 : f[k + 1] = g[k][f[k]]
    <2>1. N \in Nat
      BY <1>1
    <2> HIDE DEF S, a, g, N
    <2>2. HasSteps(S, a, N, g)
      BY ONLY <1>2, <1>3, <2>1, IterateSteps
    <2> QED
      BY <2>2 DEF HasSteps
  <1>5. ASSUME NEW k \in 0 .. N - 1 PROVE f[k + 1] = Moved(t, newcap, f[k], t.slots[k])
    <2>1. k \in Nat /\ k < N /\ k \in 0 .. N
      BY <1>1
    <2>2. f[k] \in S
      BY <1>4, <2>1
    <2>3. g[k] = row(k)
      <3> HIDE DEF row
      <3> QED
        BY <2>1
    <2>4. row(k)[f[k]] = step(k, f[k])
      <3> HIDE DEF step, S
      <3> QED
        BY <2>2
    <2>5. step(k, f[k]) = Moved(t, newcap, f[k], t.slots[k])
      BY <2>1
    <2> HIDE DEF g, row, step
    <2> QED
      BY <1>4, <2>3, <2>4, <2>5
  <1> DEFINE body(h, i) == IF i = 0 THEN a ELSE Moved(t, newcap, h[i - 1], t.slots[i - 1])
             M == Moves(t, newcap)
  <1>6. f = [i \in 0 .. N |-> body(f, i)]
    <2>1. ASSUME NEW i \in 0 .. N PROVE f[i] = body(f, i)
      <3>1. CASE i = 0
        BY <1>4, <3>1
      <3>2. CASE i # 0
        <4>1. i - 1 \in 0 .. N - 1 /\ (i - 1) + 1 = i
          BY <1>1, <3>2
        <4>2. f[i] = Moved(t, newcap, f[i - 1], t.slots[i - 1])
          BY <1>5, <4>1
        <4> QED
          BY <3>2, <4>2
      <3> QED
        BY <3>1, <3>2
    <2> HIDE DEF body, S, N
    <2> QED
      BY <1>4, <2>1
  <1>7. M = [i \in 0 .. N |-> body(M, i)]
    <2>1. M = CHOOSE h : h = [i \in 0 .. N |-> body(h, i)]
      BY DEF Moves
    <2> HIDE DEF body, N, M
    <2> QED
      BY <1>6, <2>1
  <1>8. \A i \in 0 .. N : M[i] = body(M, i)
    <2> HIDE DEF body, N, M
    <2> QED
      BY <1>7
  <1> HIDE DEF M
  <1>9. M[0] = a
    BY <1>1, <1>8
  <1>10. ASSUME NEW i \in 0 .. N - 1 PROVE M[i + 1] = Moved(t, newcap, M[i], t.slots[i])
    <2>1. i + 1 \in 0 .. N /\ i + 1 # 0 /\ (i + 1) - 1 = i
      BY <1>1
    <2>2. M[i + 1] = body(M, i + 1)
      BY <1>8, <2>1
    <2> HIDE DEF N
    <2> QED
      BY <2>1, <2>2
  <1> QED
    BY <1>9, <1>10 DEF M

UsedBelow(t, i) == {k \in Used(t.cap, t.slots) : k < i}

\* After i slots were seen the new slots are sound and hold what the used ones of them held.
Moving(t, newcap, slots, i) ==
  /\ Sound(newcap, slots, t.keys)
  /\ IsFiniteSet(UsedBelow(t, i)) /\ IsFiniteSet(Used(newcap, slots))
  /\ Cardinality(Used(newcap, slots)) = Cardinality(UsedBelow(t, i))
  /\ \A k \in UsedBelow(t, i) : \E j \in Used(newcap, slots) : slots[j] = t.slots[k]
  /\ \A j \in Used(newcap, slots) : \E k \in UsedBelow(t, i) : slots[j] = t.slots[k]

\* The name a growth rebuilds is the name of the slot.
LEMMA KeyBytesIs ==
  ASSUME Rebuilds, NEW t, NEW s \in Slot, NEW n \in Names, Answers(t.keys, s, n)
  PROVE  KeyBytes(t, s) = n
  <1>1. s.klen1 = Len(n) + 1 /\ s.prefix = Prefix[n] /\ Len(n) \in Nat
    BY NamesTyped DEF Answers
  <1>2. CASE Inline(s)
    <2>1. \A a \in Nat : (a + 1) - 1 = a /\ (a + 1 <= 9 => a <= 8)
      OBVIOUS
    <2>2. s.klen1 - 1 = Len(n) /\ Len(n) <= 8
      BY <1>1, <1>2, <2>1 DEF Inline
    <2>3. Rebuilt(Prefix[n], Len(n)) = n
      BY <2>2 DEF Rebuilds
    <2> QED
      BY <1>1, <1>2, <2>2, <2>3 DEF KeyBytes
  <1>3. CASE ~Inline(s)
    BY <1>3 DEF KeyBytes, Answers
  <1> QED
    BY <1>2, <1>3

\* Moving one more slot over keeps what the moves have reached.
LEMMA MoveOne ==
  ASSUME Rebuilds, NEW t, Table(t), NEW newcap \in Nat \ {0}, t.count < newcap,
         NEW slots, NEW i \in 0 .. t.cap - 1, Moving(t, newcap, slots, i)
  PROVE  Moving(t, newcap, Moved(t, newcap, slots, t.slots[i]), i + 1)
  <1> DEFINE src == t.slots[i]
             T == Used(t.cap, t.slots)
             B == UsedBelow(t, i)
             B2 == UsedBelow(t, i + 1)
             U == Used(newcap, slots)
  <1>1. t.cap \in Nat /\ src \in Slot /\ slots \in [0 .. newcap - 1 -> Slot] /\ Sound(newcap, slots, t.keys)
    BY DEF Table, TableType, Sound, Moving
  <1>2. CASE src.klen1 = 0
    <2>1. B2 = B
      BY <1>1, <1>2 DEF UsedBelow, Used
    <2>2. Moved(t, newcap, slots, src) = slots
      BY <1>2 DEF Moved
    <2> HIDE DEF B, B2
    <2> QED
      BY <2>1, <2>2 DEF Moving, B, B2
  <1>3. CASE src.klen1 # 0
    <2>1. i \in T /\ B2 = B \cup {i} /\ i \notin B
      BY <1>1, <1>3 DEF UsedBelow, Used
    <2>2. PICK n \in Names : Owns(t.keys, src, n)
      BY <2>1 DEF Table, Sound, Owned
    <2>3. Answers(t.keys, src, n) /\ KeyBytes(t, src) = n
      BY <1>1, <2>2, KeyBytesIs DEF Owns
    <2>4. Missing(newcap, slots, t.keys, n)
      <3>1. ASSUME NEW j \in U, Answers(t.keys, slots[j], n) PROVE FALSE
        <4>1. PICK k \in B : slots[j] = t.slots[k]
          BY DEF Moving
        <4>2. k \in T /\ k # i
          BY <2>1, <4>1 DEF UsedBelow
        <4> QED
          BY <2>1, <2>3, <3>1, <4>1, <4>2 DEF Table, Sound, OnceEach
      <3> QED
        BY <3>1 DEF Missing
    <2>5. Cardinality(U) < newcap
      <3>1. IsFiniteSet(T) /\ Cardinality(T) = t.count /\ t.count \in Nat
        BY FreeSlot DEF Table, TableType
      <3>2. B \subseteq T
        BY DEF UsedBelow
      <3>3. Cardinality(B) <= Cardinality(T)
        BY <3>1, <3>2, FS_Subset
      <3>4. Cardinality(B) \in Nat /\ Cardinality(U) = Cardinality(B)
        BY FS_CardinalityType DEF Moving
      <3>5. \A a, b, c \in Nat : a <= b /\ b < c => a < c
        OBVIOUS
      <3> HIDE DEF B, T, U
      <3> QED
        BY <3>1, <3>3, <3>4, <3>5
    <2> DEFINE free == {k \in 0 .. newcap - 1 : slots[k].klen1 = 0}
               h == ViewHash[n]
               at == Probe(newcap, h, free)
    <2>6. Moved(t, newcap, slots, src) = [slots EXCEPT ![at] = src]
      BY <1>3, <2>3 DEF Moved
    <2>7. \A k \in 0 .. newcap - 1 : k \in free <=> k \notin U
      BY DEF Used
    <2>8. free \in SUBSET (0 .. newcap - 1) /\ free # {}
      <3>1. \E k \in 0 .. newcap - 1 : k \notin U
        BY <2>5, FreeSlot
      <3> HIDE DEF U
      <3> QED
        BY <2>7, <3>1
    <2>9. h \in Nat
      BY HashTyped
    <2> HIDE DEF free, h, at
    <2>10. at \in free /\ ProbeEnds(newcap, h, free, at)
      BY <2>8, <2>9, ProbeFinds DEF at
    <2>11. Path(newcap, slots, h, at)
      <3>1. PICK d \in 0 .. newcap - 1 :
              at = (h + d) % newcap /\ \A e \in 0 .. d - 1 : (h + e) % newcap \notin free
        BY <2>10 DEF ProbeEnds
      <3>2. ASSUME NEW e \in 0 .. d - 1 PROVE (h + e) % newcap \in U
        <4>1. h + e \in Nat
          BY <2>9, <3>1
        <4>2. (h + e) % newcap \in 0 .. newcap - 1
          BY <4>1, ModRange
        <4> HIDE DEF U
        <4> QED
          BY <2>7, <3>1, <4>2
      <3> QED
        BY <3>1, <3>2 DEF Path
    <2>12. at \in 0 .. newcap - 1 /\ at \notin U
      BY <2>7, <2>8, <2>10
    <2> DEFINE more == [slots EXCEPT ![at] = src]
    <2>13. Sound(newcap, more, t.keys) /\ Used(newcap, more) = U \cup {at}
      <3> DEFINE keys == t.keys
      <3>1. Fits(newcap, slots, keys, n, at, src)
        BY <1>1, <1>3, <2>2, <2>4, <2>11, <2>12 DEF h, Fits
      <3>2. PutIn(newcap, slots, keys, at, src)
        <4> HIDE DEF keys, src
        <4> QED
          BY <3>1, PlaceSound
      <3> QED
        BY <3>2 DEF PutIn
    <2>14. more[at] = src /\ \A k \in 0 .. newcap - 1 : k # at => more[k] = slots[k]
      BY <1>1, <2>12
    <2>15. U \subseteq 0 .. newcap - 1
      BY DEF Used
    <2> HIDE DEF more, U, B, B2, src
    <2>16. IsFiniteSet(B) /\ IsFiniteSet(U) /\ Cardinality(U) = Cardinality(B)
      BY DEF Moving, U, B
    <2>17. /\ IsFiniteSet(B2) /\ IsFiniteSet(U \cup {at})
           /\ Cardinality(B2) = Cardinality(B) + 1
           /\ Cardinality(U \cup {at}) = Cardinality(U) + 1
      BY <2>1, <2>12, <2>16, FS_AddElement
    <2>18. ASSUME NEW k \in B2 PROVE \E j \in U \cup {at} : more[j] = t.slots[k]
      <3>1. CASE k = i
        BY <2>14, <3>1 DEF src
      <3>2. CASE k \in B
        <4>1. PICK j \in U : slots[j] = t.slots[k]
          BY <3>2 DEF Moving, U, B
        <4> QED
          BY <2>12, <2>14, <2>15, <4>1
      <3> QED
        BY <2>1, <2>18, <3>1, <3>2
    <2>19. ASSUME NEW j \in U \cup {at} PROVE \E k \in B2 : more[j] = t.slots[k]
      <3>1. CASE j = at
        BY <2>1, <2>14, <3>1 DEF src
      <3>2. CASE j \in U
        <4>1. PICK k \in B : slots[j] = t.slots[k]
          BY <3>2 DEF Moving, U, B
        <4> QED
          BY <2>1, <2>12, <2>14, <2>15, <3>2, <4>1
      <3> QED
        BY <2>19, <3>1, <3>2
    <2>20. Moving(t, newcap, more, i + 1)
      BY <2>13, <2>16, <2>17, <2>18, <2>19 DEF Moving, B2
    <2> QED
      BY <2>6, <2>20 DEF more, src
  <1> QED
    BY <1>2, <1>3 DEF src

\* A growth to a size that can hold the names keeps the table sound and every answer.
LEMMA RehashDoes ==
  ASSUME Rebuilds, NEW t, Table(t), NEW newcap \in Nat \ {0}, t.count < newcap
  PROVE  LET u == nt_rehash(t, newcap)
         IN  /\ Table(u) /\ u.cap = newcap /\ u.count = t.count
             /\ \A m \in Names : SameAnswer(t, u, m)
  <1> DEFINE u == nt_rehash(t, newcap)
             M == Moves(t, newcap)
             W == {i \in Nat : i <= t.cap => Moving(t, newcap, M[i], i)}
             T == Used(t.cap, t.slots)
             V == Used(newcap, M[t.cap])
  <1>1. t.cap \in Nat \ {0} /\ t.count \in Nat /\ TableType(t)
    BY DEF Table, TableType
  <1>2. 0 \in W
    <2> DEFINE none == [j \in 0 .. newcap - 1 |-> Empty]
    <2>1. M[0] = none
      BY MovesAre
    <2>2. Sound(newcap, none, t.keys) /\ Used(newcap, none) = {}
      BY EmptySound
    <2>3. UsedBelow(t, 0) = {}
      BY <1>1 DEF UsedBelow, Used
    <2> HIDE DEF none
    <2>4. Moving(t, newcap, none, 0)
      BY <2>2, <2>3, FS_EmptySet DEF Moving
    <2> QED
      BY <2>1, <2>4
  <1>3. ASSUME NEW i \in Nat, i \in W PROVE i + 1 \in W
    <2>1. CASE i + 1 <= t.cap
      <3>1. i \in 0 .. t.cap - 1 /\ Moving(t, newcap, M[i], i)
        BY <1>1, <1>3, <2>1
      <3>2. M[i + 1] = Moved(t, newcap, M[i], t.slots[i])
        BY <3>1, MovesAre
      <3>3. Moving(t, newcap, Moved(t, newcap, M[i], t.slots[i]), i + 1)
        BY <3>1, MoveOne
      <3> QED
        BY <3>2, <3>3
    <2>2. CASE ~(i + 1 <= t.cap)
      BY <2>2
    <2> QED
      BY <2>1, <2>2
  <1>4. Moving(t, newcap, M[t.cap], t.cap)
    <2>1. Nat \subseteq W
      <3> HIDE DEF W
      <3> QED
        BY <1>2, <1>3, SetInduction
    <2> QED
      BY <1>1, <2>1
  <1>5. UsedBelow(t, t.cap) = T
    BY <1>1 DEF UsedBelow, Used
  <1> DEFINE new == M[t.cap]
  <1>6. u = [t EXCEPT !.cap = newcap, !.slots = new]
    BY RehashIs
  <1> HIDE DEF new, u
  <1>7. /\ u.cap = newcap /\ u.slots = new /\ u.keys = t.keys /\ u.values = t.values /\ u.count = t.count
        /\ u = [cap |-> u.cap, slots |-> u.slots, keys |-> u.keys, values |-> u.values, count |-> u.count]
    BY <1>1, <1>6 DEF TableType
  <1>8. V = Used(u.cap, u.slots)
    BY <1>7 DEF new
  <1>9. /\ Sound(u.cap, u.slots, u.keys) /\ Cardinality(Used(u.cap, u.slots)) = Cardinality(T)
        /\ \A k \in T : \E j \in Used(u.cap, u.slots) : u.slots[j] = t.slots[k]
        /\ \A j \in Used(u.cap, u.slots) : \E k \in T : u.slots[j] = t.slots[k]
    BY <1>4, <1>5, <1>7 DEF Moving, new
  <1>10. Table(u)
    <2>1. TableType(u)
      BY <1>1, <1>7 DEF TableType
    <2>2. Cardinality(Used(u.cap, u.slots)) = u.count /\ u.count < u.cap
      BY <1>7, <1>9 DEF Table
    <2> QED
      BY <1>9, <2>1, <2>2 DEF Table
  <1>11. ASSUME NEW m \in Names PROVE SameAnswer(t, u, m)
    <2>1. ASSUME NEW k \in T, Holds(t, k, m)
          PROVE  \E j \in Used(u.cap, u.slots) :
                   Holds(u, j, m) /\ Value(u, u.slots[j]) = Value(t, t.slots[k])
      <3>1. PICK j \in Used(u.cap, u.slots) : u.slots[j] = t.slots[k]
        BY <1>9
      <3>2. Holds(u, j, m) /\ Value(u, u.slots[j]) = Value(t, t.slots[k])
        BY <1>7, <2>1, <3>1 DEF Holds, Value
      <3> QED
        BY <3>2
    <2>2. Lacks(t, m) => Lacks(u, m)
      BY <1>7, <1>9 DEF Lacks, Missing
    <2> QED
      BY <1>10, <2>1, <2>2, AnswersCarryOver
  <1> QED
    BY <1>7, <1>10, <1>11 DEF u

\* What a call of yep_nametab_set has done to the table, and what it returned.
SetTo(t, n, value, fails, set) ==
  /\ Table(set.tab)
  /\ set.ok \in BOOLEAN
  /\ set.ok => yep_nametab_get(set.tab, n) = value
  /\ ~set.ok => yep_nametab_get(t, n) = Nil /\ yep_nametab_get(set.tab, n) = Nil
  /\ \A m \in Names : m # n => SameAnswer(t, set.tab, m)
  /\ set.tab.count \in {t.count, t.count + 1}
  /\ ~Crowded(t) => set.tab.cap = t.cap
  /\ set.tab.cap >= t.cap
  /\ fails = "none" => set.ok
  /\ yep_nametab_get(t, n) = Nil /\ set.ok => set.tab.count = t.count + 1

\* yep_nametab_set changes the answer for its name, or none, whatever allocation fails.
LEMMA SetDoes ==
  ASSUME Rebuilds, NEW t, Table(t), NEW n \in Names, NEW value \in Nat, NEW fails
  PROVE  SetTo(t, n, value, fails, yep_nametab_set(t, n, value, fails))
  <1> DEFINE set == yep_nametab_set(t, n, value, fails)
             j == SlotOf(t, n)
             bigger == IF Crowded(t) THEN nt_rehash(t, 2 * t.cap) ELSE t
  <1>1. t.cap \in Nat \ {0} /\ t.count \in Nat /\ t.count < t.cap /\ NtLoadPct \in 1 .. 99
    BY NameTableAssumption DEF Table, TableType
  <1>2. CASE yep_nametab_get(t, n) # Nil
    <2> DEFINE u == Overwrite(t, j, value)
    <2>1. ~IsFree(t, j)
      BY <1>2, GetEither
    <2>2. set = [tab |-> u, ok |-> TRUE]
      BY <2>1 DEF yep_nametab_set
    <2>3. /\ Table(u) /\ u.cap = t.cap /\ u.count = t.count /\ yep_nametab_get(u, n) = value
          /\ \A m \in Names : m # n => SameAnswer(t, u, m)
      BY <1>2, OverwriteDoes
    <2> HIDE DEF u, set
    <2>4. set.tab = u /\ set.ok = TRUE
      BY <2>2
    <2>a. set.tab.cap >= t.cap /\ set.tab.cap = t.cap /\ set.tab.count = t.count
      BY <1>1, <2>3, <2>4
    <2>5. SetTo(t, n, value, fails, set)
      BY <1>2, <2>3, <2>4, <2>a, Zenon DEF SetTo
    <2> QED
      BY <2>5 DEF set
  <1>3. CASE yep_nametab_get(t, n) = Nil
    <2>1. IsFree(t, j)
      <3>1. j \in 0 .. t.cap - 1 /\ j \notin Used(t.cap, t.slots)
        BY <1>3, GetEither, FindsFree
      <3> QED
        BY <3>1 DEF IsFree, Used
    <2>2. /\ Table(bigger) /\ bigger.count = t.count /\ bigger.cap >= t.cap
          /\ bigger.count + 1 < bigger.cap /\ (~Crowded(t) => bigger.cap = t.cap)
          /\ \A m \in Names : SameAnswer(t, bigger, m)
      <3>1. CASE Crowded(t)
        <4>1. 2 * t.cap \in Nat \ {0} /\ t.count < 2 * t.cap /\ t.count + 1 < 2 * t.cap /\ 2 * t.cap >= t.cap
          BY <1>1
        <4>2. bigger = nt_rehash(t, 2 * t.cap)
          BY <3>1
        <4> HIDE DEF bigger
        <4>3. /\ Table(bigger) /\ bigger.cap = 2 * t.cap /\ bigger.count = t.count
              /\ \A m \in Names : SameAnswer(t, bigger, m)
          BY <4>1, <4>2, RehashDoes
        <4> QED
          BY <3>1, <4>1, <4>3
      <3>2. CASE ~Crowded(t)
        <4>1. bigger = t
          BY <3>2
        <4>2. t.count + 1 < t.cap
          <5>1. (t.count + 1) * 100 <= t.cap * NtLoadPct
            BY <1>1, <3>2 DEF Crowded
          <5>2. \A c, k \in Nat, p \in 1 .. 99 : k > 0 /\ (c + 1) * 100 <= k * p => c + 1 < k
            OBVIOUS
          <5> QED
            BY <1>1, <5>1, <5>2
        <4> QED
          BY <1>1, <3>2, <4>1, <4>2 DEF SameAnswer
      <3> QED
        BY <3>1, <3>2
    <2> HIDE DEF bigger
    <2>3. CASE Crowded(t) /\ fails = "slots"
      <3>1. set = [tab |-> t, ok |-> FALSE]
        BY <2>1, <2>3 DEF yep_nametab_set
      <3> HIDE DEF set
      <3>2. set.tab = t /\ set.ok = FALSE
        BY <3>1
      <3>a. set.tab.cap >= t.cap /\ fails # "none" /\ \A m \in Names : SameAnswer(t, set.tab, m)
        BY <1>1, <2>3, <3>2 DEF SameAnswer
      <3>3. SetTo(t, n, value, fails, set)
        BY <1>3, <2>3, <3>2, <3>a, Zenon DEF SetTo
      <3> QED
        BY <3>3 DEF set
    <2>4. CASE ~(Crowded(t) /\ fails = "slots") /\ Len(n) + 1 > 9 /\ fails = "entries"
      <3>1. set = [tab |-> bigger, ok |-> FALSE]
        BY <2>1, <2>4 DEF yep_nametab_set, bigger
      <3> HIDE DEF set
      <3>2. set.tab = bigger /\ set.ok = FALSE
        BY <3>1
      <3>3. yep_nametab_get(bigger, n) = Nil
        BY <1>3, <2>2 DEF SameAnswer
      <3>4. SetTo(t, n, value, fails, set)
        BY <1>1, <1>3, <2>2, <2>4, <3>2, <3>3 DEF SetTo
      <3> QED
        BY <3>4 DEF set
    <2>5. CASE ~(Crowded(t) /\ fails = "slots") /\ ~(Len(n) + 1 > 9 /\ fails = "entries")
      <3> DEFINE u == Insert(bigger, n, value)
      <3>1. set = [tab |-> u, ok |-> TRUE]
        BY <2>1, <2>5 DEF yep_nametab_set, bigger
      <3>2. yep_nametab_get(bigger, n) = Nil
        BY <1>3, <2>2 DEF SameAnswer
      <3>3. /\ Table(u) /\ u.cap = bigger.cap /\ u.count = bigger.count + 1
            /\ yep_nametab_get(u, n) = value /\ \A m \in Names : m # n => SameAnswer(bigger, u, m)
        BY <2>2, <3>2, InsertDoes
      <3> HIDE DEF u, set
      <3>4. set.tab = u /\ set.ok = TRUE
        BY <3>1
      <3>5. \A m \in Names : m # n => SameAnswer(t, u, m)
        BY <2>2, <3>3 DEF SameAnswer
      <3>6. SetTo(t, n, value, fails, set)
        BY <1>1, <1>3, <2>2, <3>3, <3>4, <3>5 DEF SetTo
      <3> QED
        BY <3>6 DEF set
    <2> QED
      BY <2>3, <2>4, <2>5
  <1> QED
    BY <1>2, <1>3

\* A table that was reserved for n names has room for them.
LEMMA ReserveDoes ==
  ASSUME Rebuilds, NEW t, Table(t), t.count = 0, NEW n \in Nat \ {0}, NEW fails
  PROVE  LET u == yep_nametab_reserve(t, n, fails)
         IN  /\ Table(u) /\ u.count = 0 /\ \A m \in Names : SameAnswer(t, u, m)
             /\ fails = "none" => n * 100 <= u.cap * NtLoadPct
  <1> DEFINE u == yep_nametab_reserve(t, n, fails)
             need == (n * 100 + NtLoadPct - 1) \div NtLoadPct
             cap == Doubled(NtMinCap, need)
  <1>1. CASE n * 100 <= t.cap * NtLoadPct \/ fails # "none"
    <2>1. u = t
      BY <1>1 DEF yep_nametab_reserve
    <2> QED
      BY <1>1, <2>1 DEF SameAnswer
  <1>2. CASE ~(n * 100 <= t.cap * NtLoadPct \/ fails # "none")
    <2>1. u = nt_rehash(t, cap)
      BY <1>2 DEF yep_nametab_reserve
    <2>2. need \in Nat /\ need * NtLoadPct >= n * 100
      <3>1. ASSUME NEW p \in 1 .. 99, NEW x \in Nat
            PROVE  /\ (x + p - 1) \div p \in Nat /\ ((x + p - 1) \div p) * p >= x
        <4> DEFINE y == x + p - 1
                   q == y \div p
        <4>1. y \in Nat /\ p \in Nat \ {0}
          OBVIOUS
        <4>2. q \in Int /\ p * q <= y /\ y < p * q + p
          <5> HIDE DEF y
          <5> QED
            BY <4>1
        <4> HIDE DEF q
        <4>3. p * q >= x
          BY <4>2
        <4>4. q \in Nat
          <5>1. CASE q < 0
            <6>1. p * q < 0
              BY <4>1, <4>2, <5>1
            <6> DEFINE z == p * q
            <6>2. z \in Int
              BY <4>1, <4>2
            <6> HIDE DEF z
            <6> QED
              BY <4>3, <6>1, <6>2 DEF z
          <5> QED
            BY <4>2, <5>1
        <4> QED
          BY <4>3, <4>4 DEF q
      <3>2. n * 100 \in Nat /\ NtLoadPct \in 1 .. 99
        BY NameTableAssumption
      <3> QED
        BY <3>1, <3>2
    <2> HIDE DEF need
    <2>3. cap \in Nat \ {0} /\ cap >= need
      BY <2>2, DoubledReaches, NameTableAssumption
    <2>4. n * 100 <= cap * NtLoadPct
      <3>1. \A a, b, p \in Nat : a >= b => b * p <= a * p
        OBVIOUS
      <3>2. need * NtLoadPct <= cap * NtLoadPct /\ NtLoadPct \in Nat
        BY <2>2, <2>3, <3>1, NameTableAssumption
      <3> QED
        BY <2>2, <2>3, <3>2
    <2> HIDE DEF cap, u
    <2>5. Table(u) /\ u.cap = cap /\ u.count = t.count /\ \A m \in Names : SameAnswer(t, u, m)
      BY <2>1, <2>3, RehashDoes
    <2> QED
      BY <2>4, <2>5 DEF u
  <1> QED
    BY <1>1, <1>2

-----------------------------------------------------------------------------
(* The anchors of a stream and of a canonical form.                        *)

\* The three behaviours that break the promise are the ones a run lets in by Edges.
Orderly ==
  "redefine_after_alias" \notin Edges /\ "redefine_oom" \notin Edges /\ "canon_oom" \notin Edges

\* The engine's table, marks and memo say what the stream said.
EngineInv ==
  mode = "engine" =>
    /\ serial <= marks
    /\ \A n \in Names : last[n] <= serial
    /\ \A n \in Names : yep_nametab_get(tab, n) = IF last[n] = 0 THEN Nil ELSE last[n]
    /\ memo.name \in Names => memo.ord = last[memo.name]

\* The emitter's table has the names it handed out, numbered in the order of handing out.
CanonInv ==
  mode = "canon" =>
    /\ \A n \in Names : yep_nametab_get(tab, n) = last[n] - 1 /\ last[n] <= tab.count
    /\ \A a, b \in Names : last[a] = last[b] /\ last[a] # 0 => a = b

\* The table is sound, has at most one name for each anchor and room for the reserved ones.
StoreInv ==
  /\ Table(tab) /\ tab.count <= serial
  /\ reserved * 100 <= tab.cap * NtLoadPct
  /\ placed = emitted

\* The inductive invariant: the promise says nothing of the table it is kept with.
IInv == TypeOK /\ StoreInv /\ EngineInv /\ CanonInv

USE NameTableAssumption, AnchorsAssumption

\* A parse and an emitter begin with an empty table.
LEMMA InvInit ==
  ASSUME Init PROVE IInv
  <1>1. NtMinCap \in Nat \ {0}
    OBVIOUS
  <1>2. /\ Table(tab) /\ tab.count = 0 /\ tab.cap = NtMinCap
        /\ \A n \in Names : yep_nametab_get(tab, n) = Nil
    BY <1>1, FreshTable DEF Init, EmptyTable
  <1>3. last = [n \in Names |-> 0] /\ \A n \in Names : last[n] = 0
    BY DEF Init, Undefined
  <1>4. memo.name = <<>> /\ memo.ord = 0
    BY DEF Init, NoMemo
  <1>5. <<>> \notin Names
    BY NamesTyped
  <1>6. TypeOK
    BY <1>3, <1>4 DEF Init, TypeOK
  <1>7. StoreInv
    BY <1>1, <1>2 DEF Init, StoreInv
  <1>8. EngineInv
    BY <1>2, <1>3, <1>4, <1>5 DEF Init, EngineInv
  <1>9. CanonInv
    BY <1>2, <1>3 DEF Init, CanonInv, Nil
  <1> QED
    BY <1>6, <1>7, <1>8, <1>9 DEF IInv

\* The facts about the types that the steps need.
LEMMA Typed ==
  ASSUME IInv
  PROVE  /\ serial \in Nat /\ marks \in Nat /\ reserved \in Nat /\ tab.count \in Nat
         /\ tab.cap \in Nat \ {0} /\ serial <= MaxSerial
         /\ last \in [Names -> 0 .. MaxSerial] /\ \A n \in Names : last[n] \in Nat
  <1>1. tab.count \in Nat /\ tab.cap \in Nat \ {0}
    BY DEF IInv, StoreInv, Table, TableType
  <1>2. last \in [Names -> 0 .. MaxSerial] /\ serial \in 0 .. MaxSerial /\ marks \in Nat /\ reserved \in Nat
    BY DEF IInv, TypeOK
  <1>3. \A n \in Names : last[n] \in Nat
    BY <1>2
  <1> QED
    BY <1>1, <1>2, <1>3

\* Sizing the table for the text changes no answer.
LEMMA PrepareStep ==
  ASSUME Rebuilds, IInv, NEW n \in 1 .. MaxSerial, NEW fails, Prepare(n, fails)
  PROVE  IInv'
  <1>1. tab.count = 0 /\ Table(tab) /\ mode = "engine"
    BY Typed DEF IInv, StoreInv, Prepare
  <1>2. /\ Table(tab') /\ tab'.count = 0 /\ \A m \in Names : SameAnswer(tab, tab', m)
        /\ fails = "none" => n * 100 <= tab'.cap * NtLoadPct
    BY <1>1, ReserveDoes DEF Prepare
  <1>3. tab'.cap \in Nat
    BY <1>2 DEF Table, TableType
  <1>4. TypeOK'
    BY DEF IInv, TypeOK, Prepare
  <1>5. StoreInv'
    <2>1. reserved' * 100 <= tab'.cap * NtLoadPct
      <3>1. CASE fails = "none"
        BY <1>2, <3>1 DEF Prepare
      <3>2. CASE fails # "none"
        <4>1. reserved' = 0
          BY <3>2 DEF Prepare
        <4>2. \A c \in Nat, p \in 1 .. 99 : 0 * 100 <= c * p
          OBVIOUS
        <4> QED
          BY <1>3, <4>1, <4>2
      <3> QED
        BY <3>1, <3>2
    <2> QED
      BY <1>2, <2>1, Typed DEF IInv, StoreInv, Prepare
  <1>6. EngineInv'
    BY <1>1, <1>2 DEF IInv, EngineInv, Prepare, SameAnswer
  <1>7. CanonInv'
    BY <1>1 DEF CanonInv, Prepare
  <1> QED
    BY <1>4, <1>5, <1>6, <1>7 DEF IInv

\* The table keeps its room while names are put in.
LEMMA RoomKept ==
  ASSUME NEW r \in Nat, NEW a \in Nat, NEW b \in Nat, a <= b, r * 100 <= a * NtLoadPct
  PROVE  r * 100 <= b * NtLoadPct
  <1>1. \A x, y, p \in Nat : x <= y => x * p <= y * p
    OBVIOUS
  <1>2. a * NtLoadPct <= b * NtLoadPct /\ NtLoadPct \in Nat
    BY <1>1
  <1>3. a * NtLoadPct \in Nat /\ b * NtLoadPct \in Nat
    BY <1>2
  <1> QED
    BY <1>2, <1>3

\* A defined anchor is what its name means from now on.
LEMMA DefineStep ==
  ASSUME Rebuilds, Orderly, IInv, NEW name \in Names, NEW fails, Define(name, fails)
  PROVE  IInv'
  <1> DEFINE id == serial + 1
             set == yep_nametab_set(tab, name, id, fails)
  <1>1. /\ serial \in Nat /\ marks \in Nat /\ id \in Nat /\ serial < MaxSerial /\ mode = "engine"
        /\ Table(tab) /\ memo.name # name
        /\ (last[name] = 0 \/ fails # "marks" \/ serial < marks)
    BY Typed DEF IInv, StoreInv, Define, Orderly
  <1>2. last \in [Names -> 0 .. MaxSerial] /\ \A m \in Names : last[m] \in Nat /\ last[m] <= serial
    BY <1>1, Typed DEF IInv, EngineInv
  <1>a. UNCHANGED <<mode, memo, reserved, emitted>>
    BY DEF Define
  <1>3. CASE /\ id > marks /\ fails = "marks"
             /\ last' = [last EXCEPT ![name] = 0]
             /\ UNCHANGED <<serial, marks, placed, tab>>
    <2>1. last[name] = 0
      BY <1>1, <1>3
    <2>2. last' = last
      BY <1>2, <1>3, <2>1
    <2> QED
      BY <1>3, <1>a, <2>2 DEF IInv, TypeOK, StoreInv, EngineInv, CanonInv
  <1>4. CASE /\ id <= marks \/ fails # "marks"
             /\ serial' = id /\ marks' = MarksFor(id)
             /\ tab' = set.tab
             /\ last' = [last EXCEPT ![name] = IF set.ok THEN id ELSE 0]
             /\ UNCHANGED placed
    <2>1. SetTo(tab, name, id, fails, set)
      BY <1>1, SetDoes
    <2>2. id <= marks' /\ marks' \in Nat
      <3>1. CASE id <= marks
        BY <1>1, <1>4, <3>1 DEF MarksFor
      <3>2. CASE ~(id <= marks)
        <4> DEFINE base == IF marks = 0 THEN MarksCap ELSE marks
        <4>1. base \in Nat \ {0}
          BY <1>1
        <4>2. marks' = Doubled(base, id)
          BY <1>4, <3>2 DEF MarksFor
        <4> HIDE DEF base, id
        <4>3. Doubled(base, id) \in Nat /\ Doubled(base, id) >= id
          BY <1>1, <4>1, DoubledReaches
        <4> QED
          BY <1>1, <4>2, <4>3
      <3> QED
        BY <3>1, <3>2
    <2> HIDE DEF set
    <2>3. last' \in [Names -> 0 .. MaxSerial] /\ \A m \in Names : m # name => last'[m] = last[m]
      BY <1>1, <1>2, <1>4
    <2>4. last'[name] = IF set.ok THEN id ELSE 0
      BY <1>2, <1>4
    <2>5. TypeOK'
      BY <1>1, <1>4, <1>a, <2>2, <2>3 DEF IInv, TypeOK
    <2>6. StoreInv'
      <3>1. Table(tab') /\ tab'.cap >= tab.cap /\ tab'.count \in {tab.count, tab.count + 1}
        BY <1>4, <2>1 DEF SetTo
      <3>2. tab.cap \in Nat /\ tab.count \in Nat /\ reserved \in Nat /\ tab'.cap \in Nat
        BY <3>1, Typed DEF Table, TableType
      <3>3. reserved * 100 <= tab'.cap * NtLoadPct
        BY <3>1, <3>2, RoomKept DEF IInv, StoreInv
      <3>4. tab'.count <= serial'
        BY <1>1, <1>4, <3>1, <3>2 DEF IInv, StoreInv
      <3> QED
        BY <1>4, <1>a, <3>1, <3>3, <3>4 DEF IInv, StoreInv
    <2>7. EngineInv'
      <3>1. \A m \in Names : last'[m] <= id
        BY <1>1, <1>2, <2>3, <2>4
      <3>2. ASSUME NEW m \in Names
            PROVE  yep_nametab_get(tab', m) = IF last'[m] = 0 THEN Nil ELSE last'[m]
        <4>1. CASE m = name
          <5>1. CASE set.ok
            BY <1>1, <1>4, <2>1, <2>4, <4>1, <5>1 DEF SetTo
          <5>2. CASE ~set.ok
            BY <1>4, <2>1, <2>4, <4>1, <5>2 DEF SetTo
          <5> QED
            BY <5>1, <5>2
        <4>2. CASE m # name
          <5>1. yep_nametab_get(tab', m) = yep_nametab_get(tab, m)
            BY <1>4, <2>1, <4>2 DEF SetTo, SameAnswer
          <5> QED
            BY <1>1, <2>3, <4>2, <5>1 DEF IInv, EngineInv
        <4> QED
          BY <4>1, <4>2
      <3>3. memo'.name \in Names => memo'.ord = last'[memo'.name]
        BY <1>1, <1>a, <2>3 DEF IInv, EngineInv
      <3> QED
        BY <1>4, <2>2, <3>1, <3>2, <3>3 DEF EngineInv
    <2>8. CanonInv'
      BY <1>1, <1>a DEF CanonInv
    <2> QED
      BY <2>5, <2>6, <2>7, <2>8 DEF IInv
  <1> QED
    BY <1>3, <1>4 DEF Define, anchor_define

\* A node that goes out is marked and emitted at once.
LEMMA MarkStep ==
  ASSUME IInv, NEW id \in 1 .. MaxSerial, e_anchor_mark(id)
  PROVE  IInv'
  <1>1. placed' = placed \cup {id} /\ emitted' = emitted \cup {id} /\ id \in 1 .. serial
        /\ UNCHANGED <<mode, tab, serial, marks, memo, last, reserved>>
    BY DEF e_anchor_mark
  <1>2. TypeOK'
    BY <1>1 DEF IInv, TypeOK
  <1>3. StoreInv' /\ EngineInv' /\ CanonInv'
    BY <1>1 DEF IInv, StoreInv, EngineInv, CanonInv
  <1> QED
    BY <1>2, <1>3 DEF IInv

\* With the invariant the engine's lookup answers with the last definition.
LEMMA LookupRight ==
  ASSUME IInv, mode = "engine", NEW name \in Names
  PROVE  anchor_id_of(name) = last[name]
  <1>1. CASE memo.name = name
    BY <1>1 DEF IInv, EngineInv, anchor_id_of
  <1>2. CASE memo.name # name
    <2>1. last[name] \in Nat /\ yep_nametab_get(tab, name) = IF last[name] = 0 THEN Nil ELSE last[name]
      BY Typed DEF IInv, EngineInv
    <2> QED
      BY <1>2, <2>1 DEF anchor_id_of, Nil
  <1> QED
    BY <1>1, <1>2

\* The memo repeats an answer of the table.
LEMMA AliasStep ==
  ASSUME IInv, NEW name \in Names, Alias(name)
  PROVE  IInv'
  <1>1. mode = "engine" /\ UNCHANGED <<mode, tab, serial, marks, placed, last, reserved, emitted>>
    BY DEF Alias
  <1>2. anchor_id_of(name) = last[name]
    BY <1>1, LookupRight
  <1>3. last[name] \in Nat /\ last[name] <= serial /\ serial \in Nat
    BY <1>1, Typed DEF IInv, EngineInv
  <1>4. memo' = memo \/ memo' = [name |-> name, ord |-> last[name]]
    BY <1>2 DEF Alias
  <1>5. memo'.name \in Names \cup {<<>>} /\ memo'.ord \in 0 .. serial
        /\ (memo'.name \in Names => memo'.ord = last[memo'.name])
    <2>1. CASE memo' = memo
      BY <1>1, <2>1 DEF IInv, TypeOK, EngineInv
    <2>2. CASE memo' = [name |-> name, ord |-> last[name]]
      BY <1>3, <2>2
    <2> QED
      BY <1>4, <2>1, <2>2
  <1>6. TypeOK'
    BY <1>1, <1>5 DEF IInv, TypeOK
  <1>7. StoreInv' /\ EngineInv' /\ CanonInv'
    BY <1>1, <1>5 DEF IInv, StoreInv, EngineInv, CanonInv
  <1> QED
    BY <1>6, <1>7 DEF IInv

\* The boundary of two documents forgets table, marks and memo together.
LEMMA EndDocumentStep ==
  ASSUME IInv, EndDocument
  PROVE  IInv'
  <1>1. tab.cap \in Nat \ {0} /\ serial \in Nat /\ serial <= MaxSerial /\ reserved \in Nat
    BY Typed
  <1>2. /\ tab' = Cleared(tab.cap) /\ placed' = {} /\ emitted' = {} /\ memo' = NoMemo
        /\ last' = Undefined /\ mode' = mode /\ marks' = marks /\ reserved' = reserved
        /\ serial' = IF mode = "canon" THEN 0 ELSE serial
    BY DEF EndDocument, yep_nametab_clear
  <1>3. /\ Table(tab') /\ tab'.count = 0 /\ tab'.cap = tab.cap
        /\ \A n \in Names : yep_nametab_get(tab', n) = Nil
    BY <1>1, <1>2, FreshTable
  <1>4. last' = [n \in Names |-> 0] /\ \A n \in Names : last'[n] = 0
    BY <1>2 DEF Undefined
  <1>5. memo'.name = <<>> /\ memo'.ord = 0 /\ <<>> \notin Names
    BY <1>2, NamesTyped DEF NoMemo
  <1>6. serial' \in 0 .. MaxSerial /\ serial' \in Nat
    BY <1>1, <1>2
  <1>7. TypeOK'
    BY <1>2, <1>4, <1>5, <1>6 DEF IInv, TypeOK
  <1>8. StoreInv'
    BY <1>2, <1>3, <1>6 DEF IInv, StoreInv
  <1>9. EngineInv'
    BY <1>2, <1>3, <1>4, <1>5, <1>6 DEF IInv, EngineInv
  <1>10. CanonInv'
    BY <1>3, <1>4 DEF CanonInv, Nil
  <1> QED
    BY <1>7, <1>8, <1>9, <1>10 DEF IInv

\* An anchor met again keeps its canonical name, a new one gets the next.
LEMMA CanonStep ==
  ASSUME Rebuilds, Orderly, IInv, NEW name \in Names, NEW fails, emit_anchor_ex(name, fails)
  PROVE  IInv'
  <1> DEFINE got == yep_nametab_get(tab, name)
             idx == CanonIndex(name)
             set == yep_nametab_set(tab, name, idx, fails)
             count == tab.count
  <1>1. /\ mode = "canon" /\ fails = "none" /\ serial \in Nat /\ serial < MaxSerial
        /\ count \in Nat /\ count <= serial /\ Table(tab)
    BY Typed DEF IInv, StoreInv, emit_anchor_ex, Orderly
  <1>2. /\ last \in [Names -> 0 .. MaxSerial]
        /\ \A m \in Names : last[m] \in Nat /\ last[m] <= count /\ yep_nametab_get(tab, m) = last[m] - 1
    BY <1>1, Typed DEF IInv, CanonInv
  <1>a. /\ serial' = serial + 1 /\ UNCHANGED <<mode, marks, placed, memo, reserved, emitted>>
        /\ last' = [last EXCEPT ![name] = idx + 1]
        /\ tab' = IF got # Nil THEN tab ELSE set.tab
    BY DEF emit_anchor_ex
  <1>3. CASE got # Nil
    <2>1. idx = got /\ got = last[name] - 1
      BY <1>2, <1>3 DEF CanonIndex
    <2>2. last' = last /\ tab' = tab
      BY <1>2, <1>3, <1>a, <2>1
    <2>3. TypeOK'
      BY <1>1, <1>a, <2>2 DEF IInv, TypeOK
    <2>4. StoreInv'
      BY <1>1, <1>a, <2>2 DEF IInv, StoreInv
    <2>5. EngineInv' /\ CanonInv'
      BY <1>1, <1>a, <2>2 DEF IInv, EngineInv, CanonInv
    <2> QED
      BY <2>3, <2>4, <2>5 DEF IInv
  <1>4. CASE got = Nil
    <2>1. idx = count /\ last[name] = 0 /\ idx \in Nat
      BY <1>1, <1>2, <1>4 DEF CanonIndex, Nil
    <2>2. SetTo(tab, name, idx, fails, set)
      BY <1>1, <2>1, SetDoes
    <2>3. tab' = set.tab
      BY <1>4, <1>a
    <2> HIDE DEF set, idx
    <2>4. /\ Table(tab') /\ tab'.count = count + 1 /\ tab'.cap >= tab.cap
          /\ yep_nametab_get(tab', name) = idx
          /\ \A m \in Names : m # name => yep_nametab_get(tab', m) = yep_nametab_get(tab, m)
      BY <1>1, <1>4, <2>2, <2>3 DEF SetTo, SameAnswer
    <2>5. /\ last' \in [Names -> 0 .. MaxSerial] /\ last'[name] = count + 1
          /\ \A m \in Names : m # name => last'[m] = last[m]
      BY <1>1, <1>2, <1>a, <2>1
    <2>6. TypeOK'
      BY <1>1, <1>a, <2>5 DEF IInv, TypeOK
    <2>7. StoreInv'
      <3>1. tab.cap \in Nat /\ reserved \in Nat /\ tab'.cap \in Nat
        BY <2>4, Typed DEF Table, TableType
      <3>2. reserved * 100 <= tab'.cap * NtLoadPct
        BY <2>4, <3>1, RoomKept DEF IInv, StoreInv
      <3>3. tab'.count <= serial'
        BY <1>1, <1>a, <2>4
      <3> QED
        BY <1>a, <2>4, <3>2, <3>3 DEF IInv, StoreInv
    <2>8. EngineInv'
      BY <1>1, <1>a DEF EngineInv
    <2>9. CanonInv'
      <3>1. ASSUME NEW m \in Names
            PROVE  yep_nametab_get(tab', m) = last'[m] - 1 /\ last'[m] <= tab'.count
        <4>1. CASE m = name
          BY <1>1, <2>1, <2>4, <2>5, <4>1
        <4>2. CASE m # name
          BY <1>1, <1>2, <2>4, <2>5, <4>2
        <4> QED
          BY <4>1, <4>2
      <3>2. ASSUME NEW a \in Names, NEW b \in Names, last'[a] = last'[b], last'[a] # 0
            PROVE  a = b
        <4>1. \A m \in Names : m # name => last'[m] # count + 1
          BY <1>1, <1>2, <2>5
        <4>2. CASE a = name \/ b = name
          BY <2>5, <3>2, <4>1, <4>2
        <4>3. CASE a # name /\ b # name
          BY <1>1, <2>5, <3>2, <4>3 DEF IInv, CanonInv
        <4> QED
          BY <4>2, <4>3
      <3> QED
        BY <3>1, <3>2 DEF CanonInv
    <2> QED
      BY <2>6, <2>7, <2>8, <2>9 DEF IInv
  <1> QED
    BY <1>3, <1>4

\* Every step keeps the invariant.
LEMMA InvNext ==
  ASSUME Rebuilds, Orderly, IInv, [Next]_vars PROVE IInv'
  <1>1. CASE Next
    <2>1. ASSUME NEW n \in 1 .. MaxSerial, NEW fails \in {"none", "slots"}, Prepare(n, fails) PROVE IInv'
      BY <2>1, PrepareStep
    <2>2. ASSUME NEW name \in Names, NEW fails \in Failures, Define(name, fails) PROVE IInv'
      BY <2>2, DefineStep
    <2>3. ASSUME NEW id \in 1 .. MaxSerial, e_anchor_mark(id) PROVE IInv'
      BY <2>3, MarkStep
    <2>4. ASSUME NEW name \in Names, Alias(name) PROVE IInv'
      BY <2>4, AliasStep
    <2>5. ASSUME EndDocument PROVE IInv'
      BY <2>5, EndDocumentStep
    <2>6. ASSUME NEW name \in Names, NEW fails \in Failures, emit_anchor_ex(name, fails) PROVE IInv'
      BY <2>6, CanonStep
    <2> QED
      BY <1>1, <2>1, <2>2, <2>3, <2>4, <2>5, <2>6 DEF Next
  <1>2. CASE UNCHANGED vars
    BY <1>2 DEF vars, IInv, TypeOK, StoreInv, EngineInv, CanonInv
  <1> QED
    BY <1>1, <1>2

-----------------------------------------------------------------------------
(* The theorems.                                                           *)

\* The invariant holds throughout.
LEMMA InvAlways ==
  ASSUME Rebuilds, Orderly
  PROVE  Spec => []IInv
  <1>1. Init => IInv
    BY InvInit
  <1>2. IInv /\ [Next]_vars => IInv'
    BY InvNext
  <1> QED
    BY <1>1, <1>2, PTL DEF Spec

\* For streams of any length, names of any lengths the table packs without loss, tables and
\* marks of every size, and whatever allocations fail: an alias is answered with the last
\* definition of its name in this document and accepted exactly when that node was emitted
\* (engine.c: anchor_define, anchor_id_of, e_anchor_mark; nametab.c).
THEOREM AliasesAlwaysResolve ==
  ASSUME Rebuilds, Orderly
  PROVE  Spec => []AliasesResolve
  <1>1. IInv => AliasesResolve
    <2> SUFFICES ASSUME IInv PROVE AliasesResolve
      OBVIOUS
    <2>1. TypeOK
      BY DEF IInv
    <2>2. AliasFindsLast
      BY LookupRight DEF AliasFindsLast
    <2>3. AcceptsEmitted
      <3> SUFFICES ASSUME mode = "engine", NEW name \in Names
                   PROVE  Accepts(name) <=> last[name] # 0 /\ last[name] \in emitted
        BY DEF AcceptsEmitted
      <3>1. anchor_id_of(name) = last[name]
        BY LookupRight
      <3>2. /\ last[name] \in Nat /\ serial \in Nat /\ marks \in Nat
            /\ last[name] <= serial /\ serial <= marks /\ placed = emitted
        BY Typed DEF IInv, EngineInv, StoreInv
      <3>3. last[name] # 0 => last[name] <= serial /\ marks > 0
        BY <3>2
      <3> QED
        BY <3>1, <3>2, <3>3 DEF Accepts
    <2> QED
      BY <2>1, <2>2, <2>3 DEF AliasesResolve
  <1> QED
    BY <1>1, InvAlways, PTL

\* Two anchors of a document never get one canonical name, an alias spells the name its anchor
\* was given, and every probe of the table ends, also after a growth that failed
\* (writer.c: emit_anchor_ex; nametab.c: yep_nametab_set).
THEOREM NamesAlwaysApart ==
  ASSUME Rebuilds, Orderly
  PROVE  Spec => []NamesApart
  <1>1. IInv => NamesApart
    <2> SUFFICES ASSUME IInv PROVE NamesApart
      OBVIOUS
    <2>1. CanonNamesApart
      BY DEF IInv, CanonInv, CanonNamesApart
    <2>2. ProbesEnd
      <3>1. tab.cap \in Nat \ {0} /\ Cardinality(Used(tab.cap, tab.slots)) < tab.cap
        BY DEF IInv, StoreInv, Table, TableType
      <3>2. PICK j \in 0 .. tab.cap - 1 : j \notin Used(tab.cap, tab.slots)
        BY <3>1, FreeSlot
      <3>3. IsFree(tab, j)
        BY <3>2 DEF Used, IsFree
      <3> QED
        BY <3>3 DEF ProbesEnd
    <2> QED
      BY <2>1, <2>2 DEF NamesApart
  <1> QED
    BY <1>1, InvAlways, PTL

\* A table with room for n names is not crowded before it has them.
LEMMA RoomMeansNotCrowded ==
  ASSUME NEW t, NEW r \in Nat, t.count \in Nat, t.cap \in Nat,
         r * 100 <= t.cap * NtLoadPct, t.count < r
  PROVE  ~Crowded(t)
  <1>1. \A c, k \in Nat, p \in 1 .. 99 : c < r /\ r * 100 <= k * p => ~((c + 1) * 100 > k * p)
    OBVIOUS
  <1> QED
    BY <1>1 DEF Crowded

\* A table reserved for the anchors of a text never grows while it holds fewer, over any number
\* of documents of the stream (nametab.h on reserve, "no rehash while count stays <= n").
THEOREM ReservedNeverRehashes ==
  ASSUME Rebuilds, Orderly
  PROVE  Spec => ReservedNeverGrows
  <1>1. IInv /\ [Next]_vars => [tab.count < reserved => tab'.cap = tab.cap]_tab
    <2> SUFFICES ASSUME IInv, [Next]_vars, tab' # tab, tab.count < reserved
                 PROVE  tab'.cap = tab.cap
      BY Zenon
    <2>1. /\ tab.count \in Nat /\ tab.cap \in Nat \ {0} /\ reserved \in Nat /\ Table(tab)
          /\ reserved * 100 <= tab.cap * NtLoadPct /\ serial \in Nat /\ reserved # 0
      BY Typed DEF IInv, StoreInv
    <2>2. ~Crowded(tab)
      BY <2>1, RoomMeansNotCrowded
    <2>3. ASSUME NEW name \in Names, NEW value \in Nat, NEW fails
          PROVE  yep_nametab_set(tab, name, value, fails).tab.cap = tab.cap
      BY <2>1, <2>2, SetDoes DEF SetTo
    <2>4. ASSUME NEW n, NEW fails, Prepare(n, fails) PROVE FALSE
      BY <2>1, <2>4 DEF Prepare
    <2>5. ASSUME NEW name \in Names, NEW fails, Define(name, fails) PROVE tab'.cap = tab.cap
      <3>1. serial + 1 \in Nat
        BY <2>1
      <3>2. tab' = yep_nametab_set(tab, name, serial + 1, fails).tab
        BY <2>5 DEF Define, anchor_define
      <3> QED
        BY <2>3, <3>1, <3>2
    <2>6. ASSUME EndDocument PROVE tab'.cap = tab.cap
      <3>1. tab' = Cleared(tab.cap)
        BY <2>6 DEF EndDocument, yep_nametab_clear
      <3> QED
        BY <2>1, <3>1, FreshTable
    <2>7. ASSUME NEW name \in Names, NEW fails, emit_anchor_ex(name, fails) PROVE tab'.cap = tab.cap
      <3>1. CanonIndex(name) \in Nat
        <4>1. yep_nametab_get(tab, name) \in Nat \cup {Nil}
          BY <2>1, GetEither
        <4> QED
          BY <2>1, <4>1 DEF CanonIndex
      <3>2. tab' = yep_nametab_set(tab, name, CanonIndex(name), fails).tab
        BY <2>7 DEF emit_anchor_ex
      <3> QED
        BY <2>3, <3>1, <3>2
    <2>8. ASSUME NEW id, e_anchor_mark(id) PROVE FALSE
      BY <2>8 DEF e_anchor_mark
    <2>9. ASSUME NEW name, Alias(name) PROVE FALSE
      BY <2>9 DEF Alias
    <2>10. ~UNCHANGED vars
      BY DEF vars
    <2> QED
      BY <2>4, <2>5, <2>6, <2>7, <2>8, <2>9, <2>10 DEF Next
  <1>2. Spec => []IInv
    BY InvAlways
  <1> QED
    BY <1>1, <1>2, PTL DEF Spec, ReservedNeverGrows

=============================================================================
