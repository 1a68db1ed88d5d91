------------------------------ MODULE NameTable ------------------------------
(***************************************************************************)
(* The open-addressing name table of common/nametab.c: the operations on a  *)
(* table value.  The engine keeps its anchors in one, the canonical emitter *)
(* the names it has handed out.                                             *)
(*                                                                         *)
(* A name is a sequence of bytes.  A 64-bit word is its eight bytes, lowest *)
(* first, because the order in which load_small packs the bytes of a name   *)
(* is what the table's lookups turn on.  The multiplications of the hash    *)
(* are abstracted to a checksum of the same words in the same order.        *)
(***************************************************************************)
EXTENDS Integers, SequencesExt, FiniteSetsExt

CONSTANTS
  NtMinCap,   \* NT_MIN_CAP, the slots of a fresh table (64 in the code)
  NtLoadPct,  \* NT_LOAD_PCT
  Names,      \* the names in use, sequences of bytes
  HashRange   \* hashes are 0 .. HashRange - 1

ASSUME NameTableAssumption ==
  /\ NtMinCap \in {2, 4, 8, 16, 32, 64}
  /\ NtLoadPct \in 1 .. 99
  /\ HashRange \in Nat \ {0}

ASSUME NamesAssumption == \A name \in Names : name \in Seq(0 .. 255) /\ Len(name) > 0

Nil == -1

Word(bytes) == [i \in 1 .. 8 |-> IF i <= Len(bytes) THEN bytes[i] ELSE 0]

\* The bits of n choose a four-byte, a two-byte and a one-byte load; each load
\* shifts what came before it up.  A length of 8 has none of the three bits.
load_small(p, n) ==
  LET bit(b) == (n \div b) % 2
      w4 == SubSeq(p, 1, 4 * bit(4))
      w2 == SubSeq(p, Len(w4) + 1, Len(w4) + 2 * bit(2))
      w1 == SubSeq(p, Len(w4) + Len(w2) + 1, Len(w4) + Len(w2) + bit(1))
  IN  Word(w1 \o w2 \o w4)

\* hash_round: the words are mixed in one after the other, every byte with its place.
hash_round(h, w) ==
  (3 * h + w[1] + 2 * w[2] + 3 * w[3] + 4 * w[4] + 5 * w[5] + 6 * w[6] + 7 * w[7] + 8 * w[8])
    % HashRange

yep_view_hash(name) ==
  LET n == Len(name)
      first == Word(SubSeq(name, 1, 8))
  IN  IF n <= 8 THEN hash_round(n, load_small(name, n))
      ELSE IF n <= 16 THEN hash_round(hash_round(n, first), load_small(SubSeq(name, 9, n), n - 8))
      ELSE hash_round(hash_round(n, first), Word(SubSeq(name, n - 7, n)))

key_prefix(name) == load_small(name, IF Len(name) >= 8 THEN 8 ELSE Len(name))

\* What a growth rebuilds of a short name: the first bytes of its prefix word.
Rebuilt(prefix, len) == SubSeq(prefix, 1, len)

\* The hashes of the names in use and of the names a growth rebuilds from them, and
\* the prefixes, as tables.
ViewHash ==
  [n \in Names \cup {Rebuilt(key_prefix(m), Len(m)) : m \in {k \in Names : Len(k) <= 8}}
     |-> yep_view_hash(n)]

Prefix == [n \in Names |-> key_prefix(n)]

Empty == [klen1 |-> 0, prefix |-> Word(<<>>), val |-> 0]

\* A table without names: every slot empty, nothing in the side tables.
Cleared(cap) == [cap |-> cap, slots |-> [j \in 0 .. cap - 1 |-> Empty],
                 keys |-> <<>>, values |-> <<>>, count |-> 0]

\* The table of yep_nametab_init.
EmptyTable == Cleared(NtMinCap)

yep_nametab_clear(t) == Cleared(t.cap)

Inline(slot) == slot.klen1 <= 9

\* A slot answers for a name: length and prefix agree, and a long name's bytes do.
Answers(keys, slot, name) ==
  /\ slot.klen1 = Len(name) + 1
  /\ slot.prefix = Prefix[name]
  /\ Inline(slot) \/ keys[slot.val] = name

Holds(t, j, name) == Answers(t.keys, t.slots[j], name)

\* Linear probing from the hash: the first slot that is empty or answers.  A table
\* with neither would probe for ever; the answer is then Nil.
Probe(cap, hash, stops) ==
  LET at(d) == (hash + d) % cap
      hits == {d \in 0 .. cap - 1 : at(d) \in stops}
  IN  IF hits = {} THEN Nil ELSE at(CHOOSE d \in hits : \A e \in hits : d <= e)

IsFree(t, j) == t.slots[j].klen1 = 0

SlotOf(t, name) ==
  Probe(t.cap, ViewHash[name], {j \in 0 .. t.cap - 1 : IsFree(t, j) \/ Holds(t, j, name)})

yep_nametab_get(t, name) ==
  LET j == SlotOf(t, name)
  IN  IF j = Nil \/ IsFree(t, j) THEN Nil
      ELSE IF Inline(t.slots[j]) THEN t.slots[j].val ELSE t.values[t.slots[j].val]

\* The name an entry is hashed by when the table grows: a long one from keys[], a
\* short one from the bytes of its prefix word.
KeyBytes(t, slot) == IF Inline(slot) THEN Rebuilt(slot.prefix, slot.klen1 - 1)
                     ELSE t.keys[slot.val]

\* One slot of t is moved over to the new slots: to the first free one of its name.
Moved(t, newcap, slots, src) ==
  LET free == {k \in 0 .. newcap - 1 : slots[k].klen1 = 0}
  IN  IF src.klen1 = 0 THEN slots
      ELSE [slots EXCEPT ![Probe(newcap, ViewHash[KeyBytes(t, src)], free)] = src]

nt_rehash(t, newcap) ==
  LET moved[i \in 0 .. t.cap] ==
        IF i = 0 THEN [j \in 0 .. newcap - 1 |-> Empty]
        ELSE Moved(t, newcap, moved[i - 1], t.slots[i - 1])
  IN  [t EXCEPT !.cap = newcap, !.slots = moved[t.cap]]

Overwrite(t, j, value) ==
  IF Inline(t.slots[j]) THEN [t EXCEPT !.slots[j].val = value]
  ELSE [t EXCEPT !.values[t.slots[j].val] = value]

Insert(t, name, value) ==
  LET j == SlotOf(t, name)
      long == Len(name) + 1 > 9
      slot == [klen1 |-> Len(name) + 1, prefix |-> Prefix[name],
               val |-> IF long THEN Len(t.keys) + 1 ELSE value]
  IN  [cap |-> t.cap, slots |-> [t.slots EXCEPT ![j] = slot],
       keys |-> IF long THEN Append(t.keys, name) ELSE t.keys,
       values |-> IF long THEN Append(t.values, value) ELSE t.values,
       count |-> t.count + 1]

Crowded(t) == (t.count + 1) * 100 > t.cap * NtLoadPct

\* mutant: the slot found before the growth is used after it
yep_nametab_set_NoRetry(t, name, value, fails) ==
  LET j == SlotOf(t, name)
      bigger == IF Crowded(t) THEN nt_rehash(t, 2 * t.cap) ELSE t
  IN  IF ~IsFree(t, j) THEN [tab |-> Overwrite(t, j, value), ok |-> TRUE]
      ELSE [tab |-> [bigger EXCEPT !.slots[j] = Insert(t, name, value).slots[j],
                                   !.count = @ + 1,
                                   !.keys = Insert(t, name, value).keys,
                                   !.values = Insert(t, name, value).values],
            ok |-> TRUE]

\* yep_nametab_set: fails names the allocation that gets no memory, ok is what
\* the function returns.
yep_nametab_set(t, name, value, fails) ==
  LET j == SlotOf(t, name)
      bigger == IF Crowded(t) THEN nt_rehash(t, 2 * t.cap) ELSE t
  IN  IF ~IsFree(t, j) THEN [tab |-> Overwrite(t, j, value), ok |-> TRUE]
      ELSE IF Crowded(t) /\ fails = "slots" THEN [tab |-> t, ok |-> FALSE]
      ELSE IF Len(name) + 1 > 9 /\ fails = "entries" THEN [tab |-> bigger, ok |-> FALSE]
      ELSE [tab |-> Insert(bigger, name, value), ok |-> TRUE]

\* The first doubling of base that reaches need: need doublings always do.
Doubled(base, need) ==
  LET size[k \in Nat] == IF k = 0 THEN base ELSE 2 * size[k - 1]
  IN  size[CHOOSE k \in 0 .. need : size[k] >= need /\ \A i \in 0 .. k - 1 : size[i] < need]

\* mutant: the slots for n names are counted rounding down
yep_nametab_reserve_Floor(t, n, fails) ==
  IF n * 100 <= t.cap * NtLoadPct \/ fails # "none" THEN t
  ELSE nt_rehash(t, Doubled(NtMinCap, (n * 100) \div NtLoadPct))

yep_nametab_reserve(t, n, fails) ==
  LET need == (n * 100 + NtLoadPct - 1) \div NtLoadPct
  IN  IF n * 100 <= t.cap * NtLoadPct \/ fails # "none" THEN t
      ELSE nt_rehash(t, Doubled(NtMinCap, need))
=============================================================================
