------------------------------- MODULE Anchors -------------------------------
(***************************************************************************)
(* The two users of the name table.                                        *)
(*                                                                         *)
(* mode "engine": parse/engine.c numbers the anchors of a stream, keeps the *)
(* number of each name in a table, remembers the last alias it looked up,   *)
(* and refuses an alias whose anchor's node has not been emitted yet.       *)
(* mode "canon": the canonical form of emit/writer.c renames the anchors of *)
(* a document a0, a1, ... in the order it meets them.                       *)
(*                                                                         *)
(* last and emitted are what the stream says: the definition an alias must  *)
(* mean (or the canonical name an anchor was given) and the anchors whose   *)
(* nodes went out.  They are not part of the code.                          *)
(***************************************************************************)
EXTENDS NameTable, FiniteSets

CONSTANTS
  MaxSerial,  \* bound: anchors of a stream
  MarksCap,   \* the first size of the placed marks (64 in the code)
  Edges       \* the behaviours of section 5 of the README let in by a run

ASSUME AnchorsAssumption == MaxSerial \in Nat /\ MarksCap \in Nat \ {0}

VARIABLES mode, tab, serial, marks, placed, memo, last, emitted, reserved

vars == <<mode, tab, serial, marks, placed, memo, last, emitted, reserved>>

\* The allocation of a call that gets no memory: the slots of a growth, the side
\* tables of the long names, or the placed marks.
Failures == {"none", "slots", "entries", "marks"}

\* The call asks for that memory at all.
Asked(name, fails) ==
  \/ fails = "none"
  \/ fails = "slots" /\ Crowded(tab)
  \/ fails = "entries" /\ Len(name) > 8
  \/ fails = "marks" /\ serial >= marks

NoMemo == [name |-> <<>>, ord |-> 0]

Undefined == [n \in Names |-> 0]

TypeOK ==
  /\ mode \in {"engine", "canon"}
  /\ serial \in 0 .. MaxSerial /\ marks \in Nat /\ reserved \in Nat
  /\ placed \subseteq 1 .. serial
  /\ memo.name \in Names \cup {<<>>} /\ memo.ord \in 0 .. serial
  /\ last \in [Names -> 0 .. MaxSerial]

Init ==
  /\ mode \in {"engine", "canon"}
  /\ tab = EmptyTable
  /\ serial = 0 /\ marks = 0 /\ placed = {} /\ reserved = 0
  /\ memo = NoMemo
  /\ last = Undefined /\ emitted = {}

----------------------------------------------------------------------------
(* The engine's anchors. *)

\* yep_engine_prepare sizes the table for every '&' the text holds.
Prepare(n, fails) ==
  /\ mode = "engine" /\ serial = 0 /\ reserved = 0
  /\ tab' = yep_nametab_reserve(tab, n, fails)
  /\ reserved' = IF fails = "none" THEN n ELSE 0
  /\ UNCHANGED <<mode, serial, marks, placed, memo, last, emitted>>

\* The size of the placed marks once ordinal id has a mark.
MarksFor(id) == IF id <= marks THEN marks
                ELSE Doubled(IF marks = 0 THEN MarksCap ELSE marks, id)

anchor_define(name, fails) ==
  LET id == serial + 1
      set == yep_nametab_set(tab, name, id, fails)
  IN  \/ /\ id > marks /\ fails = "marks"
         /\ last' = [last EXCEPT ![name] = 0]
         /\ UNCHANGED <<serial, marks, placed, tab>>
      \/ /\ id <= marks \/ fails # "marks"
         /\ serial' = id /\ marks' = MarksFor(id)
         /\ tab' = set.tab
         /\ last' = [last EXCEPT ![name] = IF set.ok THEN id ELSE 0]
         /\ UNCHANGED placed

\* An anchor is met.  The name of the last alias is defined again, and a defined
\* name is defined again while memory fails, only where Edges lets them.
Define(name, fails) ==
  /\ mode = "engine" /\ serial < MaxSerial /\ Asked(name, fails)
  /\ memo.name # name \/ "redefine_after_alias" \in Edges
  /\ last[name] = 0 \/ fails # "marks" \/ serial < marks \/ "redefine_oom" \in Edges
  /\ anchor_define(name, fails)
  /\ UNCHANGED <<mode, memo, reserved, emitted>>

\* The event of the anchor's node went out, or the node reached a fused callback.
e_anchor_mark(id) ==
  /\ mode = "engine" /\ id \in 1 .. serial
  /\ \E n \in Names : last[n] = id
  /\ placed' = placed \cup {id} /\ emitted' = emitted \cup {id}
  /\ UNCHANGED <<mode, tab, serial, marks, memo, last, reserved>>

anchor_id_of(name) ==
  IF memo.name = name THEN memo.ord
  ELSE LET id == yep_nametab_get(tab, name) IN IF id = Nil THEN 0 ELSE id

\* An alias is met: a name the table knows becomes the memo.
Alias(name) ==
  /\ mode = "engine"
  /\ memo' = IF anchor_id_of(name) = 0 THEN memo
             ELSE [name |-> name, ord |-> anchor_id_of(name)]
  /\ UNCHANGED <<mode, tab, serial, marks, placed, last, reserved, emitted>>

\* A composing sink takes the alias: its anchor is defined and its node placed.
Accepts(name) ==
  LET target == anchor_id_of(name)
  IN  target # 0 /\ (target <= serial /\ marks > 0 => target \in placed)

\* mutant: the boundary of two documents keeps the memo
EndDocument_KeepsMemo ==
  /\ tab' = yep_nametab_clear(tab)
  /\ placed' = {}
  /\ last' = Undefined /\ emitted' = {}
  /\ UNCHANGED <<mode, serial, marks, reserved, memo>>

\* A document ends, by a marker or with the stream; the emitter starts the next one.
EndDocument ==
  /\ tab' = yep_nametab_clear(tab)
  /\ placed' = {}
  /\ memo' = NoMemo
  /\ last' = Undefined /\ emitted' = {}
  /\ serial' = IF mode = "canon" THEN 0 ELSE serial
  /\ UNCHANGED <<mode, marks, reserved>>

----------------------------------------------------------------------------
(* The canonical names of the emitter; serial counts the anchors written. *)

\* The number emit_anchor_ex writes after 'a'.
CanonIndex(name) ==
  LET idx == yep_nametab_get(tab, name) IN IF idx = Nil THEN tab.count ELSE idx

emit_anchor_ex(name, fails) ==
  /\ mode = "canon" /\ serial < MaxSerial
  /\ fails = "none" \/ ("canon_oom" \in Edges /\ Asked(name, fails))
  /\ last' = [last EXCEPT ![name] = CanonIndex(name) + 1]
  /\ tab' = IF yep_nametab_get(tab, name) # Nil THEN tab
            ELSE yep_nametab_set(tab, name, CanonIndex(name), fails).tab
  /\ serial' = serial + 1
  /\ UNCHANGED <<mode, marks, placed, memo, reserved, emitted>>

Next ==
  \/ \E n \in 1 .. MaxSerial, fails \in {"none", "slots"} : Prepare(n, fails)
  \/ \E name \in Names, fails \in Failures : Define(name, fails)
  \/ \E id \in 1 .. MaxSerial : e_anchor_mark(id)
  \/ \E name \in Names : Alias(name)
  \/ EndDocument
  \/ \E name \in Names, fails \in Failures : emit_anchor_ex(name, fails)

Spec == Init /\ [][Next]_vars

----------------------------------------------------------------------------
\* Whatever was defined, redefined, reserved and grown, with any allocation
\* failing, an alias is answered with the last definition of its name in this
\* document, and with nothing when there is none (engine.c:452 "Last definition
\* wins"; nametab.c:6-7 for what tells two names apart).
AliasFindsLast ==
  mode = "engine" => \A name \in Names : anchor_id_of(name) = last[name]

\* A composing sink accepts an alias exactly when the node of the last definition
\* has been emitted in this document; marks grow without losing one.
AcceptsEmitted ==
  mode = "engine" =>
    \A name \in Names : Accepts(name) <=> last[name] # 0 /\ last[name] \in emitted

\* An alias is answered with the last definition of its name in this document and accepted
\* when that node has been emitted (engine.c: anchor_define, anchor_id_of, e_anchor_mark).
AliasesResolve == TypeOK /\ AliasFindsLast /\ AcceptsEmitted

\* Two anchors of a document never share a canonical name, and an alias spells the
\* name its anchor was given.
CanonNamesApart ==
  mode = "canon" =>
    /\ \A a, b \in Names : last[a] = last[b] /\ last[a] # 0 => a = b
    /\ \A a \in Names : last[a] # 0 => yep_nametab_get(tab, a) = last[a] - 1

\* Linear probing ends: the table keeps a free slot, also after a growth that failed.
ProbesEnd == \E j \in 0 .. tab.cap - 1 : IsFree(tab, j)

\* The emitter's names and the probing they rest on (writer.c:emit_anchor_ex; nametab.c).
NamesApart == CanonNamesApart /\ ProbesEnd

\* nametab.h on reserve: "no rehash while count stays <= n".
ReservedNeverGrows ==
  [][tab.count < reserved => tab'.cap = tab.cap]_tab
=============================================================================
