----------------------------- MODULE MCAnchors ------------------------------
(* Anchors for TLC: two names of each length, which differ in their last    *)
(* byte.                                                                    *)
EXTENDS Anchors

CONSTANT Lengths  \* the lengths of the names in use

TwoOfEach == {[i \in 1 .. n |-> IF i = n THEN last_byte ELSE 1] : n \in Lengths, last_byte \in {1, 2}}
=============================================================================
