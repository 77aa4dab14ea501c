------------------------------ MODULE MCAppTimers ------------------------------
(* An instance of AppTimers for TLC. *)
EXTENDS AppTimers

CONSTANTS a, b, s1, s2, s3

TwoTexts == {a, b}
ThreeSlots == {s1, s2, s3}

=============================================================================
