----------------------------- MODULE MCFrontend -----------------------------
(* Instances of Frontend for TLC. *)
EXTENDS Frontend

CONSTANTS z1, z2, new, none

TwoZones == {z1, z2}
SameKind == [z \in Zones |-> "accounts"]
Instant == {FALSE}
Fading == {TRUE}
Both == {TRUE, FALSE}

\* A fade of the Signal theme loads the page as well.
Load == [s \in BOOLEAN |-> IF s THEN 1 ELSE 2]
HeavyLoad == [s \in BOOLEAN |-> 2]

=============================================================================
