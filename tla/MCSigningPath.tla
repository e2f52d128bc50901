--------------------------- MODULE MCSigningPath ---------------------------
(* The instance of SigningPath for TLC. *)
EXTENDS SigningPath

CONSTANTS c1, c2

\* There is time for a second attempt of one call only.
Attempts == [c \in Call |-> IF c = c1 THEN 2 ELSE 1]
=============================================================================
