--------------------------- MODULE MCCommunication ---------------------------
(* Small instances of Communication for TLC. *)
EXTENDS Communication

CONSTANTS s1, s2, m1, m2, g1, g2

=============================================================================
