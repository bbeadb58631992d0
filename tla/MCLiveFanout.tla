---------------------------- MODULE MCLiveFanout ----------------------------
(* Three sockets, of which two may watch the cars. *)
EXTENDS LiveFanout

CONSTANTS v1, v2, v3, c1, c2

MCReadable == [c \in Conn |-> IF c = v3 THEN {} ELSE Car]

=============================================================================
