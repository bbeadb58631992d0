---------------------------- MODULE MCTeamRoster ----------------------------
(* Three users, two requests at a time. *)
EXTENDS TeamRoster, TLC

CONSTANTS u1, u2, u3, r1, r2, w1, w2, w3, w4

Alike == Permutations(Row) \cup Permutations(Req) \cup Permutations(User \ Admin)

=============================================================================
