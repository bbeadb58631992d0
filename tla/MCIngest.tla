------------------------------ MODULE MCIngest ------------------------------
(* Small instances of Ingest. Two devices present the same run id, as cloned SD
   images do; c1 and c2 are their cars, and c2 registers late. *)
EXTENDS Ingest, TLC

CONSTANTS d1, d2, s1, s2, c1, c2

MCMono == [f \in Frame |-> f.seq]

MCCarDevice == [c \in CarId |-> IF c = c1 THEN d1 ELSE d2]

F(d, s, q) == [dev |-> d, sid |-> s, seq |-> q]
M(k, d, fs) == [kind |-> k, dev |-> d, sid |-> s1, mono |-> 0, frames |-> fs]

(* The run of d1: live frames, a batch repeating them after a frame of another run, and
   its end; d2 publishes frames of a run with the same sid, and ends it. *)
MCMessages ==
  { M("start", d1, <<>>), M("frame", d1, <<F(d1, s1, 1)>>), M("frame", d1, <<F(d1, s1, 2)>>),
    M("batch", d1, <<F(d1, s2, 3), F(d1, s1, 1), F(d1, s1, 2)>>), M("batch", d1, <<>>),
    M("stop", d1, <<>>), M("frame", d2, <<F(d2, s1, 1)>>), M("stop", d2, <<>>) }

(* Database ids and lookup slots are interchangeable. *)
Ids == Permutations(SessionId) \cup Permutations(LoadId)

=============================================================================
