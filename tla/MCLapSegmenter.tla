--------------------------- MODULE MCLapSegmenter ----------------------------
(* A short session about the line x = 0: fixes before it, behind it and on it, and samples
   without a position. Samples two apart with one lost between them are too far apart. *)
EXTENDS LapSegmenter

MCFix == { [at |-> <<-2, 0>>, slow |-> FALSE], [at |-> <<2, 0>>, slow |-> FALSE],
           [at |-> <<0, 0>>, slow |-> TRUE], [at |-> None, slow |-> FALSE] }
MCGate == [a |-> <<0, -1>>, b |-> <<0, 1>>]

=============================================================================
