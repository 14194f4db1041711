---------------------------- MODULE BatchedStream ----------------------------
(* What the stream path of processReq promises its caller: the lines read *)
(* from a handler's stream are shipped in order, each exactly once, in     *)
(* batches of at most MaxBatch lines; a batch never holds a line that has  *)
(* not been read yet.                                                      *)
EXTENDS Naturals, Sequences

CONSTANTS NumLines, MaxBatch

VARIABLES read, out   \* lines read from the source; lines shipped so far

Read ==
    /\ read < NumLines
    /\ read' = read + 1
    /\ UNCHANGED out

(* Ship the next k read lines as one RESPONSE package.                     *)
Ship ==
    /\ \E k \in 1..MaxBatch :
          /\ Len(out) + k <= read
          /\ out' = out \o [i \in 1..k |-> Len(out) + i]
    /\ UNCHANGED read

Init == read = 0 /\ out = <<>>

Spec == Init /\ [][Read \/ Ship]_<<read, out>>
=============================================================================
