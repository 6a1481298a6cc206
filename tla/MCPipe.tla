------------------------------- MODULE MCPipe -------------------------------
(* Instances of Pipe for TLC. *)
EXTENDS Pipe, TLC

\* One byte, and more than the pipe holds.
MCAddrs == {<<1>>, <<2, 1, 1>>}

\* More than a pipe of one byte holds.
LiveAddrs == {<<1, 1>>}

PipeSymmetry == Permutations(Procs)
=============================================================================
