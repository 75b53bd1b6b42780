----------------------------- MODULE MCPipe -----------------------------
(* Instances of Pipe for TLC. *)
EXTENDS Pipe, TLC

OtherSymmetry == Permutations(Procs \ {First})

(* One byte, and more than fit into a pipe of two. *)
SomeBuffers == {<<1>>, <<0, 1, 1>>}
=============================================================================
