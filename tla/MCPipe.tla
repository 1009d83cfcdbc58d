------------------------------- MODULE MCPipe -------------------------------
(* Instances of Pipe for TLC. *)
EXTENDS Pipe

CONSTANTS b1, b2

MCPayload == {<<b1, b2, b1>>}
=============================================================================
