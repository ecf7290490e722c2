------------------------------ MODULE MCPipe ------------------------------
(* Instances of Pipe for TLC.                                              *)
EXTENDS Pipe, TLC

=============================================================================
