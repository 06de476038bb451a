------------------------------- MODULE MCPipe -------------------------------
(* One reader and two writers that share the write end; a pipe of two       *)
(* blocks, and requests that do not fit into it.                            *)
EXTENDS Pipe
=============================================================================
