------------------------------- MODULE MCPipe -------------------------------
(***************************************************************************)
(* Pipe for TLC: a writer, a reader, and a process that holds both ends.   *)
(***************************************************************************)
EXTENDS Pipe

CONSTANTS w, r, b

TwoAndBoth == [p \in Procs |-> IF p = w THEN {"w"} ELSE IF p = r THEN {"r"} ELSE {"r", "w"}]
=============================================================================
