--------------------------- MODULE MCFileBdSeqStore ---------------------------
(***************************************************************************)
(* Instance of FileBdSeqStore for TLC: two processes on one file, as while *)
(* a supervisor replaces a process that has not ended yet.                 *)
(***************************************************************************)
EXTENDS FileBdSeqStore

CONSTANTS old, new, node_bdseq

MCUsers == {old, new}
MCPathOf == [u \in MCUsers |-> node_bdseq]
MCPidOf == [u \in MCUsers |-> IF u = new THEN 2 ELSE 1]
=============================================================================
