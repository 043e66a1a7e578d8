---------------------------- MODULE MCPipeReader ----------------------------
(***************************************************************************)
(* PipeReader for TLC: the channel and the read buffer are so small that   *)
(* a channel fills while a reader still holds part of a chunk.             *)
(***************************************************************************)
EXTENDS PipeReader
=============================================================================
