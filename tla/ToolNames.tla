----------------------------- MODULE ToolNames -----------------------------
(***************************************************************************)
(* The names of tools, which the matrix and the sandbox share.             *)
(***************************************************************************)
CONSTANT Tools
=============================================================================
