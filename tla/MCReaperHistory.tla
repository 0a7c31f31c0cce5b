--------------------------- MODULE MCReaperHistory ----------------------------
(***************************************************************************)
(* ReaperHistory for TLC, with the constants of MCMcpServer.                *)
(***************************************************************************)
EXTENDS MCMcpServer, ReaperHistory

=============================================================================
