----------------------------- MODULE MCMcpServer -----------------------------
(***************************************************************************)
(* McpServer for TLC: the connections and the request slots are model       *)
(* values, the frames of the main thread are numbers.                       *)
(***************************************************************************)
EXTENDS McpServer, TLC

CONSTANTS r1, r2

MCReq == {r1, r2}

\* The threads of the manager: the frames of the main thread and the requests.
MCThread == Level \cup MCReq

\* Sound for safety: no action distinguishes connections, sessions or slots.
MCSymmetry == Permutations(Conn) \cup Permutations(Req) \cup Permutations(Session)

=============================================================================
