---------------------------- MODULE ReaperHistory -----------------------------
(***************************************************************************)
(* McpServer with a history variable: the connections that were used since  *)
(* the reaper read the clock.  disconnect_stale reads it before it waits    *)
(* for _lock (client.py:170, 172), and meanwhile tool calls go on to build  *)
(* and look up connections.                                                 *)
(***************************************************************************)
EXTENDS McpServer

VARIABLE used

historyVars == <<vars, used>>

\* Connections this step builds, and those it hands out to a tool call.
Stamped ==
  {c \in Conn : sess[c] = NoSession /\ sess'[c] # NoSession}
    \cup {arg[r] : r \in {q \in Req : worker[q] = "hold" /\ worker'[q] = "wait"}}

HistoryInit == Init /\ used = {}

\* `used` starts anew each time the reaper calls disconnect_stale.
HistoryNext ==
  /\ Next
  /\ used' = IF call[0] = "stale" /\ call'[0] = "stale" THEN used \cup Stamped ELSE {}

HistorySpec == HistoryInit /\ [][HistoryNext]_historyVars

\* The reaper judges connections by a clock reading that may be older than their
\* last use (client.py:170, 174).  However long it waits for the lock, it removes
\* no connection that was built or looked up since: neither that of a tool call
\* which has got it and is on its way to the connection's own lock
\* (session.py:119), nor one an ixia_connect has only just inserted.
ReaperSparesUsed ==
  [][call[0] = "stale" /\ MainBody(0) => used \cap pool \subseteq pool']_historyVars

=============================================================================
