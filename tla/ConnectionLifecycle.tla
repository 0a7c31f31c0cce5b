------------------------- MODULE ConnectionLifecycle -------------------------
(***************************************************************************)
(* What the connection pool of src/ixia_mcp/client.py promises about each   *)
(* connection, whatever the threads that use it do: it is built, offered    *)
(* to callers, withdrawn from them, and then - only then, and only once -   *)
(* its session is cleaned up.  No connection ever goes back.                *)
(***************************************************************************)
CONSTANT Conn    \* the connections the process will ever build (client.py:105)

VARIABLE life    \* where each connection is in its life

\* The stages of a connection, in the only order they may come.
Stage == {"none", "made", "open", "withdrawn", "released"}

LifecycleInit == life = [c \in Conn |-> "none"]

\* Every connection of a nonempty set S goes from stage "from" to stage "to".
Advance(S, from, to) ==
  /\ S # {}
  /\ \A c \in S : life[c] = from
  /\ life' = [c \in Conn |-> IF c \in S THEN to ELSE life[c]]

\* IxNetworkConnection(...) succeeds.
Make(c) == Advance({c}, "none", "made")

\* connect() puts the connection where get() finds it.
Offer(c) == Advance({c}, "made", "open")

\* disconnect, disconnect_stale and disconnect_all take connections out of
\* reach, any number in one step.
WithdrawAll(S) == Advance(S, "open", "withdrawn")

\* _cleanup_connection, one connection at a time.
Release(c) == Advance({c}, "withdrawn", "released")

LifecycleNext ==
  \/ \E c \in Conn : Make(c) \/ Offer(c) \/ Release(c)
  \/ \E S \in SUBSET Conn : WithdrawAll(S)

LifecycleSpec == LifecycleInit /\ [][LifecycleNext]_life

LifecycleTypeOK == life \in [Conn -> Stage]

=============================================================================
