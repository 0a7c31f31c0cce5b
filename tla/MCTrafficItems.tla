--------------------------- MODULE MCTrafficItems ----------------------------
(***************************************************************************)
(* TrafficItems for TLC: agents, names and items are model values.          *)
(***************************************************************************)
EXTENDS TrafficItems

\* Sound for safety: no action tells agents or names apart.
MCSymmetry == Permutations(Agent) \cup Permutations(Name) \cup Permutations(Href)

=============================================================================
