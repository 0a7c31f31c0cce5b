--------------------------- MODULE MCSessionTools ----------------------------
(***************************************************************************)
(* SessionTools for TLC: names of topologies and of device groups are model *)
(* values; port names are numbers, for some of them are defaults.           *)
(***************************************************************************)
EXTENDS SessionTools

\* No action tells these names apart.
MCSymmetry == Permutations(TopologyName) \cup Permutations(GroupName)

=============================================================================
