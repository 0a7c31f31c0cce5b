------------------------- MODULE MCConnectionManager -------------------------
(***************************************************************************)
(* ConnectionManager for TLC.  Conn, Thread and Session are sets of model   *)
(* values; renaming them changes no invariant.                              *)
(***************************************************************************)
EXTENDS ConnectionManager, TLC

MCSymmetry == Permutations(Conn) \cup Permutations(Thread) \cup Permutations(Session)

=============================================================================
