---------------------------- MODULE MCPscServer -----------------------------
(* PscServer on a small instance for TLC. *)
EXTENDS PscServer, TLC

\* Connections differ only in their names, and no property names one.
Symmetry == Permutations(Conns)
=============================================================================
