---------------------------- MODULE MCPrcQuery ----------------------------
(* Instances of PrcQuery.  The generator is a fixed mixing function: what  *)
(* matters is that the draws of different seeds and positions differ.      *)
EXTENDS PrcQuery

MCRnd(s, i) ==
    LET x == (37 * i + 101 * s + 11) % 1009
    IN  (((x * x) % 1009) * x) % 1009
=============================================================================
