---------------------------- MODULE MCPrintQueue ----------------------------
(* Instances of PrintQueue for TLC: every job goes to one printer.         *)
EXTENDS PrintQueue, TLC

CONSTANT p1

OnePrinterRoute == [j \in Jobs |-> p1]

(* Clerks, pollers and tokens are interchangeable.                         *)
Symmetry == Permutations(Clerks) \cup Permutations(Tokens)
=============================================================================
