--------------------------- MODULE MCCashSession ---------------------------
(* Instances of CashSession for TLC: one register whose sessions follow    *)
(* each other, or a register for each session.                             *)
EXTENDS CashSession, TLC

OneRegister == [s \in Sessions |-> "main"]
TwoRegisters == [s \in Sessions |-> IF s % 2 = 1 THEN "main" ELSE "bar"]

(* Requests and tokens are interchangeable.                                *)
Symmetry == Permutations(Requests) \cup Permutations(Tokens)
=============================================================================
