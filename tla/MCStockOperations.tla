------------------------- MODULE MCStockOperations -------------------------
(* An instance of StockOperations for TLC: the first order takes two units *)
(* of entity 1 and one of the others, the second one unit of entity 1.     *)
EXTENDS StockOperations, TLC

Carts == [o \in Orders |-> [e \in Entities |-> IF o = 1 THEN IF e = 1 THEN 2 ELSE 1
                                                 ELSE IF e = 1 THEN 1 ELSE 0]]

PlusMinus == {1, -1}
=============================================================================
