------------------------- MODULE MCShadowExecution -------------------------
(* Small instances of ShadowExecution. *)
EXTENDS ShadowExecution

MCCodes == {"x", "y"}
MCCapped == {"x"}
MCSnapshots == {[cash |-> 2, hold |-> [c \in MCCodes |-> IF c = "y" THEN 2 ELSE 0], known |-> TRUE]}
MCOrders == {[code |-> "x", side |-> "BUY", qty |-> 2], [code |-> "y", side |-> "SELL", qty |-> 1]}
=============================================================================
