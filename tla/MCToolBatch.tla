------------------------------ MODULE MCToolBatch ------------------------------
(* Two turns: the first replies with three calls that share a key and a serial *)
(* one, the second with one call of the same key.                              *)
EXTENDS ToolBatch, TLC
MCCalls == 1..5
MCTurnOf == [c \in MCCalls |-> IF c = 5 THEN 2 ELSE 1]
MCKey == [c \in MCCalls |-> IF c = 4 THEN NoKey ELSE "k"]
MCSerial == {4}
=============================================================================
