------------------------------ MODULE MCMessaging ------------------------------
(* Messaging between devices "a" and "b" (and "c", for an address used again). *)
EXTENDS Messaging

FromBoth == [m \in Msg |-> IF m = "m1" THEN "a" ELSE "b"]
ToBoth   == [m \in Msg |-> IF m = "m1" THEN "b" ELSE "a"]
FromB    == [m \in Msg |-> "b"]
ToA      == [m \in Msg |-> "a"]
Homes    == [d \in Device |-> CASE d = "a" -> "i" [] d = "b" -> "j" [] d = "c" -> "k"]
================================================================================
