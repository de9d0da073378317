------------------------------ MODULE MCHotspot ------------------------------
(* The callers of the hotspot for TLC: the watchdog, a client that starts,  *)
(* a client that stops, and shutdown.                                      *)
EXTENDS HotspotControl, TLC

CONSTANTS watchdog, client, stopper, closing

MCKind == [o \in Op |-> CASE o = watchdog -> "auto"
                          [] o = client   -> "start"
                          [] OTHER        -> "stop"]
=============================================================================
