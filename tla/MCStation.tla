------------------------------- MODULE MCStation -------------------------------
(***************************************************************************)
(* Instances of StationPlanning for TLC.                                   *)
(***************************************************************************)
EXTENDS StationPlanning, TLC

CONSTANTS Home, w, c

\* Devices 1 and 2 are in range of each other, the home network of 1 only;
\* network 0 is of a device that is not modelled, and far from 2.
PairSignal == [n \in Device |-> [s \in Net |->
                  CASE s = n -> 0
                    [] s = 0 -> IF n = 2 THEN 30 ELSE 0
                    [] s \in Foreign /\ n = 2 -> 0
                    [] OTHER -> 60]]

\* Everyone is in range of everyone.
TrioSignal == [n \in Device |-> [s \in Net |-> IF s = n THEN 0 ELSE 60]]
================================================================================
