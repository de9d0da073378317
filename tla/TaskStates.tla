------------------------------ MODULE TaskStates ------------------------------
(***************************************************************************)
(* The task state machine of src/mempool/src/pool.rs.  A pool holds at     *)
(* most one copy of a task; every public method of Mempool takes the write *)
(* lock, looks at the copy's state and either moves it or returns an       *)
(* error.  Each operator below is the copy after one such call; a refused  *)
(* call returns its argument.  A payload is present exactly when the       *)
(* status is neither "Absent" nor "Pending"; results, priorities and times *)
(* are data no property here tells apart.  Mempool::fail is left out: no   *)
(* code in the repository calls it but the handler of a failure, which no  *)
(* code sends.                                                             *)
(***************************************************************************)
CONSTANTS Node,     \* the identities of the mesh (NodeId)
          NoNode    \* "nobody": the claimant of a copy that is not claimed

ASSUME NoNodeAssumption == NoNode \notin Node

Unclaimed(s) == [status |-> s, by |-> NoNode]

Absent    == Unclaimed("Absent")
Pending   == Unclaimed("Pending")
Available == Unclaimed("Available")
Completed == Unclaimed("Completed")

ClaimedBy(n) == [status |-> "Claimed", by |-> n]

TaskCopy == {Absent, Pending, Available, Completed} \cup {ClaimedBy(n) : n \in Node}

-----------------------------------------------------------------------------
(* Mempool::submit: a new task is inserted, a full one replaces a Pending   *)
(* copy, anything else is a duplicate.                                     *)
Submitted(copy, new) ==
  IF copy = Absent \/ (copy = Pending /\ new = Available) THEN new ELSE copy

(* Wrong variants of the code's rules, with a guard dropped or a value mixed *)
(* up, stand before the rule they vary here and in the other modules: each  *)
(* shows that some property depends on what it changes.                    *)
ClaimOverClaimed(copy, n) ==
  IF copy.status \in {"Available", "Claimed"} THEN ClaimedBy(n) ELSE copy

Claimable(copy) == copy.status = "Available"

(* Mempool::claim *)
Claim(copy, n) == IF Claimable(copy) THEN ClaimedBy(n) ELSE copy

CompleteUnclaimed(copy) ==
  IF copy.status \in {"Available", "Claimed"} THEN Completed ELSE copy

Completable(copy) == copy.status = "Claimed"

(* Mempool::complete: whoever claimed it, whoever asks. *)
Complete(copy) == IF Completable(copy) THEN Completed ELSE copy

(* Mempool::set_payload: with a payload that hashes to the task's id, as   *)
(* every payload here does, only the task's presence is checked.           *)
SetPayload(copy) == IF copy = Absent THEN copy ELSE Available
=============================================================================
