----------------------------- MODULE DedupFilter -----------------------------
(***************************************************************************)
(* The duplicate filter of src/mesh/src/dedup.rs: a set of message ids and *)
(* the queue of the same ids in the order they came.  An id leaves both    *)
(* when it is the oldest of a full queue or when it outlived the ttl.  The *)
(* entries of the queue are in the order of their times, so those that     *)
(* have expired are a prefix of it; which prefix is left to the caller.    *)
(***************************************************************************)
EXTENDS Naturals, Sequences

CONSTANTS
  Id,         \* message ids
  Capacity,   \* max_capacity
  MayExpire   \* whether a message may stay around for longer than the ttl

ASSUME FilterAssumption ==
  /\ Capacity \in Nat
  /\ MayExpire \in BOOLEAN

EmptyFilter == [seen |-> {}, queue |-> <<>>]

\* How many ids evict_expired may find to be too old.
Expiring(f) == IF MayExpire THEN 0..Len(f.queue) ELSE {0}

\* The k oldest ids leave the filter.
Evicted(f, k) ==
  [seen  |-> f.seen \ {f.queue[i] : i \in 1..k},
   queue |-> SubSeq(f.queue, k + 1, Len(f.queue))]

\* Wrong variant: the oldest id leaves the queue and stays in the set.
MakeRoomInQueue(f) ==
  IF Len(f.queue) >= Capacity /\ f.queue # <<>>
  THEN [f EXCEPT !.queue = Tail(@)] ELSE f

\* A full filter gives up its oldest id.
MakeRoom(f) ==
  IF Len(f.queue) >= Capacity /\ f.queue # <<>> THEN Evicted(f, 1) ELSE f

\* The rest of contains_or_insert for an id that is not in the filter.
Remember(f, id) ==
  LET g == MakeRoom(f)
  IN [seen |-> g.seen \cup {id}, queue |-> Append(g.queue, id)]

\* Wrong variant: the id is looked up and not recorded.
InsertedNever(f, id) == f

\* contains_or_insert once k ids have expired: the answer is id \in seen.
Inserted(f, id) == IF id \in f.seen THEN f ELSE Remember(f, id)

MostRemembered == IF Capacity = 0 THEN 1 ELSE Capacity

Filter == [seen : SUBSET Id, queue : Seq(Id)]

\* The set and the queue hold the same ids, each once, and no more than the
\* capacity allows (a filter of capacity 0 still remembers one id).
Consistent(f) ==
  /\ f.seen = {f.queue[i] : i \in 1..Len(f.queue)}
  /\ \A i, j \in 1..Len(f.queue) : f.queue[i] = f.queue[j] => i = j
  /\ Len(f.queue) <= MostRemembered
=============================================================================
