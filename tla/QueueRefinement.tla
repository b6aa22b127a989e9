-------------------------- MODULE QueueRefinement --------------------------
(***************************************************************************)
(* The queue keeps the contract: a row is in flight while some dispatchOne *)
(* owns it, handed once that job has decided "sent", adrift while it says  *)
(* dispatching and no job owns it.                                         *)
(***************************************************************************)
EXTENDS NotificationQueue

PhaseOf(id) ==
    CASE status[id] = "absent"  -> "none"
      [] status[id] = "pending" -> "queued"
      [] status[id] = "deleted" -> "gone"
      [] status[id] \in {"sent", "failed"} -> status[id]
      [] status[id] = "dispatching" ->
           IF OwnersOf(id) = {} THEN "adrift"
           ELSE IF \E c \in OwnersOf(id) : job[c][id].verdict = "sent" THEN "handed"
           ELSE "inFlight"

Contract == INSTANCE NotificationContract WITH
                Rows   <- Ids,
                phase  <- [id \in Ids |-> PhaseOf(id)],
                got    <- deliveries,
                lost   <- recoveries,
                mailed <- emails

\* Overlapping runs, crashes, rejected calls, retries, holds and purges never
\* show a member anything the contract of one dispatcher per row does not
\* allow: a push is recorded as sent unless its dispatcher was lost, and a row
\* that failed was never pushed since it was last queued.
KeepsContract == Contract!CSpec

=============================================================================
