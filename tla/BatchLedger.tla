----------------------------- MODULE BatchLedger -----------------------------
(***************************************************************************)
(* What the processing queue promises whoever polls a batch (the handler   *)
(* server/api/processing/[id].get.ts and the clients behind it): a batch   *)
(* is open, then sealed with a fixed number of members, then finished; the *)
(* counters of settled members only grow; a batch finishes exactly when    *)
(* every member is settled, with the outcome its counters imply; and a     *)
(* finished batch is never touched again.                                  *)
(***************************************************************************)
EXTENDS Naturals

CONSTANT Batch

VARIABLES
    phase, \* per batch: "absent", "open", "sealed" or "finished"
    count, \* per batch: its counters
    result \* per batch: the status its row shows

vars == <<phase, count, result>>

Zero == [total |-> 0, completed |-> 0, failed |-> 0, cancelled |-> 0]

Settled(c) == c.completed + c.failed + c.cancelled

\* The status of a finished batch: a failure outweighs a cancellation.
Outcome(c) ==
    CASE c.failed > 0 -> "failed"
      [] c.failed = 0 /\ c.cancelled > 0 -> "cancelled"
      [] OTHER -> "completed"

Init ==
    /\ phase = [b \in Batch |-> "absent"]
    /\ count = [b \in Batch |-> Zero]
    /\ result = [b \in Batch |-> "pending"]

\* No counter of a settled outcome goes down.
Grows(b) ==
    /\ count'[b].completed >= count[b].completed
    /\ count'[b].failed >= count[b].failed
    /\ count'[b].cancelled >= count[b].cancelled
    /\ Settled(count'[b]) <= count'[b].total

Open(b) ==
    /\ phase[b] = "absent" /\ phase'[b] = "open"
    /\ count'[b] = Zero /\ result'[b] = "pending"

\* One more member (its work may have ended meanwhile), or members that
\* settle before the seal.
Follow(b) ==
    /\ phase[b] = "open" /\ phase'[b] = "open"
    /\ count'[b].total \in {count[b].total, count[b].total + 1}
    /\ Grows(b)
    /\ result'[b] = "pending"

Seal(b) ==
    /\ phase[b] \in {"absent", "open"} /\ phase'[b] = "sealed"
    /\ phase[b] = "open" => count'[b] = count[b]
    /\ Settled(count'[b]) < count'[b].total
    /\ result'[b] \in {"pending", "processing"}

Progress(b) ==
    /\ phase[b] = "sealed" /\ phase'[b] = "sealed"
    /\ count'[b].total = count[b].total
    /\ Grows(b)
    /\ Settled(count'[b]) < count'[b].total
    /\ result'[b] \in {"pending", "processing"}

Finish(b) ==
    /\ phase[b] # "finished" /\ phase'[b] = "finished"
    /\ phase[b] # "absent" => count'[b].total = count[b].total
    /\ Grows(b)
    /\ Settled(count'[b]) = count'[b].total
    /\ result'[b] = Outcome(count'[b])

Keep(b) ==
    /\ phase'[b] = phase[b] /\ count'[b] = count[b] /\ result'[b] = result[b]

\* One transaction may move several batches: they share tasks.
Next ==
    \A b \in Batch :
        Keep(b) \/ Open(b) \/ Follow(b) \/ Seal(b) \/ Progress(b) \/ Finish(b)

Spec == Init /\ [][Next]_vars
=============================================================================
