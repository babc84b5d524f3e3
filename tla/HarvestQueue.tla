---------------------------- MODULE HarvestQueue ----------------------------
(***************************************************************************)
(* What the harvest pipeline promises (spec.md 2, 4.4, 6, 7), stated over  *)
(* records rather than bytes.  Finished records join a FIFO queue while    *)
(* the agent accepts them.  Each record at the head of the queue is either *)
(* delivered, which means the collector reads exactly that record, or it   *)
(* is lost.  It is lost only when its encoding fails (EncodingFailure), or *)
(* when the agent closes with records still queued (ShutdownTimeout, or    *)
(* data left over at shutdown).  Nothing is duplicated, reordered or       *)
(* invented.                                                               *)
(***************************************************************************)
EXTENDS Sequences

CONSTANTS Records,     \* the records producers finish
          Body,        \* [structs -> bytes]: a record's struct encoding
          WriteFails   \* structs whose encoding fails

VARIABLES queue,  \* records finished and not yet delivered or lost
          out,    \* what the collector has read, in order
          lost,   \* records dropped, in order
          open    \* whether the agent still accepts records

vars == <<queue, out, lost, open>>

\* How the collector sees a delivered record.
View(m) == [bad |-> FALSE, id |-> m.id, mtype |-> m.mtype, body |-> Body[m.st]]

Init ==
  /\ queue = <<>>
  /\ out = <<>>
  /\ lost = <<>>
  /\ open = TRUE

Finish(m) ==
  /\ open
  /\ queue' = Append(queue, m)
  /\ UNCHANGED <<out, lost, open>>

Deliver ==
  /\ queue # <<>>
  /\ Head(queue).st \notin WriteFails
  /\ out' = Append(out, View(Head(queue)))
  /\ queue' = Tail(queue)
  /\ UNCHANGED <<lost, open>>

DropUnencodable ==
  /\ queue # <<>>
  /\ Head(queue).st \in WriteFails
  /\ lost' = Append(lost, Head(queue))
  /\ queue' = Tail(queue)
  /\ UNCHANGED <<out, open>>

\* Shutdown: whatever is still queued is dropped, and nothing joins later.
Close ==
  /\ open
  /\ open' = FALSE
  /\ lost' = lost \o queue
  /\ queue' = <<>>
  /\ UNCHANGED out

Next ==
  \/ \E m \in Records : Finish(m)
  \/ Deliver
  \/ DropUnencodable
  \/ Close

Spec == Init /\ [][Next]_vars

=============================================================================
