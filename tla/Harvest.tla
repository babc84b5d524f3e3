------------------------------- MODULE Harvest -------------------------------
(***************************************************************************)
(* The harvest aggregator (spec.md 4.4, 5, 6, 7) composed with the wire    *)
(* frame encoder of src/thrift/io/serializer.go (module WireFrame).  The   *)
(* aggregator is not under src/, so its actions are modelled from the      *)
(* spec.  The encoding and the connection's bytes are WireFrame's.         *)
(*                                                                         *)
(* Transaction.End pushes a finished record into the pending buffer.  On  *)
(* each timer tick the aggregator goes from Idle to Flushing.  It swaps    *)
(* the buffer out for an empty one, so producers never wait, and encodes   *)
(* the swapped-out batch one record at a time (WireFrame's Send, which    *)
(* drops a record whose encoding fails).  Then it returns to Idle.          *)
(* shutdown(timeout) runs the same flush once.  If the timeout elapses     *)
(* first, the rest of the batch is dropped.  When the flush ends, further  *)
(* operations are disabled.                                                *)
(***************************************************************************)
EXTENDS WireFrame

CONSTANTS Records   \* the records producers finish (a subset of Msg)

ASSUME Records \subseteq Msg

VARIABLES phase,      \* "Idle", "Flushing", "ShutdownFlush", "Stopped"
          pending,    \* the producers' buffer
          batch,      \* the swapped-out buffer being encoded
          abandoned,  \* records dropped when the shutdown timeout fired
          accepting,  \* FALSE once shutdown has disabled operations
          log         \* history: every record pushed, in order

hvars == <<phase, pending, batch, abandoned, accepting, log>>
allVars == <<vars, hvars>>

---------------------------------------------------------------------------
(* Transaction.End: push the finished record under the buffer's own lock; *)
(* a no-op once operations are disabled.                                   *)
TxnEnd(m) ==
  /\ accepting
  /\ Len(log) < MaxMsgs
  /\ pending' = Append(pending, m)
  /\ log' = Append(log, m)
  /\ UNCHANGED <<vars, phase, batch, abandoned, accepting>>

(* The interval timer: Idle -> Flushing, swapping the buffer out.          *)
Tick ==
  /\ phase = "Idle"
  /\ phase' = "Flushing"
  /\ batch' = pending
  /\ pending' = <<>>
  /\ UNCHANGED <<vars, abandoned, accepting, log>>

(* Encode the next record of the batch and write its frame, or drop it.   *)
EncodeNext ==
  /\ phase \in {"Flushing", "ShutdownFlush"}
  /\ batch # <<>>
  /\ Send(Head(batch))
  /\ batch' = Tail(batch)
  /\ UNCHANGED <<phase, pending, abandoned, accepting, log>>

\* Mutant: the flush may return to Idle with records still in its batch.
FlushDoneEarly ==
  /\ phase = "Flushing"
  /\ phase' = "Idle"
  /\ UNCHANGED <<vars, pending, batch, abandoned, accepting, log>>

(* Flushing -> Idle once the whole batch is handed to the transport.      *)
FlushDone ==
  /\ phase = "Flushing"
  /\ batch = <<>>
  /\ phase' = "Idle"
  /\ UNCHANGED <<vars, pending, batch, abandoned, accepting, log>>

\* Mutant: shutdown flushes only what an earlier swap left, not the buffer.
ShutdownNoSwap ==
  /\ phase = "Idle"
  /\ phase' = "ShutdownFlush"
  /\ UNCHANGED <<vars, pending, batch, abandoned, accepting, log>>

(* shutdown(timeout): the same flush, once, from Idle.                    *)
Shutdown ==
  /\ phase = "Idle"
  /\ phase' = "ShutdownFlush"
  /\ batch' = pending
  /\ pending' = <<>>
  /\ UNCHANGED <<vars, abandoned, accepting, log>>

(* The final flush completed in time; then operations are disabled.       *)
ShutdownDone ==
  /\ phase = "ShutdownFlush"
  /\ batch = <<>>
  /\ phase' = "Stopped"
  /\ accepting' = FALSE
  /\ UNCHANGED <<vars, pending, batch, abandoned, log>>

(* The timeout elapsed first: the rest of the batch is dropped.           *)
ShutdownTimeout ==
  /\ phase = "ShutdownFlush"
  /\ batch # <<>>
  /\ abandoned' = abandoned \o batch
  /\ batch' = <<>>
  /\ phase' = "Stopped"
  /\ accepting' = FALSE
  /\ UNCHANGED <<vars, pending, log>>

HInit ==
  /\ Init
  /\ phase = "Idle"
  /\ pending = <<>>
  /\ batch = <<>>
  /\ abandoned = <<>>
  /\ accepting = TRUE
  /\ log = <<>>

HNext ==
  \/ \E m \in Records : TxnEnd(m)
  \/ Tick \/ EncodeNext \/ FlushDone
  \/ Shutdown \/ ShutdownDone \/ ShutdownTimeout

(* The timer keeps firing and a flush in progress keeps going.  Neither   *)
(* shutdown nor its timeout is fair: the application may run forever, and *)
(* the final flush may or may not beat the timeout.                        *)
HFairness ==
  /\ WF_allVars(Tick) /\ WF_allVars(EncodeNext)
  /\ WF_allVars(FlushDone) /\ WF_allVars(ShutdownDone)

HSpec == HInit /\ [][HNext]_allVars /\ HFairness

---------------------------------------------------------------------------
HTypeOK ==
  /\ TypeOK
  /\ phase \in {"Idle", "Flushing", "ShutdownFlush", "Stopped"}
  /\ pending \in Seq(Records)
  /\ batch \in Seq(Records)
  /\ abandoned \in Seq(Records)
  /\ accepting \in BOOLEAN
  /\ log \in Seq(Records)

(* The pipeline implements HarvestQueue: the collector reads exactly the  *)
(* records delivered, in push order, and a record is lost only when its   *)
(* encoding fails or the agent closes with it still queued.  The queue is *)
(* the batch being encoded followed by the buffer.  Once operations are   *)
(* disabled, a record left in the buffer is lost.                          *)
Stranded == IF accepting THEN <<>> ELSE pending
HQ == INSTANCE HarvestQueue
        WITH queue <- batch \o (IF accepting THEN pending ELSE <<>>),
             out <- DecodeStream(wire),
             lost <- dropped \o abandoned \o Stranded,
             open <- accepting
HarvestRefinement == HQ!Spec

\* Records that have left the pipeline: delivered or dropped.
Settled == Len(sent) + Len(dropped) + Len(abandoned)

(* Every record pushed while the aggregator runs normally (Idle or        *)
(* Flushing) is eventually delivered or dropped, through a later tick or  *)
(* through the shutdown flush.                                             *)
ShutdownFlushes ==
  \A k \in 1..MaxMsgs :
    (Len(log) >= k /\ phase \in {"Idle", "Flushing"}) ~> (Settled >= k)

(* spec.md 4.4, 6: every finished record is eventually delivered or       *)
(* dropped, including one whose End runs during the shutdown flush.        *)
EverySettles ==
  \A k \in 1..MaxMsgs : (Len(log) >= k) ~> (Settled >= k)

=============================================================================
