---------------------------- MODULE Transaction ----------------------------
(***************************************************************************)
(* The Transaction / Segment API of the agent: starting a transaction,     *)
(* starting and ending segments, linked child transactions for goroutines  *)
(* (NewGoroutine), attributes, and End, which pushes the finished record   *)
(* into the harvest buffer.  The transaction package is not part of the    *)
(* source tree under src/, so every definition here is modelled from       *)
(* spec.md (sections 3, 4.2, 5).                                           *)
(*                                                                         *)
(* Each operation is ONE step: spec.md 4.2 requires every mutation of a    *)
(* transaction to be linearizable under one mutex per transaction.  The    *)
(* lock-level implementation of that requirement is TransactionLocked.     *)
(*                                                                         *)
(* Data abstraction: a TraceID is agentID^startTime^sequenceID where the   *)
(* agent id and start time are those of the process (children copy them), *)
(* so two trace ids of one process differ exactly when their sequence ids  *)
(* differ; a transaction keeps its sequence id only.  The span id of a     *)
(* transaction is drawn in the same step as its sequence id.  A segment's  *)
(* span id is its index in segs (spanID = nextSpanID++, then append); the  *)
(* transaction root has span id RootSpan.                                  *)
(***************************************************************************)
EXTENDS Integers, Sequences, FiniteSets

CONSTANTS Txns,      \* transaction handles the callers may allocate
          SegNames,  \* segment names used by the callers
          AttrKeys   \* attribute keys used by the callers

\* Parent span of a segment started directly under the transaction root.
RootSpan == 0
\* The handle StartSegment returns on an ended transaction (spec.md 4.2).
Detached == -1
\* parentSpan of a transaction that is the root of a distributed trace.
NoParentSpan == -1

VARIABLES txn,        \* [Txns -> transaction record]
          seqCounter, \* process-wide sequence-id counter (atomic increment)
          pending,    \* harvest buffer: finished records, in End order
          delivered   \* records handed to the transport by a harvest

txnVars == <<txn, seqCounter, pending, delivered>>

Segment == [name : SegNames, parent : Int, ended : BOOLEAN]

\* code: the response code recorded by WriteHeader (NoCode if none);
\* noticed: whether NoticeError was called.
NoCode == -1
TxnRecord == [status : {"unused", "open", "ended"},
              seq : Nat, parentSpan : Int,
              segs : Seq(Segment), attrs : SUBSET AttrKeys,
              code : Int, noticed : BOOLEAN]

Unused == [status |-> "unused", seq |-> 0, parentSpan |-> NoParentSpan,
           segs |-> <<>>, attrs |-> {}, code |-> NoCode, noticed |-> FALSE]

IsOpen(t) == txn[t].status = "open"
Started(t) == txn[t].status # "unused"
\* Span id of a transaction (drawn with its sequence id).
SpanOf(t) == txn[t].seq
\* The handle the next StartSegment on t returns.
NextHandle(t) == IF IsOpen(t) THEN Len(txn[t].segs) + 1 ELSE Detached

HarvestItem == [id : Txns, rec : TxnRecord]

TxnInit ==
  /\ txn = [t \in Txns |-> Unused]
  /\ seqCounter = 0
  /\ pending = <<>>
  /\ delivered = <<>>

---------------------------------------------------------------------------
(* app.StartTransaction(name): a fresh sequence id from the atomic counter. *)
StartTransaction(t) ==
  /\ txn[t].status = "unused"
  /\ seqCounter' = seqCounter + 1
  /\ txn' = [txn EXCEPT ![t] = [Unused EXCEPT !.status = "open",
                                              !.seq = seqCounter + 1]]
  /\ UNCHANGED <<pending, delivered>>

(* txn.NewGoroutine(): a linked child transaction with a fresh sequence id *)
(* that records the parent's span id; it shares no mutable state with p.   *)
NewGoroutine(p, c) ==
  /\ txn[c].status = "unused"
  /\ seqCounter' = seqCounter + 1
  /\ txn' = [txn EXCEPT ![c] = [Unused EXCEPT !.status = "open",
                                              !.seq = seqCounter + 1,
                                              !.parentSpan = SpanOf(p)]]
  /\ UNCHANGED <<pending, delivered>>

(* txn.StartSegment(name) under the caller's explicit parent handle; a     *)
(* silent no-op on an ended transaction (the caller gets Detached).        *)
StartSegment(t, parent, name) ==
  /\ txn' = IF IsOpen(t)
              THEN [txn EXCEPT ![t].segs =
                      Append(@, [name |-> name, parent |-> parent,
                                 ended |-> FALSE])]
              ELSE txn
  /\ UNCHANGED <<seqCounter, pending, delivered>>

(* segment.End(): sets the end once; a no-op for a detached handle, an     *)
(* already ended segment, or a segment of an ended transaction.            *)
EndSegment(t, s) ==
  /\ txn' = IF IsOpen(t) /\ s \in DOMAIN txn[t].segs
              THEN [txn EXCEPT ![t].segs[s].ended = TRUE]
              ELSE txn
  /\ UNCHANGED <<seqCounter, pending, delivered>>

(* txn.AddAttribute(key, value): a no-op once the transaction has ended.   *)
AddAttribute(t, k) ==
  /\ txn' = IF IsOpen(t) THEN [txn EXCEPT ![t].attrs = @ \cup {k}] ELSE txn
  /\ UNCHANGED <<seqCounter, pending, delivered>>

(* txn.SetWebResponse(nil).WriteHeader(code): records the response code; *)
(* a no-op once the transaction has ended.                                 *)
SetWebResponse(t, c) ==
  /\ txn' = IF IsOpen(t) THEN [txn EXCEPT ![t].code = c] ELSE txn
  /\ UNCHANGED <<seqCounter, pending, delivered>>

(* txn.NoticeError(err): records the error; a no-op once ended.            *)
NoticeError(t) ==
  /\ txn' = IF IsOpen(t) THEN [txn EXCEPT ![t].noticed = TRUE] ELSE txn
  /\ UNCHANGED <<seqCounter, pending, delivered>>

(* txn.End(): ends once and pushes the finished record into the harvest    *)
(* buffer; a second End is a no-op.                                        *)
End(t) ==
  IF IsOpen(t)
    THEN LET rec == [txn[t] EXCEPT !.status = "ended"]
         IN /\ txn' = [txn EXCEPT ![t] = rec]
            /\ pending' = Append(pending, [id |-> t, rec |-> rec])
            /\ UNCHANGED <<seqCounter, delivered>>
    ELSE UNCHANGED txnVars

(* One harvest tick (spec.md 4.4): swap the buffer out and deliver all of  *)
(* it to the transport boundary.  Refined by the Harvest module.           *)
HarvestTick ==
  /\ pending # <<>>
  /\ delivered' = delivered \o pending
  /\ pending' = <<>>
  /\ UNCHANGED <<txn, seqCounter>>

TxnTypeOK ==
  /\ txn \in [Txns -> TxnRecord]
  /\ seqCounter \in Nat
  /\ pending \in Seq(HarvestItem)
  /\ delivered \in Seq(HarvestItem)

=============================================================================
