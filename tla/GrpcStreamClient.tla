--------------------------- MODULE GrpcStreamClient ---------------------------
(***************************************************************************)
(* src/integrations/nrgrpc/example/client/client.go: main and              *)
(* doStreamStream, composed with the harvest pipeline (module Harvest).    *)
(*                                                                         *)
(* main registers `defer app.Shutdown` and `defer txn.End()`, dials, and,  *)
(* once the dial succeeded, `defer conn.Close()`; then it calls            *)
(* doStreamStream, which opens the stream (an error panics) and starts a  *)
(* receiver goroutine that prints replies until io.EOF and then closes     *)
(* waitc.  main sends NumSends messages, calls CloseSend and blocks on     *)
(* <-waitc.  Any other error from Send or Recv panics.  A panic in main    *)
(* runs main's deferred calls and then ends the process.  A panic in the   *)
(* receiver ends the process at once.                                      *)
(*                                                                         *)
(* The peer is the sample server's bidirectional echo, which is outside    *)
(* the repository.  It is modelled as gRPC behaves: it echoes each         *)
(* message, ends the stream with EOF after the client's CloseSend, or the  *)
(* stream breaks (at most once) and Recv returns an error.                 *)
(***************************************************************************)
EXTENDS Harvest
LOCAL INSTANCE SequencesExt

CONSTANTS NumSends,  \* messages doStreamStream sends (3 in the code)
          MainTxn    \* the record txn.End() pushes for the "main" transaction

ASSUME NumSends \in Nat /\ MainTxn \in Records

VARIABLES mpc,        \* main: "dial", "open", "send", "wait", "defers",
                      \* "waitFlush", "done"
          registered, \* how many of DeferStmts main has executed
          i,          \* the send loop's counter
          d,          \* the next deferred call to run
          panicking,  \* main is unwinding a panic
          rpc,        \* the receiver goroutine: "none" (no stream yet), "recv",
                      \* "returned"
          waitc,      \* TRUE once waitc is closed
          up,         \* client -> server: "msg", then "eof" after CloseSend
          down,       \* server -> client: "msg", "eof" or "err"
          server,     \* the peer: "serve", "done", "broken"
          connOpen,   \* FALSE after conn.Close(); the receiver has returned
                      \* or the stream's error is already queued for it
          exit        \* the process: "none", "ok" (main returned), "panic"

cvars == <<mpc, registered, i, d, panicking, rpc, waitc, up, down, server, connOpen, exit>>
gvars == <<allVars, cvars>>

\* main's defer statements, in program order.
DeferStmts == <<"app.Shutdown", "txn.End", "conn.Close">>

\* Mutant: the deferred calls run in the order they were registered.
DefersFIFO == SubSeq(DeferStmts, 1, registered)

(* The deferred calls of main in the order they run: the reverse of the   *)
(* defer statements main has executed.                                     *)
Defers == Reverse(SubSeq(DeferStmts, 1, registered))

Running == exit = "none"

---------------------------------------------------------------------------
(* grpc.Dial with the nrgrpc client interceptors.  On success main defers *)
(* conn.Close(); an error panics with two deferred calls registered.       *)
Dial ==
  /\ Running /\ mpc = "dial"
  /\ \/ /\ mpc' = "open"
        /\ registered' = 3
        /\ UNCHANGED panicking
     \/ /\ mpc' = "defers"
        /\ panicking' = TRUE
        /\ UNCHANGED registered
  /\ UNCHANGED <<allVars, i, d, rpc, waitc, up, down, server, connOpen, exit>>

(* client.DoStreamStream(ctx): the stream is open and the receiver        *)
(* goroutine starts; an error panics before anything is sent.              *)
OpenStream ==
  /\ Running /\ mpc = "open"
  /\ \/ mpc' = "send" /\ rpc' = "recv" /\ UNCHANGED panicking
     \/ mpc' = "defers" /\ panicking' = TRUE /\ UNCHANGED rpc
  /\ UNCHANGED <<allVars, registered, i, d, waitc, up, down, server, connOpen, exit>>

(* stream.Send: queue a message, or fail once the stream is broken.  The   *)
(* error panics, and main unwinds through its deferred calls.              *)
StreamSend ==
  /\ Running /\ mpc = "send" /\ i < NumSends
  /\ \/ /\ up' = Append(up, "msg")
        /\ i' = i + 1
        /\ UNCHANGED <<mpc, panicking>>
     \/ /\ server = "broken"
        /\ mpc' = "defers"
        /\ panicking' = TRUE
        /\ UNCHANGED <<i, up>>
  /\ UNCHANGED <<allVars, registered, d, rpc, waitc, down, server, connOpen, exit>>

\* stream.CloseSend(), whose error is ignored, then <-waitc.
CloseSend ==
  /\ Running /\ mpc = "send" /\ i = NumSends
  /\ up' = Append(up, "eof")
  /\ mpc' = "wait"
  /\ UNCHANGED <<allVars, registered, i, d, panicking, rpc, waitc, down, server, connOpen, exit>>

WaitDone ==
  /\ Running /\ mpc = "wait" /\ waitc
  /\ mpc' = "defers"
  /\ UNCHANGED <<allVars, registered, i, d, panicking, rpc, waitc, up, down, server, connOpen, exit>>

(* Run the next deferred call.  txn.End() is a no-op once the agent has   *)
(* disabled operations.  app.Shutdown starts the final flush and blocks.  *)
RunDefer ==
  /\ Running /\ mpc = "defers" /\ d <= Len(Defers)
  /\ d' = d + 1
  /\ CASE Defers[d] = "conn.Close" ->
            /\ connOpen' = FALSE
            /\ UNCHANGED <<allVars, mpc>>
       [] Defers[d] = "txn.End" ->
            /\ IF accepting THEN TxnEnd(MainTxn) ELSE UNCHANGED allVars
            /\ UNCHANGED <<mpc, connOpen>>
       [] Defers[d] = "app.Shutdown" ->
            /\ Shutdown
            /\ mpc' = "waitFlush"
            /\ UNCHANGED connOpen
  /\ UNCHANGED <<registered, i, panicking, rpc, waitc, up, down, server, exit>>

ShutdownReturns ==
  /\ Running /\ mpc = "waitFlush" /\ phase = "Stopped"
  /\ mpc' = "defers"
  /\ UNCHANGED <<allVars, registered, i, d, panicking, rpc, waitc, up, down, server, connOpen, exit>>

\* main returns, or the panic it unwound ends the process.
MainReturns ==
  /\ Running /\ mpc = "defers" /\ d > Len(Defers)
  /\ mpc' = "done"
  /\ exit' = IF panicking THEN "panic" ELSE "ok"
  /\ UNCHANGED <<allVars, registered, i, d, panicking, rpc, waitc, up, down, server, connOpen>>

---------------------------------------------------------------------------
\* Mutant: on io.EOF the receiver returns without closing waitc.
RecvNoClose ==
  /\ Running /\ rpc = "recv" /\ down # <<>>
  /\ down' = Tail(down)
  /\ CASE Head(down) = "msg" -> UNCHANGED <<rpc, exit>>
       [] Head(down) = "eof" -> rpc' = "returned" /\ UNCHANGED exit
       [] Head(down) = "err" -> exit' = "panic" /\ UNCHANGED rpc
  /\ UNCHANGED <<allVars, registered, mpc, i, d, panicking, waitc, up, server, connOpen>>

(* The receiver's stream.Recv(): print a reply; on io.EOF close waitc and *)
(* return; on any other error panic, which ends the process.              *)
Recv ==
  /\ Running /\ rpc = "recv" /\ down # <<>>
  /\ down' = Tail(down)
  /\ CASE Head(down) = "msg" -> UNCHANGED <<rpc, waitc, exit>>
       [] Head(down) = "eof" -> rpc' = "returned" /\ waitc' = TRUE /\ UNCHANGED exit
       [] Head(down) = "err" -> exit' = "panic" /\ UNCHANGED <<rpc, waitc>>
  /\ UNCHANGED <<allVars, registered, mpc, i, d, panicking, up, server, connOpen>>

---------------------------------------------------------------------------
\* The peer echoes a message, or ends the stream after the client's EOF.
Echo ==
  /\ Running /\ server = "serve" /\ up # <<>>
  /\ up' = Tail(up)
  /\ down' = Append(down, Head(up))
  /\ server' = IF Head(up) = "eof" THEN "done" ELSE "serve"
  /\ UNCHANGED <<allVars, registered, mpc, i, d, panicking, rpc, waitc, connOpen, exit>>

\* The stream breaks: Recv returns an error after what was already sent.
Break ==
  /\ Running /\ rpc # "none" /\ server = "serve"
  /\ down' = Append(down, "err")
  /\ server' = "broken"
  /\ UNCHANGED <<allVars, registered, mpc, i, d, panicking, rpc, waitc, up, connOpen, exit>>

Harvester ==
  /\ Running
  /\ \/ Tick \/ EncodeNext \/ FlushDone \/ ShutdownDone \/ ShutdownTimeout
  /\ UNCHANGED cvars

GInit ==
  /\ HInit
  /\ mpc = "dial" /\ registered = 2 /\ i = 0 /\ d = 1 /\ panicking = FALSE
  /\ rpc = "none" /\ waitc = FALSE
  /\ up = <<>> /\ down = <<>> /\ server = "serve"
  /\ connOpen = TRUE /\ exit = "none"

GNext ==
  \/ Dial \/ OpenStream
  \/ StreamSend \/ CloseSend \/ WaitDone \/ RunDefer \/ ShutdownReturns \/ MainReturns
  \/ Recv
  \/ Echo \/ Break
  \/ Harvester

(* Every goroutine that can run does, and the peer answers.  A break is   *)
(* not fair.  The shutdown request is taken although timer ticks keep     *)
(* interrupting it (the aggregator selects at random): strong fairness.   *)
GFairness ==
  /\ WF_gvars(Dial) /\ WF_gvars(OpenStream) /\ WF_gvars(StreamSend) /\ WF_gvars(CloseSend) /\ WF_gvars(WaitDone)
  /\ SF_gvars(RunDefer) /\ WF_gvars(ShutdownReturns) /\ WF_gvars(MainReturns)
  /\ WF_gvars(Recv) /\ WF_gvars(Echo)
  /\ WF_gvars(Running /\ Tick /\ UNCHANGED cvars)
  /\ WF_gvars(Running /\ EncodeNext /\ UNCHANGED cvars)
  /\ WF_gvars(Running /\ FlushDone /\ UNCHANGED cvars)
  /\ WF_gvars(Running /\ ShutdownDone /\ UNCHANGED cvars)

GSpec == GInit /\ [][GNext]_gvars /\ GFairness

---------------------------------------------------------------------------
GTypeOK ==
  /\ HTypeOK
  /\ mpc \in {"dial", "open", "send", "wait", "defers", "waitFlush", "done"}
  /\ registered \in {2, 3}
  /\ i \in 0..NumSends /\ d \in 1..Len(DeferStmts) + 1
  /\ panicking \in BOOLEAN /\ waitc \in BOOLEAN /\ connOpen \in BOOLEAN
  /\ rpc \in {"none", "recv", "returned"} /\ server \in {"serve", "done", "broken"}
  /\ up \in Seq({"msg", "eof"}) /\ down \in Seq({"msg", "eof", "err"})
  /\ exit \in {"none", "ok", "panic"}

(* The process always ends: main's <-waitc is answered by the receiver    *)
(* closing waitc on EOF, and a broken stream panics one goroutine or the  *)
(* other instead of leaving main blocked.                                  *)
Terminates == <>(exit # "none")

(* Once main has run all its deferred calls, after a normal return or a    *)
(* panic of its own (a failed dial, stream open or Send), the "main"       *)
(* transaction was ended while the agent still accepted records and has   *)
(* been flushed or dropped: txn.End runs before app.Shutdown because       *)
(* defers run last-in, first-out, with or without conn.Close registered.   *)
MainTxnReported ==
  mpc = "done" => Len(log) = 1 /\ Settled = 1

=============================================================================
