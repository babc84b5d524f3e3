------------------------------- MODULE PubSub -------------------------------
(***************************************************************************)
(* src/integrations/nrmicro/example/pubsub/main.go with the go-micro       *)
(* wrappers of src/integrations/nrmicro/nrmicro.go, composed with the      *)
(* harvest pipeline (module Harvest).                                      *)
(*                                                                         *)
(* main connects, defers app.Shutdown(10s), builds a service whose client  *)
(* is wrapped by ClientWrapper and whose subscribers are wrapped by        *)
(* SubscriberWrapper(app), starts the publish goroutine and blocks in      *)
(* s.Run() until a signal.  Every second the publish goroutine starts a    *)
(* transaction, publishes one message through nrWrapper.Publish and ends   *)
(* the transaction; a publish error is log.Fatal.  The service hands each  *)
(* message to the wrapped subscriber, which runs subEv inside a            *)
(* transaction of its own.  Both transactions reach the aggregator through *)
(* txn.End.  When main returns, the process exits and the publish         *)
(* goroutine with it.                                                      *)
(*                                                                         *)
(* Data abstraction.  The segment nrWrapper.Publish opens and closes       *)
(* inside the publish step, the attributes and the trace headers are not  *)
(* tracked: the harvest pipeline reads only the finished record, any one   *)
(* of Records.  The broker is a count of messages not yet handed to the   *)
(* subscriber.  go-micro and the broker are outside the repository: a     *)
(* delivery may start only while s.Run() runs, and a handler already      *)
(* running may finish at any time.                                         *)
(***************************************************************************)
EXTENDS Harvest

CONSTANTS NumPublishes   \* ticks of the publish loop the model lets happen

\* Each tick ends at most two transactions: the publisher's and the subscriber's.
ASSUME NumPublishes \in Nat /\ MaxMsgs >= 2 * NumPublishes

VARIABLES ppc,    \* the publish goroutine: "tick", "publish", "end"
          npub,   \* ticks taken so far
          topic,  \* messages the broker holds for the subscriber
          spc,    \* the wrapped subscriber: "idle", "handling"
          mpc,    \* main: "run", "shutdown", "waitFlush", "done"
          exit    \* the process: "none", "ok" (main returned), "fatal"

psvars == <<ppc, npub, topic, spc, mpc, exit>>
pvars == <<allVars, psvars>>

Running == exit = "none"

(* txn.End() of either producer: the record is pushed, or nothing happens *)
(* once shutdown has disabled operations.                                  *)
EndTxn(m) == IF accepting THEN TxnEnd(m) ELSE UNCHANGED allVars

---------------------------------------------------------------------------
(* A tick of the publish loop: app.StartTransaction("publish").           *)
PublishStart ==
  /\ Running /\ ppc = "tick" /\ npub < NumPublishes
  /\ ppc' = "publish"
  /\ npub' = npub + 1
  /\ UNCHANGED <<allVars, topic, spc, mpc, exit>>

(* c.Publish(ctx, msg) through nrWrapper.Publish: startMessage opens a     *)
(* producer segment, the broker takes the message and the deferred         *)
(* seg.End() closes the segment.  An error is log.Fatal, that is          *)
(* os.Exit(1), which runs no deferred call of main.                        *)
Publish ==
  /\ Running /\ ppc = "publish"
  /\ \/ /\ topic' = topic + 1
        /\ ppc' = "end"
        /\ UNCHANGED exit
     \/ /\ exit' = "fatal"
        /\ UNCHANGED <<topic, ppc>>
  /\ UNCHANGED <<allVars, npub, spc, mpc>>

\* txn.End() of the "publish" transaction; then wait for the next tick.
PublishEnd ==
  /\ Running /\ ppc = "end"
  /\ \E m \in Records : EndTxn(m)
  /\ ppc' = "tick"
  /\ UNCHANGED <<npub, topic, spc, mpc, exit>>

(* SubscriberWrapper(app): for a message of the topic, StartTransaction,   *)
(* the routing-key attribute and the trace headers, then subEv.            *)
SubscriberStart ==
  /\ Running /\ mpc = "run" /\ spc = "idle" /\ topic > 0
  /\ topic' = topic - 1
  /\ spc' = "handling"
  /\ UNCHANGED <<allVars, ppc, npub, mpc, exit>>

(* subEv prints and returns nil, so no error is noticed; the deferred     *)
(* txn.End() pushes the subscriber's record.                               *)
SubscriberEnd ==
  /\ Running /\ spc = "handling"
  /\ \E m \in Records : EndTxn(m)
  /\ spc' = "idle"
  /\ UNCHANGED <<ppc, npub, topic, mpc, exit>>

---------------------------------------------------------------------------
(* s.Run() returns nil after a signal and main returns into its deferred  *)
(* call; an error from Run is log.Fatal, which skips it.                   *)
ServiceRun ==
  /\ Running /\ mpc = "run"
  /\ \/ mpc' = "shutdown" /\ UNCHANGED exit
     \/ exit' = "fatal" /\ UNCHANGED mpc
  /\ UNCHANGED <<allVars, ppc, npub, topic, spc>>

\* The deferred app.Shutdown(10s): request the final flush and wait for it.
DeferShutdown ==
  /\ Running /\ mpc = "shutdown"
  /\ Shutdown
  /\ mpc' = "waitFlush"
  /\ UNCHANGED <<ppc, npub, topic, spc, exit>>

\* Shutdown returns once the aggregator has stopped; main returns and the process exits.
MainReturns ==
  /\ Running /\ mpc = "waitFlush" /\ phase = "Stopped"
  /\ mpc' = "done"
  /\ exit' = "ok"
  /\ UNCHANGED <<allVars, ppc, npub, topic, spc>>

\* The aggregator's own steps, while the process lives.
Harvester ==
  /\ Running
  /\ \/ Tick \/ EncodeNext \/ FlushDone \/ ShutdownDone \/ ShutdownTimeout
  /\ UNCHANGED psvars

PInit ==
  /\ HInit
  /\ ppc = "tick" /\ npub = 0 /\ topic = 0 /\ spc = "idle"
  /\ mpc = "run" /\ exit = "none"

PNext ==
  \/ PublishStart \/ Publish \/ PublishEnd
  \/ SubscriberStart \/ SubscriberEnd
  \/ ServiceRun \/ DeferShutdown \/ MainReturns
  \/ Harvester

(* The ticker keeps firing, the service keeps handing messages over and   *)
(* handlers return.  The signal is not fair: the service may run forever. *)
(* The deferred Shutdown waits for an Idle aggregator that ticks keep     *)
(* interrupting, so it is strongly fair.                                   *)
PFairness ==
  /\ WF_pvars(PublishStart) /\ WF_pvars(PublishEnd)
  /\ WF_pvars(SubscriberStart) /\ WF_pvars(SubscriberEnd)
  /\ SF_pvars(DeferShutdown) /\ WF_pvars(MainReturns)
  /\ WF_pvars(Running /\ Tick /\ UNCHANGED psvars)
  /\ WF_pvars(Running /\ EncodeNext /\ UNCHANGED psvars)
  /\ WF_pvars(Running /\ FlushDone /\ UNCHANGED psvars)
  /\ WF_pvars(Running /\ ShutdownDone /\ UNCHANGED psvars)

PSpec == PInit /\ [][PNext]_pvars /\ PFairness

---------------------------------------------------------------------------
PTypeOK ==
  /\ HTypeOK
  /\ ppc \in {"tick", "publish", "end"} /\ npub \in 0..NumPublishes
  /\ topic \in 0..NumPublishes /\ spc \in {"idle", "handling"}
  /\ mpc \in {"run", "shutdown", "waitFlush", "done"}
  /\ exit \in {"none", "ok", "fatal"}

(* spec.md 4.4 and 6: when main has returned from its deferred            *)
(* app.Shutdown, every transaction the publish goroutine or the           *)
(* subscriber ended has been delivered or dropped.  The publish goroutine *)
(* keeps running while Shutdown flushes.                                   *)
EndedBeforeExitSettled ==
  exit = "ok" => Settled = Len(log)

=============================================================================
