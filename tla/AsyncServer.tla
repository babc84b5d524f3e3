---------------------------- MODULE AsyncServer ----------------------------
(***************************************************************************)
(* The instrumented HTTP server of src/examples/server/main.go, composed   *)
(* with the Transaction API.  Each request is served by one handler:       *)
(*   "async"    (main.go:173-196) spawns two goroutines, each with a       *)
(*              linked child transaction from txn.NewGoroutine; go1 is     *)
(*              joined through a sync.WaitGroup, go2 is fire-and-forget;   *)
(*   "segments" (main.go:51-74) nests segments f2 and f3 under f1 through  *)
(*              deferred End calls.                                        *)
(*   "mysql", "message", "external" (main.go:76-140) each start one        *)
(*              segment and end it before returning;                       *)
(*   "noticeError" (main.go:27-32) notices an error on the transaction;    *)
(*   "plain"    index, versionHandler, setName (main.go:19-39) write the   *)
(*              response and change nothing the model keeps;               *)
(*   "background" (main.go:222-230) is not wrapped: it starts and ends its *)
(*              own transaction.                                           *)
(* pinpoint.WrapHandleFunc (not under src/, modelled from spec.md 4.2)     *)
(* starts the request transaction before the handler and ends it after.    *)
(*                                                                         *)
(* Go's defer statements run in reverse order when the function returns;  *)
(* `defer txn.StartSegment(n).End()` starts the segment immediately and    *)
(* defers only End.  Each step below is one call that touches shared      *)
(* state; sleeps and response writes change nothing the model keeps.       *)
(***************************************************************************)
EXTENDS Transaction

CONSTANTS Requests,  \* requests served concurrently
          Handlers   \* the routes the requests may take: [Requests -> HandlerNames]

SegmentHandlers == {"mysql", "message", "external"}
HandlerNames == {"async", "segments", "noticeError", "plain", "background"}
                  \cup SegmentHandlers
ASSUME Handlers \subseteq [Requests -> HandlerNames]
ASSUME Txns = Requests \X {"req", "go1", "go2"}

VARIABLES route, \* the handler ServeMux routes each request to
          pc,   \* [Goroutines -> program location]
          wg,   \* [Requests -> WaitGroup counter of the async handler]
          seg   \* [Goroutines -> [outer, inner] local segment handles]

stepVars == <<txnVars, pc, wg, seg>>  \* what a step may change
vars == <<route, stepVars>>

Goroutines == Requests \X {"main", "go1", "go2"}
Req(r) == <<r, "req">>
Main(r) == <<r, "main">>
G(r, n) == <<r, n>>   \* goroutine n of request r, and its child txn handle

Locations == {"idle", "start", "wgAdd", "spawn1", "spawn2", "startWait",
              "wait", "endWait", "f1", "f2", "endF2", "f3", "endF3",
              "endF1", "startSeg", "endSeg", "wgDone", "endTxn", "done",
              "notice"}

Goto(g, from, to) ==
  /\ pc[g] = from
  /\ pc' = [pc EXCEPT ![g] = to]

SetHandle(g, field, h) == seg' = [seg EXCEPT ![g][field] = h]

---------------------------------------------------------------------------
(* WrapHandleFunc: StartTransaction before the handler, End after it.      *)
FirstStep == [h \in HandlerNames \ {"background"} |->
               CASE h = "async" -> "wgAdd"
                 [] h = "segments" -> "f1"
                 [] h = "noticeError" -> "notice"
                 [] h = "plain" -> "endTxn"
                 [] OTHER -> "startSeg"]

WrapStart(r) ==
  /\ route[r] # "background"
  /\ Goto(Main(r), "start", FirstStep[route[r]])
  /\ StartTransaction(Req(r))
  /\ UNCHANGED <<wg, seg>>

WrapEnd(r) ==
  /\ route[r] # "background"
  /\ Goto(Main(r), "endTxn", "done")
  /\ End(Req(r))
  /\ UNCHANGED <<wg, seg>>

\* Mutant: the handler forgets wg.Add(1) before spawning go1, whose Done
\* then drives the counter negative (a panic in sync.WaitGroup).
AsyncNoWgAdd(r) ==
  LET m == Main(r) IN
  \/ /\ Goto(m, "wgAdd", "spawn1")
     /\ UNCHANGED <<txnVars, wg, seg>>
  \/ /\ pc[m] = "spawn1"
     /\ pc[G(r, "go1")] = "idle"
     /\ pc' = [pc EXCEPT ![m] = "spawn2", ![G(r, "go1")] = "startSeg"]
     /\ NewGoroutine(Req(r), G(r, "go1"))
     /\ UNCHANGED <<wg, seg>>
  \/ /\ pc[m] = "spawn2"
     /\ pc[G(r, "go2")] = "idle"
     /\ pc' = [pc EXCEPT ![m] = "startWait", ![G(r, "go2")] = "startSeg"]
     /\ NewGoroutine(Req(r), G(r, "go2"))
     /\ UNCHANGED <<wg, seg>>
  \/ /\ Goto(m, "startWait", "wait")
     /\ SetHandle(m, "outer", NextHandle(Req(r)))
     /\ StartSegment(Req(r), RootSpan, "wg.Wait")
     /\ UNCHANGED wg
  \/ /\ Goto(m, "wait", "endWait")
     /\ wg[r] = 0
     /\ UNCHANGED <<txnVars, wg, seg>>
  \/ /\ Goto(m, "endWait", "endTxn")
     /\ EndSegment(Req(r), seg[m].outer)
     /\ UNCHANGED <<wg, seg>>

(* The async handler's own goroutine.  The argument txn.NewGoroutine() is  *)
(* evaluated by the caller before the go statement starts the goroutine.   *)
Async(r) ==
  LET m == Main(r) IN
  \/ /\ Goto(m, "wgAdd", "spawn1")
     /\ wg' = [wg EXCEPT ![r] = @ + 1]
     /\ UNCHANGED <<txnVars, seg>>
  \/ /\ pc[m] = "spawn1"
     /\ pc[G(r, "go1")] = "idle"
     /\ pc' = [pc EXCEPT ![m] = "spawn2", ![G(r, "go1")] = "startSeg"]
     /\ NewGoroutine(Req(r), G(r, "go1"))
     /\ UNCHANGED <<wg, seg>>
  \/ /\ pc[m] = "spawn2"
     /\ pc[G(r, "go2")] = "idle"
     /\ pc' = [pc EXCEPT ![m] = "startWait", ![G(r, "go2")] = "startSeg"]
     /\ NewGoroutine(Req(r), G(r, "go2"))
     /\ UNCHANGED <<wg, seg>>
  \/ /\ Goto(m, "startWait", "wait")
     /\ SetHandle(m, "outer", NextHandle(Req(r)))
     /\ StartSegment(Req(r), RootSpan, "wg.Wait")
     /\ UNCHANGED wg
  \/ /\ Goto(m, "wait", "endWait")
     /\ wg[r] = 0
     /\ UNCHANGED <<txnVars, wg, seg>>
  \/ /\ Goto(m, "endWait", "endTxn")
     /\ EndSegment(Req(r), seg[m].outer)
     /\ UNCHANGED <<wg, seg>>

\* Mutant: `defer txn.End()` registered last, so it runs before the
\* segment's End.
Go1EndsTxnFirst(r) ==
  LET g == G(r, "go1") IN
  \/ /\ Goto(g, "startSeg", "endTxn")
     /\ SetHandle(g, "outer", NextHandle(g))
     /\ StartSegment(g, RootSpan, "async-block")
     /\ UNCHANGED wg
  \/ /\ Goto(g, "endTxn", "endSeg")
     /\ End(g)
     /\ UNCHANGED <<wg, seg>>
  \/ /\ Goto(g, "endSeg", "wgDone")
     /\ EndSegment(g, seg[g].outer)
     /\ UNCHANGED <<wg, seg>>
  \/ /\ Goto(g, "wgDone", "done")
     /\ wg' = [wg EXCEPT ![r] = @ - 1]
     /\ UNCHANGED <<txnVars, seg>>

\* Mutant: `defer wg.Done()` registered after the segment, so it runs first.
Go1DoneFirst(r) ==
  LET g == G(r, "go1") IN
  \/ /\ Goto(g, "startSeg", "wgDone")
     /\ SetHandle(g, "outer", NextHandle(g))
     /\ StartSegment(g, RootSpan, "async-block")
     /\ UNCHANGED wg
  \/ /\ Goto(g, "wgDone", "endSeg")
     /\ wg' = [wg EXCEPT ![r] = @ - 1]
     /\ UNCHANGED <<txnVars, seg>>
  \/ /\ Goto(g, "endSeg", "endTxn")
     /\ EndSegment(g, seg[g].outer)
     /\ UNCHANGED <<wg, seg>>
  \/ /\ Goto(g, "endTxn", "done")
     /\ End(g)
     /\ UNCHANGED <<wg, seg>>

(* go func(txn) { defer txn.End(); defer wg.Done();                        *)
(*                defer txn.StartSegment("async-block").End(); ... }       *)
Go1(r) ==
  LET g == G(r, "go1") IN
  \/ /\ Goto(g, "startSeg", "endSeg")
     /\ SetHandle(g, "outer", NextHandle(g))
     /\ StartSegment(g, RootSpan, "async-block")
     /\ UNCHANGED wg
  \/ /\ Goto(g, "endSeg", "wgDone")
     /\ EndSegment(g, seg[g].outer)
     /\ UNCHANGED <<wg, seg>>
  \/ /\ Goto(g, "wgDone", "endTxn")
     /\ wg' = [wg EXCEPT ![r] = @ - 1]
     /\ UNCHANGED <<txnVars, seg>>
  \/ /\ Goto(g, "endTxn", "done")
     /\ End(g)
     /\ UNCHANGED <<wg, seg>>

\* Mutant: the goroutine omits `defer txn.End()`.
Go2NeverEnds(r) ==
  LET g == G(r, "go2") IN
  \/ /\ Goto(g, "startSeg", "endSeg")
     /\ SetHandle(g, "outer", NextHandle(g))
     /\ StartSegment(g, RootSpan, "async-nonblock")
     /\ UNCHANGED wg
  \/ /\ Goto(g, "endSeg", "done")
     /\ EndSegment(g, seg[g].outer)
     /\ UNCHANGED <<wg, seg>>

(* go func(txn) { defer txn.End();                                         *)
(*                defer txn.StartSegment("async-nonblock").End(); ... }    *)
Go2(r) ==
  LET g == G(r, "go2") IN
  \/ /\ Goto(g, "startSeg", "endSeg")
     /\ SetHandle(g, "outer", NextHandle(g))
     /\ StartSegment(g, RootSpan, "async-nonblock")
     /\ UNCHANGED wg
  \/ /\ Goto(g, "endSeg", "endTxn")
     /\ EndSegment(g, seg[g].outer)
     /\ UNCHANGED <<wg, seg>>
  \/ /\ Goto(g, "endTxn", "done")
     /\ End(g)
     /\ UNCHANGED <<wg, seg>>

\* Mutant: `txn.StartSegment("f1").End()` without defer: f1 ends at once.
SegmentsF1NotDeferred(r) ==
  LET m == Main(r)
      t == Req(r) IN
  \/ /\ Goto(m, "f1", "endF1")
     /\ SetHandle(m, "outer", NextHandle(t))
     /\ StartSegment(t, RootSpan, "f1")
     /\ UNCHANGED wg
  \/ /\ Goto(m, "endF1", "f2")
     /\ EndSegment(t, seg[m].outer)
     /\ UNCHANGED <<wg, seg>>
  \/ /\ Goto(m, "f2", "endF2")
     /\ SetHandle(m, "inner", NextHandle(t))
     /\ StartSegment(t, seg[m].outer, "f2")
     /\ UNCHANGED wg
  \/ /\ Goto(m, "endF2", "endTxn")
     /\ EndSegment(t, seg[m].inner)
     /\ UNCHANGED <<wg, seg>>

(* The segments handler: f1 is deferred in the outer closure, f2 and f3 in *)
(* two inner closures run one after the other.                             *)
Segments(r) ==
  LET m == Main(r)
      t == Req(r) IN
  \/ /\ Goto(m, "f1", "f2")
     /\ SetHandle(m, "outer", NextHandle(t))
     /\ StartSegment(t, RootSpan, "f1")
     /\ UNCHANGED wg
  \/ /\ Goto(m, "f2", "endF2")
     /\ SetHandle(m, "inner", NextHandle(t))
     /\ StartSegment(t, seg[m].outer, "f2")
     /\ UNCHANGED wg
  \/ /\ Goto(m, "endF2", "f3")
     /\ EndSegment(t, seg[m].inner)
     /\ UNCHANGED <<wg, seg>>
  \/ /\ Goto(m, "f3", "endF3")
     /\ SetHandle(m, "inner", NextHandle(t))
     /\ StartSegment(t, seg[m].outer, "f3")
     /\ UNCHANGED wg
  \/ /\ Goto(m, "endF3", "endF1")
     /\ EndSegment(t, seg[m].inner)
     /\ UNCHANGED <<wg, seg>>
  \/ /\ Goto(m, "endF1", "endTxn")
     /\ EndSegment(t, seg[m].outer)
     /\ UNCHANGED <<wg, seg>>

\* Mutant: external calls es.End() only after a successful round trip.
SegmentHandlerNoEndOnError(r) ==
  LET m == Main(r)
      t == Req(r) IN
  /\ route[r] \in SegmentHandlers
  /\ UNCHANGED wg
  /\ \/ /\ Goto(m, "startSeg", "endSeg")
        /\ SetHandle(m, "outer", NextHandle(t))
        /\ StartSegment(t, RootSpan, route[r])
     \/ /\ Goto(m, "endSeg", "endTxn")
        /\ \/ EndSegment(t, seg[m].outer)
           \/ UNCHANGED txnVars
        /\ UNCHANGED seg

(* mysql and message: a segment from txn.StartSegmentNow() whose End is   *)
(* deferred; external: StartExternalSegment, the round trip, then es.End() *)
(* before the error check, so on both of its return paths.                 *)
SegmentHandler(r) ==
  LET m == Main(r)
      t == Req(r) IN
  /\ route[r] \in SegmentHandlers
  /\ UNCHANGED wg
  /\ \/ /\ Goto(m, "startSeg", "endSeg")
        /\ SetHandle(m, "outer", NextHandle(t))
        /\ StartSegment(t, RootSpan, route[r])
     \/ /\ Goto(m, "endSeg", "endTxn")
        /\ EndSegment(t, seg[m].outer)
        /\ UNCHANGED seg

(* noticeError: txn.NoticeError on the transaction from the context.       *)
NoticeErrorHandler(r) ==
  /\ route[r] = "noticeError"
  /\ Goto(Main(r), "notice", "endTxn")
  /\ NoticeError(Req(r))
  /\ UNCHANGED <<wg, seg>>

\* Mutant: the background handler forgets `defer txn.End()`.
BackgroundNoEnd(r) ==
  /\ route[r] = "background"
  /\ UNCHANGED <<wg, seg>>
  /\ \/ Goto(Main(r), "start", "done") /\ StartTransaction(Req(r))

(* /background: app.StartTransaction("background"), defer txn.End().       *)
Background(r) ==
  /\ route[r] = "background"
  /\ UNCHANGED <<wg, seg>>
  /\ \/ Goto(Main(r), "start", "endTxn") /\ StartTransaction(Req(r))
     \/ Goto(Main(r), "endTxn", "done") /\ End(Req(r))

Init ==
  /\ TxnInit
  /\ route \in Handlers
  /\ pc = [g \in Goroutines |-> IF g[2] = "main" THEN "start" ELSE "idle"]
  /\ wg = [r \in Requests |-> 0]
  /\ seg = [g \in Goroutines |-> [outer |-> Detached, inner |-> Detached]]

Next ==
  /\ UNCHANGED route
  /\ \/ \E r \in Requests :
          \/ WrapStart(r) \/ WrapEnd(r)
          \/ Async(r) \/ Go1(r) \/ Go2(r) \/ Segments(r)
          \/ SegmentHandler(r) \/ NoticeErrorHandler(r) \/ Background(r)
     \/ HarvestTick /\ UNCHANGED <<pc, wg, seg>>

(* The Go scheduler runs every runnable goroutine, every sleep ends, and   *)
(* the harvest timer keeps ticking while the application runs.             *)
Fairness ==
  /\ \A r \in Requests :
       /\ WF_stepVars(WrapStart(r)) /\ WF_stepVars(WrapEnd(r))
       /\ WF_stepVars(Async(r)) /\ WF_stepVars(Go1(r))
       /\ WF_stepVars(Go2(r)) /\ WF_stepVars(Segments(r))
       /\ WF_stepVars(SegmentHandler(r)) /\ WF_stepVars(NoticeErrorHandler(r))
       /\ WF_stepVars(Background(r))
  /\ WF_stepVars(HarvestTick /\ UNCHANGED <<pc, wg, seg>>)

Spec == Init /\ [][Next]_vars /\ Fairness

---------------------------------------------------------------------------
TypeOK ==
  /\ TxnTypeOK
  /\ pc \in [Goroutines -> Locations]
  /\ wg \in [Requests -> Nat]
  /\ seg \in [Goroutines -> [outer : Int, inner : Int]]

Harvested == {pending[i] : i \in DOMAIN pending}
               \cup {delivered[i] : i \in DOMAIN delivered}

(* Every record that reaches the harvest buffer is complete: the deferred *)
(* segment End calls of the handler and of its goroutines have all run     *)
(* before the transaction's End pushed it.                                 *)
HarvestedSegmentsClosed ==
  \A h \in Harvested : \A s \in DOMAIN h.rec.segs : h.rec.segs[s].ended

(* Segments nest: a segment never ends while a segment started under it is *)
(* still open (f2 and f3 end before f1 in the segments handler).           *)
NestedEnd ==
  \A t \in Txns : \A s, c \in DOMAIN txn[t].segs :
    (txn[t].segs[c].parent = s /\ txn[t].segs[s].ended)
      => txn[t].segs[c].ended

(* The WaitGroup orders two transactions: when the async handler's        *)
(* "wg.Wait" segment has ended, go1's "async-block" segment, in another    *)
(* transaction on another goroutine, has already ended.                    *)
SegEnded(t, n) ==
  \E s \in DOMAIN txn[t].segs : txn[t].segs[s].name = n /\ txn[t].segs[s].ended

WaitGroupOrder ==
  \A r \in Requests :
    SegEnded(Req(r), "wg.Wait") => SegEnded(G(r, "go1"), "async-block")

(* Every transaction that is started is eventually delivered by a harvest, *)
(* the fire-and-forget go2 child included.                                 *)
IsDelivered(t) == \E i \in DOMAIN delivered : delivered[i].id = t

AllDelivered == \A t \in Txns : Started(t) ~> IsDelivered(t)

=============================================================================
