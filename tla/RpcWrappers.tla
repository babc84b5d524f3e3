---------------------------- MODULE RpcWrappers ----------------------------
(***************************************************************************)
(* The server-side RPC instrumentation, composed with the Transaction API:  *)
(*   src/integrations/nrmicro/nrmicro.go  HandlerWrapper, SubscriberWrapper,*)
(*       startWebTransaction, and the client wrapper calls (Call, Stream,  *)
(*       Publish) through startExternal / startMessage;                    *)
(*   src/integrations/nrgrpc/nrgrpc_server.go  UnaryServerInterceptor,     *)
(*       StreamServerInterceptor, startTransaction, wrappedServerStream.   *)
(* Each call is served by its own goroutine, with one transaction handle.  *)
(* The user handler may make one outgoing client call, then returns a     *)
(* result; the wrapper records it and its deferred txn.End() runs last.    *)
(* A wrapper built with a nil *Application passes the call through without *)
(* a transaction, so the handler's context holds none and startExternal   *)
(* returns the zero segment.  Header copying (metadata -> http.Header) and *)
(* SetWebRequest carry no state the properties read and are left out.      *)
(***************************************************************************)
EXTENDS Transaction

CONSTANTS Calls,     \* inbound calls served concurrently
          Kind,      \* [Calls -> wrapper kind]
          NilApp,    \* calls whose wrapper was built with a nil app
          ClientOp,  \* [Calls -> outgoing call made by the user handler]
          Results    \* results a handler may return

Kinds == {"microHandler", "microSubscriber", "grpcUnary", "grpcStream"}
ASSUME Kind \in [Calls -> Kinds]
ASSUME ClientOp \in [Calls -> {"none", "call", "publish"}]
ASSUME NilApp \subseteq Calls
ASSUME Txns = Calls
\* A handler result: nil, a go-micro *errors.Error, a gRPC status error or
\* any other error, with the code the error carries.
ASSUME Results \subseteq [kind : {"nil", "micro", "status", "other"}, code : Int]

\* pinpoint.AttributeMessageRoutingKey.
RoutingKey == "message.routingKey"
\* The zero ExternalSegment / nil *MessageProducerSegment: End is a no-op.
NoSeg == 0

VARIABLES pc,      \* [Calls -> program location]
          ext,     \* [Calls -> handle of the client call's segment]
          result   \* [Calls -> the handler's returned result]

vars == <<txnVars, pc, ext, result>>

Goto(c, from, to) ==
  /\ pc[c] = from
  /\ pc' = [pc EXCEPT ![c] = to]

\* pinpoint.FromContext(ctx) != nil inside the handler.
HasTxn(c) == c \notin NilApp

---------------------------------------------------------------------------
(* startWebTransaction (nrmicro) and startTransaction (nrgrpc): build the  *)
(* web request from the incoming metadata and StartTransaction.            *)
startWebTransaction(c) == StartTransaction(c)
startTransaction(c) == StartTransaction(c)

\* Mutant: the nil check on the context's transaction is dropped, so the
\* segment is started on whatever FromContext returned.
startExternalNoTxnCheck(c) ==
  /\ ext' = [ext EXCEPT ![c] = NextHandle(c)]
  /\ StartSegment(c, RootSpan, "external")

(* startExternal / startMessage: a segment on the context's transaction,   *)
(* or the zero segment when the context holds none.                       *)
startExternal(c) ==
  IF HasTxn(c)
    THEN /\ ext' = [ext EXCEPT ![c] = NextHandle(c)]
         /\ StartSegment(c, RootSpan, "external")
    ELSE /\ ext' = [ext EXCEPT ![c] = NoSeg]
         /\ UNCHANGED txnVars
startMessage(c) ==
  IF HasTxn(c)
    THEN /\ ext' = [ext EXCEPT ![c] = NextHandle(c)]
         /\ StartSegment(c, RootSpan, "message")
    ELSE /\ ext' = [ext EXCEPT ![c] = NoSeg]
         /\ UNCHANGED txnVars

\* Mutant: the client call ends its segment only when the call succeeds.
ClientCallNoDefer(c) ==
  \/ /\ Goto(c, "clientStart", IF ClientOp[c] = "none" THEN "return"
                                ELSE "clientEnd")
     /\ CASE ClientOp[c] = "call" -> startExternal(c)
          [] ClientOp[c] = "publish" -> startMessage(c)
          [] OTHER -> UNCHANGED <<txnVars, ext>>
     /\ UNCHANGED result
  \/ /\ Goto(c, "clientEnd", "return")
     /\ \/ UNCHANGED txnVars
        \/ ext[c] # NoSeg /\ EndSegment(c, ext[c])
     /\ UNCHANGED <<ext, result>>

(* nrWrapper.Call / Stream / Publish (and CallWrapper): start the segment, *)
(* defer its End, make the call.  The call's own outcome does not matter  *)
(* to the agent: the deferred End runs on every return path.               *)
ClientCall(c) ==
  \/ /\ Goto(c, "clientStart", IF ClientOp[c] = "none" THEN "return"
                                ELSE "clientEnd")
     /\ CASE ClientOp[c] = "call" -> startExternal(c)
          [] ClientOp[c] = "publish" -> startMessage(c)
          [] OTHER -> UNCHANGED <<txnVars, ext>>
     /\ UNCHANGED result
  \/ /\ Goto(c, "clientEnd", "return")
     /\ IF ext[c] # NoSeg THEN EndSegment(c, ext[c]) ELSE UNCHANGED txnVars
     /\ UNCHANGED <<ext, result>>

\* The user handler returns one of the results its framework produces.
ResultsOf(c) ==
  {e \in Results :
     e.kind \in CASE Kind[c] = "microHandler" -> {"nil", "micro", "other"}
                  [] Kind[c] = "microSubscriber" -> {"nil", "other"}
                  [] OTHER -> {"nil", "status", "other"}}
HandlerReturns(c) ==
  /\ Goto(c, "return", IF HasTxn(c) THEN "respond" ELSE "done")
  /\ \E e \in ResultsOf(c) : result' = [result EXCEPT ![c] = e]
  /\ UNCHANGED <<txnVars, ext>>

---------------------------------------------------------------------------
\* The response code HandlerWrapper records (nrmicro.go:167-176).
MicroCode(e) ==
  CASE e.kind = "nil" -> 200
    [] e.kind = "micro" -> e.code
    [] OTHER -> 500
\* int(status.Code(err)): codes.OK for nil, the status's code, else
\* codes.Unknown.
GrpcCode(e) ==
  CASE e.kind = "nil" -> 0
    [] e.kind = "status" -> e.code
    [] OTHER -> 2

\* Mutant: txn.End() is called before WriteHeader instead of deferred.
HandlerWrapperEndFirst(c) ==
  /\ Kind[c] = "microHandler"
  /\ UNCHANGED <<ext, result>>
  /\ \/ /\ Goto(c, "start", "clientStart")
        /\ IF HasTxn(c) THEN startWebTransaction(c) ELSE UNCHANGED txnVars
     \/ Goto(c, "respond", "end") /\ End(c)
     \/ /\ Goto(c, "end", "done")
        /\ SetWebResponse(c, MicroCode(result[c]))

(* HandlerWrapper: start the web transaction, defer End, run the handler  *)
(* with the transaction in its context, then record the response code.    *)
HandlerWrapper(c) ==
  /\ Kind[c] = "microHandler"
  /\ UNCHANGED <<ext, result>>
  /\ \/ /\ Goto(c, "start", "clientStart")
        /\ IF HasTxn(c) THEN startWebTransaction(c) ELSE UNCHANGED txnVars
     \/ /\ Goto(c, "respond", "end")
        /\ SetWebResponse(c, MicroCode(result[c]))
     \/ Goto(c, "end", "done") /\ End(c)

\* Mutant: End is not deferred and is skipped when the subscriber fails.
SubscriberWrapperEndOnSuccess(c) ==
  /\ Kind[c] = "microSubscriber"
  /\ UNCHANGED <<ext, result>>
  /\ \/ /\ Goto(c, "start", IF HasTxn(c) THEN "attr" ELSE "clientStart")
        /\ IF HasTxn(c) THEN StartTransaction(c) ELSE UNCHANGED txnVars
     \/ Goto(c, "attr", "clientStart") /\ AddAttribute(c, RoutingKey)
     \/ /\ Goto(c, "respond", "end")
        /\ IF result[c].kind # "nil" THEN NoticeError(c)
                                    ELSE UNCHANGED txnVars
     \/ /\ Goto(c, "end", "done")
        /\ IF result[c].kind = "nil" THEN End(c) ELSE UNCHANGED txnVars

(* SubscriberWrapper: a background transaction named after the topic,     *)
(* End deferred, the routing-key agent attribute, distributed-trace        *)
(* headers accepted from the message metadata, then the subscriber; an    *)
(* error is noticed on the transaction.                                    *)
SubscriberWrapper(c) ==
  /\ Kind[c] = "microSubscriber"
  /\ UNCHANGED <<ext, result>>
  /\ \/ /\ Goto(c, "start", IF HasTxn(c) THEN "attr" ELSE "clientStart")
        /\ IF HasTxn(c) THEN StartTransaction(c) ELSE UNCHANGED txnVars
     \/ Goto(c, "attr", "clientStart") /\ AddAttribute(c, RoutingKey)
     \/ /\ Goto(c, "respond", "end")
        /\ IF result[c].kind # "nil" THEN NoticeError(c)
                                    ELSE UNCHANGED txnVars
     \/ Goto(c, "end", "done") /\ End(c)

(* UnaryServerInterceptor and StreamServerInterceptor, whose control     *)
(* flow is the same: startTransaction, defer End, run the handler (the     *)
(* stream handler reaches the transaction through                         *)
(* wrappedServerStream.Context()), record int(status.Code(err)).           *)
ServerInterceptor(c) ==
  /\ Kind[c] \in {"grpcUnary", "grpcStream"}
  /\ UNCHANGED <<ext, result>>
  /\ \/ /\ Goto(c, "start", "clientStart")
        /\ IF HasTxn(c) THEN startTransaction(c) ELSE UNCHANGED txnVars
     \/ /\ Goto(c, "respond", "end")
        /\ SetWebResponse(c, GrpcCode(result[c]))
     \/ Goto(c, "end", "done") /\ End(c)

---------------------------------------------------------------------------
NoResult == [kind |-> "none", code |-> 0]

Init ==
  /\ TxnInit
  /\ pc = [c \in Calls |-> "start"]
  /\ ext = [c \in Calls |-> NoSeg]
  /\ result = [c \in Calls |-> NoResult]

Serve(c) ==
  \/ HandlerWrapper(c)
  \/ SubscriberWrapper(c)
  \/ ServerInterceptor(c)
  \/ ClientCall(c)
  \/ HandlerReturns(c)

Next ==
  \/ \E c \in Calls : Serve(c)
  \/ HarvestTick /\ UNCHANGED <<pc, ext, result>>

(* Every goroutine serving a call keeps running, and the harvest ticker   *)
(* keeps firing.                                                           *)
Fairness ==
  /\ \A c \in Calls : WF_vars(Serve(c))
  /\ WF_vars(HarvestTick /\ UNCHANGED <<pc, ext, result>>)

Spec == Init /\ [][Next]_vars /\ Fairness

---------------------------------------------------------------------------
TypeOK ==
  /\ TxnTypeOK
  /\ pc \in [Calls -> {"start", "attr", "clientStart", "clientEnd", "return",
                       "respond", "end", "done"}]
  /\ ext \in [Calls -> Nat]
  /\ result \in [Calls -> Results \cup {NoResult}]

\* The finished records: in the harvest buffer or delivered.
Finished == {pending[i] : i \in DOMAIN pending} \cup
            {delivered[i] : i \in DOMAIN delivered}

(* Every finished transaction carries the outcome of its call: the code    *)
(* HandlerWrapper derives from the handler's error (200, the micro error's *)
(* code, or 500), int(status.Code(err)) for gRPC, and for a subscriber the *)
(* routing-key attribute and a noticed error exactly when it failed.  It  *)
(* fails if the deferred End runs before the response is recorded.        *)
ResponseRecorded ==
  \A f \in Finished :
    LET c == f.id
        r == f.rec
    IN CASE Kind[c] = "microHandler" -> r.code = MicroCode(result[c])
         [] Kind[c] = "microSubscriber" ->
              /\ r.noticed = (result[c].kind # "nil")
              /\ RoutingKey \in r.attrs
         [] OTHER -> r.code = GrpcCode(result[c])

(* The segment of an outgoing client call (Call, Stream, Publish) is       *)
(* closed in every finished record: the deferred seg.End() runs before the *)
(* handler returns, and so before the wrapper's deferred txn.End().        *)
ClientSegmentsClosed ==
  \A f \in Finished : \A s \in DOMAIN f.rec.segs : f.rec.segs[s].ended

IsDelivered(c) == \E i \in DOMAIN delivered : delivered[i].id = c

(* Every transaction a wrapper starts is eventually ended and delivered,   *)
(* on the success and on the error path.                                   *)
AllDelivered == \A c \in Calls : Started(c) ~> IsDelivered(c)

=============================================================================
