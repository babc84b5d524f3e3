--------------------------- MODULE MCRpcWrappers ---------------------------
(* Four concurrent calls: a go-micro handler that makes a client Call, a   *)
(* subscriber that publishes, a gRPC call, and a go-micro handler behind a *)
(* wrapper built with a nil Application that also makes a client Call.     *)
EXTENDS RpcWrappers

MCCalls == {"h", "s", "g", "nil"}
MCKind == [c \in MCCalls |->
             CASE c = "s" -> "microSubscriber"
               [] c = "g" -> "grpcUnary"
               [] OTHER -> "microHandler"]
MCClientOp == [c \in MCCalls |->
                 CASE c \in {"h", "nil"} -> "call"
                   [] c = "s" -> "publish"
                   [] OTHER -> "none"]
\* nil, a micro 404, a gRPC NotFound (5), and an ordinary error.
MCResults == {[kind |-> "nil", code |-> 0], [kind |-> "micro", code |-> 404],
              [kind |-> "status", code |-> 5], [kind |-> "other", code |-> 0]}
=============================================================================
