--------------------------- MODULE MCAsyncServer ---------------------------
(* MCAsyncServer.cfg: one request served by the async handler concurrently *)
(* with a second one routed to any other handler.                          *)
(* MCAsyncServer_handlers.cfg, a larger instance: four requests at once to *)
(* external, noticeError, /background and a plain handler.                 *)
EXTENDS AsyncServer, TLC

MCRequests == {"r1", "r2"}
MCAllHandlers == {("r1" :> "async") @@ ("r2" :> h) : h \in HandlerNames \ {"async"}}
MCTxns == MCRequests \X {"req", "go1", "go2"}
MCSegNames == {"wg.Wait", "async-block", "async-nonblock", "f1", "f2", "f3",
               "mysql", "message", "external"}

MCHRequests == {"r1", "r2", "r3", "r4"}
MCHHandler == ("r1" :> "external") @@ ("r2" :> "noticeError")
                @@ ("r3" :> "background") @@ ("r4" :> "plain")
MCHHandlers == {MCHHandler}
MCHTxns == MCHRequests \X {"req", "go1", "go2"}
=============================================================================
