------------------------- MODULE MCGrpcStreamClient -------------------------
(* The client's one "main" transaction is the empty struct with type 5.   *)
EXTENDS GrpcStreamClient, MCHarvest

MCMainTxn == [id |-> <<0, 0>>, mtype |-> 5, st |-> "empty"]
=============================================================================
