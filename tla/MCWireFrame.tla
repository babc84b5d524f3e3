---------------------------- MODULE MCWireFrame ----------------------------
(* Three records: an empty struct (the single Thrift STOP byte), a struct *)
(* of 300 bytes (its length needs two bytes), and one whose Write fails;  *)
(* message types 5 and 300, message ids 0 and 0xFFFFFFFF.                  *)
EXTENDS WireFrame

MCStructs == {"empty", "long", "bad"}
MCBody == [s \in MCStructs |->
             IF s = "long" THEN [i \in 1..300 |-> i % 256] ELSE <<0>>]
MCMsgIds == {<<0, 0>>, <<65535, 65535>>}
=============================================================================
