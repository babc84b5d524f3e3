----------------------------- MODULE MCHarvest -----------------------------
(* MCHarvest.cfg: producers finish any record of MCWireFrame (both ids,  *)
(* both types, all three structs), at most MaxMsgs of them.                *)
(* MCHarvest_strand.cfg and MCGrpcStreamClient use the three records      *)
(* below: an empty struct with id 0 and type 5, a 300-byte struct with id  *)
(* 0xFFFFFFFF and type 300, and one whose encoding fails.                  *)
EXTENDS Harvest, MCWireFrame

MCRecords == {[id |-> <<0, 0>>, mtype |-> 5, st |-> "empty"],
              [id |-> <<65535, 65535>>, mtype |-> 300, st |-> "long"],
              [id |-> <<0, 0>>, mtype |-> 5, st |-> "bad"]}
=============================================================================
