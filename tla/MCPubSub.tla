------------------------------ MODULE MCPubSub ------------------------------
(* The pubsub example over the three records of MCHarvest.                *)
EXTENDS PubSub, MCHarvest
=============================================================================
