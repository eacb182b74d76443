--------------------------- MODULE MCSerialGateway ---------------------------
(* SerialGateway over the scenario of MCScenario.                           *)
EXTENDS SerialGateway, MCScenario
=============================================================================
