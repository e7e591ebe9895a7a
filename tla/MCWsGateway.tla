----------------------------- MODULE MCWsGateway -----------------------------
(* Instances of WsGateway for TLC.                                           *)
EXTENDS WsGateway

CONSTANTS chat, doc

MCMaxLog == [t \in Topics |-> IF t = chat THEN 1 ELSE 0]
=============================================================================
