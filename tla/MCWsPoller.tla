------------------------------ MODULE MCWsPoller ------------------------------
(* The poller of one network: a few blocks, and incidents two at a time.      *)
EXTENDS WsPoller
=============================================================================
