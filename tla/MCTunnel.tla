------------------------------ MODULE MCTunnel ------------------------------
(* Tunnel instantiated for TLC.  Two successful dials are enough for an old *)
(* processResponses goroutine to run beside the live one; two requests for  *)
(* two replies to meet in one drain; two consecutive failures reach the     *)
(* retry ceiling after a session.                                           *)
EXTENDS Tunnel

MCMaxRetry      == 2
MCMaxSessions   == 2
MCMaxReq        == 2
MCMaxRelayFault == 1
MCMaxStop       == 1
MCPingsPerTimeout == 1
MCPingerRuns == FALSE
=============================================================================
