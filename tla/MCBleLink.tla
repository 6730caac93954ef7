------------------------------ MODULE MCBleLink ------------------------------
(* Two keyboards: the one in use and the one the user turns to.               *)
EXTENDS BleLink

CONSTANTS a, b
MCPeers == {a, b}
=============================================================================
