-------------------------------- MODULE MCOta --------------------------------
(* The installed firmware, a new one, and one that aborts.                      *)
EXTENDS Ota

CONSTANTS old, good, bad
=============================================================================
