-------------------------------- MODULE MCPs2 --------------------------------
(***************************************************************************)
(* Ps2 with the configuration bytes SeaBIOS (0x61) and other firmware       *)
(* (0x47, 0x65) leave: with a second port running, and without.             *)
(***************************************************************************)
EXTENDS Ps2

Configs == {{0, 5, 6}, {0, 1, 2, 6}, {0, 2, 5, 6}}
Passed == {{}}
PassedOrStuck == {{}, {0}}
=============================================================================
