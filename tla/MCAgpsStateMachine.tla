------------------------ MODULE MCAgpsStateMachine ------------------------
(***************************************************************************)
(* Small instances of AgpsStateMachine for TLC, with the clients of each   *)
(* interface: two ATL handles of the modem and the BIT daemon, who leave   *)
(* at once, a WiFi sender that waits for its close to complete and lives   *)
(* outside the modem, and two handles of the modem at ds_nif.              *)
(***************************************************************************)
EXTENDS AgpsStateMachine

CONSTANTS atl1, atl2, bit, wifi, ds1, ds2

Everyone   == {atl1, atl2, bit, wifi, ds1, ds2}
LeaveLater == {wifi, ds1, ds2}
InTheModem == {atl1, atl2, ds1, ds2}
===========================================================================
