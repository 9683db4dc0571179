----------------------------- MODULE MCLocEngine -----------------------------
(* The location engine seen from two sides: its sessions, with reports that  *)
(* come early and late, muting, deletions and a restart of the modem; and    *)
(* its items, which the framework changes while a restart sends them again.  *)
EXTENDS LocEngine

Fix(s, sat) == [status |-> s, sat |-> sat, accurate |-> sat]

MCSessionCalls == {"init", "start", "stop", "mode", "delete", "cleanup", "mute"}
MCPositions    == {Fix("SUCCESS", TRUE), Fix("SUCCESS", FALSE), Fix("INTERMEDIATE", TRUE)}
MCStatuses     == Engine \ {"NONE"}

MCConfigCalls  == {"init", "cleanup", "time", "location", "xtra", "certs", "measurement",
                   "server", "network", "config"}
MCItems        == {"SUPL_VER", "SENSOR_CONTROL", "ENABLE", "SUPL", "C2K", "LOCK", "MASK", "TIME",
                   "POSITION", "XTRA_DATA", "CERTS"}
=============================================================================
