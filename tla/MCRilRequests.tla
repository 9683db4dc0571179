---------------------------- MODULE MCRilRequests ----------------------------
(* Two vendor threads, so that one can be late with a failed call while the   *)
(* other goes on, two requests and up to three lives of the telephony         *)
(* process.  Vendor threads are alike, and so are requests.                   *)
EXTENDS RilRequests, TLC

Alike == Permutations(Vendors) \cup Permutations(Requests)
=============================================================================
