--------------------------- MODULE MCRilService ---------------------------
(* A small instance of RilService for TLC: vendor libraries on both sides  *)
(* of the versions at which requests change.                               *)
EXTENDS RilService

MCVersions == {3, 14, 15}

\* IRadioResponse names the callback for a method's answer after the method, but for two.
ASSUME DeclaredNames ==
  /\ \A m \in DOMAIN DeclaredResponses \ {"getImsiForApp", "hangup"} :
       DeclaredResponses[m] = m \o "Response"
  /\ DeclaredResponses["getImsiForApp"] = "getIMSIForAppResponse"
  /\ DeclaredResponses["hangup"] = "hangupConnectionResponse"
  /\ Methods = DOMAIN DeclaredResponses \cup {"setSimCardPower", "setSimCardPower_1_1"}

=============================================================================
