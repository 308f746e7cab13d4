-------------------------- MODULE MCWifiProvisioning --------------------------
(***************************************************************************)
(* A small world for WifiProvisioning: the factory configuration and the   *)
(* credentials of another network, both of which can be reached (or fail   *)
(* to be), and credentials with a typing mistake, which cannot.            *)
(***************************************************************************)
EXTENDS WifiProvisioning

MCConfigs == {"factory", "home", "typo"}

MCReachable == {"home", "factory"}
==============================================================================
