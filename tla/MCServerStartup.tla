--------------------------- MODULE MCServerStartup ---------------------------
(***************************************************************************)
(* An instance of ServerStartup for TLC.  The replicas are alike.          *)
(***************************************************************************)
EXTENDS ServerStartup

CONSTANTS r1, r2
=============================================================================
