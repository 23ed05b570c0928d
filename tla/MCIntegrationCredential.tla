---------------------- MODULE MCIntegrationCredential ----------------------
(* A profile is linked twice.                                              *)
EXTENDS IntegrationCredential, TLC

CONSTANTS d1, d2, l1, l2

OnceEach == (d1 :> l1) @@ (d2 :> l2)
=============================================================================
