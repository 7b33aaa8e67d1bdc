----------------------------- MODULE MCProvisioning -----------------------------
(* Instances of Provisioning for TLC.                                      *)
EXTENDS Provisioning

CONSTANTS w1, w2, w3, w4, k1, k2, k3, h1
=============================================================================
