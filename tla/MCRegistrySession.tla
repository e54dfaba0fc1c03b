------------------------- MODULE MCRegistrySession --------------------------
(* Instances of RegistrySession.                                            *)
EXTENDS RegistrySession

=============================================================================
