------------------------- MODULE MCIdentityBinding --------------------------
(* An instance of commands and identity bindings for TLC.                  *)
EXTENDS IdentityBindingProps
=============================================================================
