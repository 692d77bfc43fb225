----------------------------- MODULE MCOutputClaim -----------------------------
(* Two hosts that claim the same output channel.                           *)
EXTENDS OutputClaim
=============================================================================
