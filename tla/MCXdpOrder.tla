----------------------------- MODULE MCXdpOrder -----------------------------
(* Model-checking instance of XdpOrder. *)
EXTENDS XdpOrder
=============================================================================
