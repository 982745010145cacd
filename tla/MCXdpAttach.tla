---------------------------- MODULE MCXdpAttach ----------------------------
(* Model-checking instance of XdpAttach: two processes, up to two programs *)
(* per call, a driver with native XDP support.                             *)
EXTENDS XdpAttach

CONSTANTS p1, p2

MCProcs == {p1, p2}
=============================================================================
