---------------------------- MODULE MCMapDetails ----------------------------
(* A small instance of MapDetails: three questions about two maps.          *)
EXTENDS MapDetails
=============================================================================
