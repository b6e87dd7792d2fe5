----------------------------- MODULE MCStartup -----------------------------
(***************************************************************************)
(* The bounds of Startup are numbers and sets of model values, given in    *)
(* the configurations.                                                     *)
(***************************************************************************)
EXTENDS Startup
=============================================================================
