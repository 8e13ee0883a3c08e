------------------------------ MODULE MCStartup -------------------------------
(* Startup for TLC: the three scripts and the two threads are fixed, so that *)
(* only the bounds are left to the configurations.                           *)
EXTENDS Startup
===============================================================================
