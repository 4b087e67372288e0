------------------------------ MODULE MCPlugin ------------------------------
(* Instances of Plugin for TLC.                                             *)
EXTENDS Plugin
=============================================================================
