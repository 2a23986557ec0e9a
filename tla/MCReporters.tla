------------------------------ MODULE MCReporters ------------------------------
(***************************************************************************)
(* Instances of ReporterSystem for TLC.                                    *)
(***************************************************************************)
EXTENDS MCCases, ReporterSystem
=============================================================================
