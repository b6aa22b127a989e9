---------------------------- MODULE MCExportJobs ----------------------------
(* Instances of ExportJobs for TLC.                                        *)
EXTENDS ExportJobs, TLC

\* The member's tabs are interchangeable.
TabSymmetry == Permutations(Requests)
=============================================================================
