-------------------------- MODULE MCReceivePage ---------------------------
(* A transfer of two files, then one of a single file.                     *)
EXTENDS ReceivePage

MCFileCounts == <<2, 1>>
===========================================================================
