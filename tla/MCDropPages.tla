---------------------------- MODULE MCDropPages ---------------------------
(* Two transfers of one file each, one after the other, between two pages: *)
(* some minutes of checking, see the README.                               *)
EXTENDS DropPages

MCFileCounts == <<1, 1>>
===========================================================================
