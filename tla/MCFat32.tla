------------------------------ MODULE MCFat32 ------------------------------
(***************************************************************************)
(* Instances of Fat32 for TLC.                                             *)
(***************************************************************************)
EXTENDS Fat32

CONSTANTS saveA, saveB, short, long

MCNames == {saveA, saveB}
MCVersions == {short, long}
MCSaves == {<<saveA, short>>, <<saveA, long>>, <<saveB, short>>}
MCSize(v) == IF v = long THEN 2 ELSE 1
=============================================================================
