-------------------------- MODULE MCObjectScanMirror --------------------------
(* The instances of MCObjectScan, with history.                             *)
EXTENDS MCObjectScan, ObjectScanMirror
=============================================================================
