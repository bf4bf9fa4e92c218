---------------------------- MODULE MCObjectScan ----------------------------
(***************************************************************************)
(* Instances of ObjectScan for TLC.  The keys, in listing order, are        *)
(*     2 = "d/"   3 = "d/x"                                                 *)
(* where "d/" is a folder, and in KeysDX a marker object as well.           *)
(***************************************************************************)
EXTENDS ObjectScan

KeysDX  == {2, 3}
KeysX   == {3}
FolderD == {2}
PathsDX == [k \in KeysDX |-> <<2>>]
PathsX  == [k \in KeysX |-> <<2>>]
=============================================================================
