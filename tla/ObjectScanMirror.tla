--------------------------- MODULE ObjectScanMirror ---------------------------
(***************************************************************************)
(* Scans, uploads and deletions implement the IndexMirror.  The module adds *)
(* to ObjectScan a history variable that no guard reads.                    *)
(***************************************************************************)
EXTENDS ObjectScan

VARIABLE held

tracedVars == <<vars, held>>

(* No scan is between its job and its end, and no request under way.        *)
AtRest ==
  /\ \A s \in Scans : scan[s].pc \in {"idle", "done", "killed"}
  /\ \A q \in Requests : req[q] = IdleRequest

(* A scan that shares the bucket with another one, whose listing broke off, *)
(* or that could not write a row.                                           *)
Unreliable(s) ==
  /\ scan[s].pc \in Working
  /\ ~ hist[s].alone \/ hist[s].struck \cap {"list", "row"} # {}

TracedInit ==
  /\ Init
  /\ held = [k \in Scope |-> {s3[k]}]

TracedNext ==
  /\ Next
  /\ held' = [k \in Scope |-> IF AtRest' THEN {s3'[k]} ELSE held[k] \cup {s3'[k]}]

TracedSpec == TracedInit /\ [][TracedNext]_tracedVars

FairTracedSpec == TracedSpec /\ Fairness

----------------------------------------------------------------------------
Mirror == INSTANCE IndexMirror WITH
  Objects <- Scope,
  bucket  <- [k \in Scope |-> s3[k]],
  rows    <- [k \in DOMAIN index |-> index[k].ver],
  atRest  <- AtRest,
  flawed  <- \E s \in Scans : Unreliable(s)

(* At any moment, in the middle of scans and requests, the rows are those a *)
(* lagging mirror may have: no row shows a version its object has not had   *)
(* since the last rest, not the leftovers of a crash either; no folder row  *)
(* stands for nothing; and no row is deleted, by a sweep or by a request,   *)
(* of an object that S3 has held all that time, nor of a folder above one,  *)
(* unless a scan is unreliable.                                             *)
IndexIsMirror == Mirror!MirrorSpec
=============================================================================
