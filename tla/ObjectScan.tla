----------------------------- MODULE ObjectScan -----------------------------
(***************************************************************************)
(* The index of one bucket kept by s3xplorer: the scans that mark every     *)
(* row, list the bucket, write a row per object and sweep what is still     *)
(* marked (pkg/scanner), the upload and delete handlers that change S3 and  *)
(* then the index (pkg/app, pkg/dbsvc), other S3 clients, and the process   *)
(* dying.  Every S3 call and every query is one step; a handler or a scan   *)
(* is a sequence of steps, and they interleave: the HTTP server runs a      *)
(* goroutine per request and cron a goroutine per firing, and nothing locks *)
(* a bucket against a second scan.                                          *)
(*                                                                         *)
(* Keys are natural numbers in the byte order in which S3 lists them.       *)
(***************************************************************************)
EXTENDS IndexTable, Sequences, FiniteSets

CONSTANTS
  Objects,       \* the keys an S3 object may have
  Folders,       \* the keys that end in "/"
  Ancestors,     \* for each object the folder keys of its path, outermost first
  Scope,         \* the objects under cfg.S3.Prefix
  Versions,      \* the contents an object may have
  Absent,        \* what S3 holds for a key without an object
  InitialKeys,   \* the objects that may be there at the start
  PageSize,      \* the most keys a page of ListObjectsV2 holds
  Scans,         \* the calls of ScanBucket; the job of a scan has its name
  Requests,      \* the uploads and deletions that may run at the same time
  ExternalKeys,  \* the objects other S3 clients may change
  DeletionSync,  \* cfg.Scan.EnableDeletionSync
  Faults         \* the kinds of failure that may strike

FaultKinds == {"validate", "mark", "list", "row", "unmark", "clean", "job",
               "request", "kill"}

ASSUME ConstantsAssumption ==
  /\ Objects \subseteq Nat \ {0} /\ Folders \subseteq Nat \ {0}
  /\ Ancestors \in [Objects -> Seq(Folders)]
  /\ {Scope, InitialKeys, ExternalKeys} \subseteq SUBSET Objects
  /\ Absent \notin Versions /\ NoVersion \notin Versions
  /\ PageSize \in Nat \ {0}
  /\ DeletionSync \in BOOLEAN
  /\ Faults \subseteq FaultKinds

(* ensureParentFolders takes the key of a marker object for a folder, too.  *)
ASSUME MarkerAssumption ==
  \A k \in Objects \cap Folders : \E i \in DOMAIN Ancestors[k] : Ancestors[k][i] = k

VARIABLES
  s3,      \* the bucket: the version of each object, or Absent
  index,   \* the bucket's rows in s3_objects
  jobs,    \* the status of each scan's row in scan_jobs
  scan,    \* where each scan stands, with its local variables
  req,     \* where each upload or deletion stands
  hist     \* auxiliary: what has happened since each scan began listing

vars == <<s3, index, jobs, scan, req, hist>>

Keys == Objects \cup Folders
AncestorSet(k) == {Ancestors[k][i] : i \in DOMAIN Ancestors[k]}

----------------------------------------------------------------------------
(* Types *)

ScanPCs == {"idle", "mark", "list", "parent", "upsert", "unmark", "count",
            "delete", "finalize", "done", "killed"}

Pages == UNION {[S -> Versions] : S \in SUBSET Objects}

(* failed is scanErr # nil; token and more are the paginator's; page is     *)
(* what is left of the page in hand, current key first, and todo the        *)
(* folders ensureParentFolders has still to write for the current key.      *)
ScanState ==
  [pc : ScanPCs, failed : BOOLEAN, token : Nat, more : BOOLEAN,
   page : Pages, todo : Seq(Folders)]

(* alone: no other scan has worked on the bucket since this one marked it;  *)
(* struck: the kinds of failure it has met, "unmark" excepted; stable: the   *)
(* objects S3 has held without interruption since then; calm: the keys whose*)
(* object nobody has touched since then, and that no request is about.      *)
ScanHistory ==
  [alone : BOOLEAN, struck : SUBSET FaultKinds,
   stable : SUBSET Objects, calm : SUBSET Objects]

IdleRequest == [op |-> "none", keys |-> {}, ver |-> NoVersion]
RequestState == [op : {"none", "upload", "delete"}, keys : SUBSET Objects,
                 ver : Versions \cup {NoVersion}]

TypeOK ==
  /\ s3 \in [Objects -> Versions \cup {Absent}]
  /\ IsTable(index, Keys, Versions)
  /\ jobs \in [Scans -> {"none", "running", "completed", "failed"}]
  /\ scan \in [Scans -> ScanState]
  /\ req \in [Requests -> RequestState]
  /\ hist \in [Scans -> ScanHistory]

----------------------------------------------------------------------------
(* Helpers *)

NoPage == [k \in {} |-> Absent]

FreshScan == [pc |-> "idle", failed |-> FALSE, token |-> 0, more |-> TRUE,
              page |-> NoPage, todo |-> <<>>]

Least(S) == CHOOSE k \in S : \A j \in S : k <= j

(* The object of the page that the scan is working on.                      *)
Current(s) == Least(DOMAIN scan[s].page)

(* A scan whose steps touch the rows of the bucket.                         *)
Working == {"list", "parent", "upsert", "unmark", "count", "delete"}

Present(bucket) == {k \in Objects : bucket[k] # Absent}

InFlight(k) == \E q \in Requests : k \in req[q].keys

Goto(s, label) == scan' = [scan EXCEPT ![s].pc = label]

(* Failure of the given kind in scan s, remembered in hist.                 *)
Struck(s, kind) ==
  /\ kind \in Faults
  /\ hist' = [hist EXCEPT ![s].struck = @ \cup {kind}]

(* What a scan does with the objects P of a page: take the first one and    *)
(* write its parents; when none is left, ask for the next page or, after    *)
(* the last one, clean up.                                                  *)
Advance(st, P, token, more) ==
  LET todo == IF DOMAIN P = {} THEN <<>> ELSE Ancestors[Least(DOMAIN P)]
      pc   == IF DOMAIN P # {} THEN IF todo # <<>> THEN "parent" ELSE "upsert"
              ELSE IF more THEN "list" ELSE "count"
  IN  [pc |-> pc, failed |-> st.failed, token |-> token, more |-> more,
       page |-> P, todo |-> todo]

NextObject(s) ==
  LET rest == DOMAIN scan[s].page \ {Current(s)}
  IN  scan' = [scan EXCEPT ![s] =
                 Advance(@, [k \in rest |-> @.page[k]], @.token, @.more)]

----------------------------------------------------------------------------
(* ScanBucket, one query or S3 call at a time *)

(* Mutant of Begin: the status the job is created with is not replaced.     *)
Begin_StaysPending(s) ==
  /\ scan[s].pc = "idle"
  /\ jobs' = [jobs EXCEPT ![s] = "pending"]
  /\ Goto(s, "mark")
  /\ UNCHANGED <<s3, index, req, hist>>

(* performBucketValidation and initializeBucketAndScanJob: the bucket is    *)
(* reachable, its row exists and the job is created with status running.    *)
Begin(s) ==
  /\ scan[s].pc = "idle"
  /\ jobs' = [jobs EXCEPT ![s] = "running"]
  /\ Goto(s, "mark")
  /\ UNCHANGED <<s3, index, req, hist>>

(* The bucket is not reachable, or a query before the job's failed.         *)
BeginFails(s) ==
  /\ scan[s].pc = "idle"
  /\ Struck(s, "validate")
  /\ Goto(s, "done")
  /\ UNCHANGED <<s3, index, jobs, req>>

(* Mutant of MarkObjects: the rows are never marked.                        *)
MarkObjects_Never(s) ==
  /\ scan[s].pc = "mark"
  /\ Goto(s, "list")
  /\ hist' = [hist EXCEPT ![s].alone = TRUE, ![s].stable = Present(s3),
                          ![s].calm = {k \in Objects : ~ InFlight(k)}]
  /\ UNCHANGED <<s3, index, jobs, req>>

(* performDeletionSyncPhase.                                                *)
MarkObjects(s) ==
  /\ scan[s].pc = "mark"
  /\ index' = IF DeletionSync THEN MarkAll(index) ELSE index
  /\ Goto(s, "list")
  /\ LET others == {p \in Scans \ {s} : scan[p].pc \in Working}
     IN  hist' = [p \in Scans |->
                    IF p = s
                    THEN [hist[s] EXCEPT
                            !.alone = others = {}, !.stable = Present(s3),
                            !.calm = {k \in Objects : ~ InFlight(k)}]
                    ELSE [hist[p] EXCEPT !.alone = FALSE]]
  /\ UNCHANGED <<s3, jobs, req>>

(* MarkAllObjectsForDeletion fails: ScanBucket returns before it defers     *)
(* finalizeScanJob.                                                         *)
MarkObjectsFails(s) ==
  /\ scan[s].pc = "mark" /\ DeletionSync
  /\ Struck(s, "mark")
  /\ Goto(s, "done")
  /\ UNCHANGED <<s3, index, jobs, req>>

(* Mutants of ListPage: the first page is taken for the last one; every     *)
(* page begins with the token's own key.                                    *)
ListPage_FirstOnly(s) ==
  /\ scan[s].pc = "list"
  /\ LET rest == {k \in Scope : s3[k] # Absent /\ k > scan[s].token}
     IN  \E S \in SUBSET rest :
           /\ Cardinality(S) <= PageSize /\ \A k \in S, j \in rest \ S : k < j
           /\ scan' = [scan EXCEPT ![s] =
                Advance(@, [k \in S |-> s3[k]], @.token, FALSE)]
  /\ UNCHANGED <<s3, index, jobs, req, hist>>

ListPage_Again(s) ==
  /\ scan[s].pc = "list"
  /\ LET rest == {k \in Scope : s3[k] # Absent /\ k >= scan[s].token}
     IN  \/ /\ rest = {}
            /\ scan' = [scan EXCEPT ![s] = Advance(@, NoPage, @.token, FALSE)]
         \/ \E last \in rest :
              LET names == {k \in rest : k <= last}
              IN  /\ Cardinality(names) <= PageSize
                  /\ scan' = [scan EXCEPT ![s] =
                       Advance(@, [k \in names |-> s3[k]], last, names # rest)]
  /\ UNCHANGED <<s3, index, jobs, req, hist>>

(* A page is the first keys, at most PageSize of them, that the bucket      *)
(* holds at that moment under the prefix and after the continuation token;  *)
(* S3 says whether it holds more.                                           *)
ListPage(s) ==
  /\ scan[s].pc = "list"
  /\ LET rest == {k \in Scope : s3[k] # Absent /\ k > scan[s].token}
     IN  \/ /\ rest = {}
            /\ scan' = [scan EXCEPT ![s] = Advance(@, NoPage, @.token, FALSE)]
         \/ \E last \in rest :
              LET names == {k \in rest : k <= last}
              IN  /\ Cardinality(names) <= PageSize
                  /\ scan' = [scan EXCEPT ![s] =
                       Advance(@, [k \in names |-> s3[k]], last, names # rest)]
  /\ UNCHANGED <<s3, index, jobs, req, hist>>

(* Mutant of ListPageFails: the error is logged and not kept in scanErr.    *)
ListPageFails_Swallowed(s) ==
  /\ scan[s].pc = "list"
  /\ Struck(s, "list")
  /\ Goto(s, "count")
  /\ UNCHANGED <<s3, index, jobs, req>>

(* NextPage fails: the listing stops there, and ScanBucket goes on to the   *)
(* cleanup with scanErr set.                                                *)
ListPageFails(s) ==
  /\ scan[s].pc = "list"
  /\ Struck(s, "list")
  /\ scan' = [scan EXCEPT ![s].pc = "count", ![s].failed = TRUE]
  /\ UNCHANGED <<s3, index, jobs, req>>

(* Mutant of WriteParent: a folder that has a row already is not written.   *)
WriteParent_IfMissing(s) ==
  /\ scan[s].pc = "parent"
  /\ index' = IF Head(scan[s].todo) \in DOMAIN index THEN index
              ELSE Upsert(index, Head(scan[s].todo), NoVersion, TRUE)
  /\ scan' = [scan EXCEPT ![s].todo = Tail(@),
                ![s].pc = IF Tail(scan[s].todo) = <<>> THEN "upsert" ELSE "parent"]
  /\ UNCHANGED <<s3, jobs, req, hist>>

(* ensureParentFolders: one upsert per folder of the path.                  *)
WriteParent(s) ==
  /\ scan[s].pc = "parent"
  /\ index' = Upsert(index, Head(scan[s].todo), NoVersion, TRUE)
  /\ scan' = [scan EXCEPT ![s].todo = Tail(@),
                ![s].pc = IF Tail(scan[s].todo) = <<>> THEN "upsert" ELSE "parent"]
  /\ UNCHANGED <<s3, jobs, req, hist>>

(* One of them fails: the folders below it are left out, the object is not. *)
WriteParentFails(s) ==
  /\ scan[s].pc = "parent"
  /\ Struck(s, "row")
  /\ scan' = [scan EXCEPT ![s].todo = <<>>, ![s].pc = "upsert"]
  /\ UNCHANGED <<s3, index, jobs, req>>

(* processObject writes the object as it stood in the page, as a file even  *)
(* when its key ends in "/".                                                *)
WriteObject(s) ==
  /\ scan[s].pc = "upsert"
  /\ index' = Upsert(index, Current(s), scan[s].page[Current(s)], FALSE)
  /\ IF DeletionSync THEN Goto(s, "unmark") ELSE NextObject(s)
  /\ UNCHANGED <<s3, jobs, req, hist>>

(* processPageObjects logs the error and goes on with the next object.      *)
WriteObjectFails(s) ==
  /\ scan[s].pc = "upsert"
  /\ Struck(s, "row")
  /\ NextObject(s)
  /\ UNCHANGED <<s3, index, jobs, req>>

UnmarkObject(s) ==
  /\ scan[s].pc = "unmark"
  /\ index' = Unmark(index, Current(s))
  /\ NextObject(s)
  /\ UNCHANGED <<s3, jobs, req, hist>>

(* The write of the row has taken its mark away already: nothing depends on *)
(* this failure, and hist does not remember it.                             *)
UnmarkObjectFails(s) ==
  /\ scan[s].pc = "unmark"
  /\ "unmark" \in Faults
  /\ NextObject(s)
  /\ UNCHANGED <<s3, index, jobs, req, hist>>

(* Mutant of CountMarked: no cleanup after a listing that failed.           *)
CountMarked_IfListed(s) ==
  /\ scan[s].pc = "count"
  /\ Goto(s, IF DeletionSync /\ MarkedKeys(index) # {} /\ ~ scan[s].failed
             THEN "delete" ELSE "finalize")
  /\ UNCHANGED <<s3, index, jobs, req, hist>>

(* performDeletionCleanup counts the marked rows and deletes the marked     *)
(* rows, in two queries; it runs whether the listing succeeded or not.      *)
CountMarked(s) ==
  /\ scan[s].pc = "count"
  /\ Goto(s, IF DeletionSync /\ MarkedKeys(index) # {} THEN "delete" ELSE "finalize")
  /\ UNCHANGED <<s3, index, jobs, req, hist>>

DeleteMarkedRows(s) ==
  /\ scan[s].pc = "delete"
  /\ index' = DeleteMarked(index)
  /\ Goto(s, "finalize")
  /\ UNCHANGED <<s3, jobs, req, hist>>

CleanupFails(s) ==
  /\ \/ scan[s].pc = "delete"
     \/ scan[s].pc = "count" /\ DeletionSync
  /\ Struck(s, "clean")
  /\ Goto(s, "finalize")
  /\ UNCHANGED <<s3, index, jobs, req>>

(* The deferred finalizeScanJob, and ScanBucket returns nil.                *)
Finalize(s) ==
  /\ scan[s].pc = "finalize"
  /\ jobs' = [jobs EXCEPT ![s] = IF scan[s].failed THEN "failed" ELSE "completed"]
  /\ Goto(s, "done")
  /\ UNCHANGED <<s3, index, req, hist>>

FinalizeFails(s) ==
  /\ scan[s].pc = "finalize"
  /\ Struck(s, "job")
  /\ Goto(s, "done")
  /\ UNCHANGED <<s3, index, jobs, req>>

ScanStep(s) ==
  \/ Begin(s)        \/ BeginFails(s)
  \/ MarkObjects(s)  \/ MarkObjectsFails(s)
  \/ ListPage(s)     \/ ListPageFails(s)
  \/ WriteParent(s)  \/ WriteParentFails(s)
  \/ WriteObject(s)  \/ WriteObjectFails(s)
  \/ UnmarkObject(s) \/ UnmarkObjectFails(s)
  \/ CountMarked(s)  \/ DeleteMarkedRows(s) \/ CleanupFails(s)
  \/ Finalize(s)     \/ FinalizeFails(s)

----------------------------------------------------------------------------
(* The handlers, and S3 *)

(* S3 changes the objects of the set changed, and bucket is its next state. *)
S3Changes(bucket, changed) ==
  /\ s3' = bucket
  /\ hist' = [s \in Scans |->
       [hist[s] EXCEPT !.stable = @ \cap Present(bucket), !.calm = @ \ changed]]

(* processUpload: the object is put, its row still to be written.           *)
Upload(q, k, v) ==
  /\ req[q] = IdleRequest
  /\ S3Changes([s3 EXCEPT ![k] = v], {k})
  /\ req' = [req EXCEPT ![q] = [op |-> "upload", keys |-> {k}, ver |-> v]]
  /\ UNCHANGED <<index, jobs, scan>>

(* SyncUploadedObject writes the object's row, and none for its folders.    *)
SyncUpload(q) ==
  /\ req[q].op = "upload"
  /\ \E k \in req[q].keys : index' = Upsert(index, k, req[q].ver, k \in Folders)
  /\ req' = [req EXCEPT ![q] = IdleRequest]
  /\ UNCHANGED <<s3, jobs, scan, hist>>

(* processDelete: S3 has deleted every key asked for.                       *)
Delete(q, K) ==
  /\ req[q] = IdleRequest
  /\ S3Changes([k \in Objects |-> IF k \in K THEN Absent ELSE s3[k]], K)
  /\ req' = [req EXCEPT ![q] = [op |-> "delete", keys |-> K, ver |-> NoVersion]]
  /\ UNCHANGED <<index, jobs, scan>>

(* Mutant of DeletePartly: the errors DeleteObjects lists are passed over.  *)
DeletePartly_Ignored(q, K) ==
  /\ req[q] = IdleRequest
  /\ "request" \in Faults
  /\ \E D \in SUBSET K \ {K} :
       S3Changes([k \in Objects |-> IF k \in D THEN Absent ELSE s3[k]], D)
  /\ req' = [req EXCEPT ![q] = [op |-> "delete", keys |-> K, ver |-> NoVersion]]
  /\ UNCHANGED <<index, jobs, scan>>

(* DeleteObjects reports an error for some keys only: the handler gives up, *)
(* and no row is deleted, not even of the objects D that are gone.          *)
DeletePartly(q, K) ==
  /\ req[q] = IdleRequest
  /\ "request" \in Faults
  /\ \E D \in SUBSET K \ {K} :
       S3Changes([k \in Objects |-> IF k \in D THEN Absent ELSE s3[k]], D)
  /\ UNCHANGED <<index, jobs, scan, req>>

(* What is left of a request that is through with key k.                    *)
Without(r, k) ==
  IF r.keys = {k} THEN IdleRequest ELSE [r EXCEPT !.keys = @ \ {k}]

(* SyncDeletedObject and the loop of SyncDeletedObjects: one key's row.     *)
SyncDelete(q) ==
  /\ req[q].op = "delete"
  /\ \E k \in req[q].keys :
       /\ index' = DeleteRow(index, k)
       /\ req' = [req EXCEPT ![q] = Without(@, k)]
  /\ UNCHANGED <<s3, jobs, scan, hist>>

(* The query for one key fails: logged, and that key is not tried again.    *)
SyncFails(q) ==
  /\ "request" \in Faults
  /\ \E k \in req[q].keys :
       req' = [req EXCEPT ![q] = Without(@, k)]
  /\ UNCHANGED <<s3, index, jobs, scan, hist>>

(* Uploads get the base name of a file, so never a key that ends in "/".    *)
RequestStep(q) ==
  \/ \E k \in Scope \ Folders, v \in Versions : Upload(q, k, v)
  \/ \E K \in SUBSET Scope \ {{}} :
       Delete(q, K) \/ (Cardinality(K) > 1 /\ DeletePartly(q, K))
  \/ SyncUpload(q) \/ SyncDelete(q) \/ SyncFails(q)

(* Another client of S3 puts or deletes an object.                          *)
ExternalChange ==
  /\ \E k \in ExternalKeys, v \in Versions \cup {Absent} :
       S3Changes([s3 EXCEPT ![k] = v], {k})
  /\ UNCHANGED <<index, jobs, scan, req>>

(* The process ends: scans and requests are lost where they stand, the      *)
(* database and S3 stay.  A scan that is idle is a scan of the next process.*)
Kill ==
  /\ "kill" \in Faults
  /\ scan' = [s \in Scans |->
       IF scan[s].pc \in {"idle", "done", "killed"}
       THEN scan[s] ELSE [FreshScan EXCEPT !.pc = "killed"]]
  /\ req' = [q \in Requests |-> IdleRequest]
  /\ UNCHANGED <<s3, index, jobs, hist>>

----------------------------------------------------------------------------
(* The specification *)

Init ==
  /\ s3 \in [Objects -> Versions \cup {Absent}]
  /\ Present(s3) \subseteq InitialKeys
  /\ index = NoRows
  /\ jobs = [s \in Scans |-> "none"]
  /\ scan = [s \in Scans |-> FreshScan]
  /\ req = [q \in Requests |-> IdleRequest]
  /\ hist = [s \in Scans |-> [alone |-> FALSE, struck |-> {},
                              stable |-> {}, calm |-> {}]]

Next ==
  \/ \E s \in Scans : ScanStep(s)
  \/ \E q \in Requests : RequestStep(q)
  \/ ExternalChange
  \/ Kill

(* A scan that has begun runs on: every call it waits for returns, with a   *)
(* result or an error.  So does the rest of a request.                      *)
Fairness ==
  /\ \A s \in Scans : WF_vars(scan[s].pc # "idle" /\ ScanStep(s))
  /\ \A q \in Requests : WF_vars(SyncUpload(q) \/ SyncDelete(q) \/ SyncFails(q))

Spec == Init /\ [][Next]_vars
FairSpec == Spec /\ Fairness

----------------------------------------------------------------------------
(* Properties *)

(* The rows a complete sweep must not touch: those of the objects under the *)
(* prefix that S3 has held since the scan marked the bucket, and those of   *)
(* their folders.                                                           *)
Protected(s) ==
  LET kept == hist[s].stable \cap Scope
  IN  kept \cup UNION {AncestorSet(k) : k \in kept}

(* The sweep of performDeletionCleanup deletes no row of an object that has *)
(* been in S3 all along, nor of a folder above one, unless another scan     *)
(* worked on the bucket at the same time, the listing broke off, or the     *)
(* write of a row failed -- whatever uploads, deletions and other clients   *)
(* of S3 do meanwhile, and in whatever state an earlier scan left the table.*)
CleanupSparesLiveObjects ==
  [][\A s \in Scans :
       DeleteMarkedRows(s) /\ hist[s].alone /\ hist[s].struck \cap {"list", "row"} = {}
         => Protected(s) \cap DOMAIN index \subseteq DOMAIN index']_vars

(* The same without the exceptions, which is what "deleting objects no      *)
(* longer in S3" (performDeletionCleanup) says.                             *)
CleanupDeletesOnlyGoneObjects ==
  [][\A s \in Scans :
       DeleteMarkedRows(s) => hist[s].stable \cap Scope \cap DOMAIN index
                                \subseteq DOMAIN index']_vars

(* Nothing that falsifies the result has happened to scan s.                *)
Undisturbed(s) ==
  hist[s].alone /\ hist[s].struck \cap {"list", "row", "clean"} = {}

Below(f) == {k \in Scope : f \in AncestorSet(k)}

(* When an undisturbed scan has cleaned up, the rows agree with the bucket  *)
(* for every key that nobody touched during the scan: an object has the row *)
(* of its present version, a key without object has no row, and a folder    *)
(* has a row if and only if there is an object below it.  Without deletion  *)
(* sync the rows of vanished objects and folders may remain.                *)
SweptIndexMatchesBucket ==
  \A s \in Scans :
    scan[s].pc = "finalize" /\ Undisturbed(s) =>
      /\ \A k \in (Scope \cap hist[s].calm) \ Folders :
           /\ s3[k] # Absent => k \in DOMAIN index /\ index[k].ver = s3[k]
           /\ DeletionSync /\ s3[k] = Absent => k \notin DOMAIN index
      /\ \A f \in Folders : Below(f) \subseteq hist[s].calm =>
           /\ Below(f) \cap Present(s3) # {} => f \in DOMAIN index
           /\ DeletionSync /\ Below(f) \cap Present(s3) = {} => f \notin DOMAIN index

(* Marks are there only for a scan that will still sweep them: once no scan *)
(* is at work -- however the scans overlapped and whatever failed, except a *)
(* cleanup query or the process -- no row is left marked.                   *)
MarksAreSwept ==
  MarkedKeys(index) # {} =>
    \E s \in Scans : \/ scan[s].pc \in Working \cup {"killed"}
                     \/ "clean" \in hist[s].struck

(* What the job of a finished scan says: completed and failed tell whether  *)
(* the listing came to its end, and a job that still says running lost the  *)
(* query that marks the rows or the one that closes the job.                *)
JobTellsOutcome ==
  \A s \in Scans : scan[s].pc = "done" =>
    CASE jobs[s] = "completed" -> "list" \notin hist[s].struck /\ ~ scan[s].more
      [] jobs[s] = "failed"    -> "list" \in hist[s].struck
      [] jobs[s] = "running"   -> hist[s].struck \cap {"mark", "job"} # {}
      [] jobs[s] = "none"      -> "validate" \in hist[s].struck

(* Whatever the environment and the other scans do, the job of a scan that  *)
(* has begun leaves the status running, unless the marking query or a query *)
(* on the job fails or the process dies: each leaves it running for ever.   *)
JobsSettle ==
  \A s \in Scans :
    jobs[s] = "running" ~> \/ jobs[s] \in {"completed", "failed"}
                           \/ hist[s].struck \cap {"mark", "job"} # {}
                           \/ scan[s].pc = "killed"

(* With no scan at work and no request in flight, the row of every object   *)
(* is that of its present version and an absent object has none: what       *)
(* SyncUploadedObject and SyncDeletedObject are there for.                  *)
RequestsKeepIndexInSync ==
  /\ \A q \in Requests : req[q] = IdleRequest
  /\ \A s \in Scans : scan[s].pc \in {"idle", "done"}
  => \A k \in Scope \ Folders :
      IF s3[k] = Absent THEN k \notin DOMAIN index
      ELSE k \in DOMAIN index /\ index[k].ver = s3[k]
=============================================================================
