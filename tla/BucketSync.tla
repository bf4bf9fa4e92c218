------------------------------ MODULE BucketSync ------------------------------
(***************************************************************************)
(* The buckets s3xplorer knows: what the initial scan of each start of the  *)
(* process (performInitialScan, DiscoverAndScanAllBuckets) and the scans    *)
(* that cron starts afterwards do to the table buckets.  A scan of a bucket *)
(* is ScanBucket up to the point where it turns to the objects; module      *)
(* ObjectScan goes on from there.  Every S3 call and every query is a step. *)
(*                                                                         *)
(* Clock.  Times are hours, and a start takes less than one: the clock      *)
(* stands while the initial scan is at work.                                *)
(***************************************************************************)
EXTENDS BucketTable, FiniteSets

CONSTANTS
  Buckets,         \* the bucket names S3 may know
  NoName,          \* the empty string, cfg.S3.Bucket when none is configured
  Configs,         \* the values cfg.S3.Bucket may have, at each start
  SyncEnable,      \* cfg.BucketSync.Enable
  SkipValidation,  \* cfg.S3.SkipBucketValidation
  InitialScans,    \* the values cfg.Scan.EnableInitialScan may have, at each start
  BackgroundScan,  \* cfg.Scan.EnableBackgroundScan
  MaxRetries,      \* cfg.BucketSync.MaxRetries
  DeleteThreshold, \* cfg.BucketSync.DeleteThreshold in whole hours, 0 for "30m"
  Grace,           \* the interval in ListAccessibleBuckets, in hours
  Startup, Crons,  \* the calls of ScanBucket: the initial scan's, and cron's
  Faults,          \* the kinds of failure that may strike
  MaxHours,        \* bound of the clock
  MaxStarts,       \* bound of the number of starts
  MaxFaults        \* bound of the kinds of failure that strike from one start to the next

Names == Buckets \cup {NoName}
Calls == Crons \cup {Startup}
FaultKinds == {"discover", "mark", "get", "head", "update", "cleanup", "create", "kill"}
Statuses == {"ok", "denied", "missing"}

ASSUME ConstantsAssumption ==
  /\ NoName \notin Buckets /\ Configs \subseteq Names /\ Startup \notin Crons
  /\ {SyncEnable, SkipValidation, BackgroundScan} \cup InitialScans \subseteq BOOLEAN
  /\ {MaxRetries, Grace} \subseteq Nat \ {0}
  /\ {DeleteThreshold, MaxHours, MaxStarts, MaxFaults} \subseteq Nat
  /\ Faults \subseteq FaultKinds

VARIABLES
  s3,      \* the status of each bucket in S3
  table,   \* the table buckets
  now,     \* the hour
  proc,    \* where the initial scan stands, with its local variables
  call,    \* where each call of ScanBucket stands
  hist     \* auxiliary: what has happened since the start

vars == <<s3, table, now, proc, call, hist>>

ProcPCs == {"down", "discover", "mark", "validate", "head", "record", "unmark",
            "expired", "cleanup", "scan", "serving"}
CallPCs == {"idle", "head", "reject", "rejectmark", "rejecterror", "create", "unmark"}

(* initial: whether this start has an initial scan; found: the buckets it   *)
(* discovered; todo: those of them the loop at hand has not come to; bucket *)
(* and tries: the one it is at.                                             *)
ProcState == [pc : ProcPCs, config : Names, initial : BOOLEAN,
              found : SUBSET Names, todo : SUBSET Names,
              bucket : Names, tries : 0..MaxRetries, starts : 0..MaxStarts]

(* struck: the kinds of failure met since the start; steady: if it has an   *)
(* initial scan, the buckets whose status has not changed since.            *)
History == [struck : SUBSET FaultKinds, steady : SUBSET Buckets]

TypeOK ==
  /\ s3 \in [Buckets -> Statuses]
  /\ IsBucketTable(table, Names)
  /\ now \in 0..MaxHours
  /\ proc \in ProcState
  /\ call \in [Calls -> [pc : CallPCs, bucket : Names]]
  /\ hist \in History

----------------------------------------------------------------------------
(* Helpers *)

Accessible(b) == b \in Buckets /\ s3[b] = "ok"

(* HeadBucket's error may be of the class ErrorTypeUnknown.                 *)
MayBeUnknown(b) == IF b = NoName THEN TRUE ELSE s3[b] = "missing"

Idle == [pc |-> "idle", bucket |-> NoName]

Goto(label) == proc' = [proc EXCEPT !.pc = label]

CallGoto(c, label) == call' = [call EXCEPT ![c].pc = label]

Return(c) == call' = [call EXCEPT ![c] = Idle]

Struck(kind) ==
  /\ kind \in Faults /\ Cardinality(hist.struck \cup {kind}) <= MaxFaults
  /\ hist' = [hist EXCEPT !.struck = @ \cup {kind}]

(* No process, after so many of them.                                       *)
Down(starts) == [pc |-> "down", config |-> NoName, initial |-> FALSE, found |-> {},
                 todo |-> {}, bucket |-> NoName, tries |-> 0, starts |-> starts]

(* The initial scan turns to scanning what it found.                        *)
ToScan == proc' = [proc EXCEPT !.pc = "scan", !.todo = proc.found]

(* ... or is over, by an error or not, and the scheduler starts.            *)
ToServing == Goto("serving")

(* The validation loop is through with the bucket at hand.                  *)
NextBucket == proc' = [proc EXCEPT !.pc = "validate", !.bucket = NoName, !.tries = 0]

----------------------------------------------------------------------------
(* The initial scan *)

(* main, with the configuration file as it is now.  Without an initial scan *)
(* performInitialScan returns at once, and the scheduler starts.            *)
Start(config, initial) ==
  /\ proc.pc = "down" /\ proc.starts < MaxStarts
  /\ proc' = [Down(proc.starts + 1) EXCEPT !.pc = IF initial THEN "discover" ELSE "serving",
                                          !.config = config, !.initial = initial]
  /\ hist' = [hist EXCEPT !.steady = IF initial THEN Buckets ELSE {}]
  /\ UNCHANGED <<s3, table, now, call>>

(* The configured bucket, or what ListBuckets returns: the buckets of the   *)
(* account, whether the program may enter them or not.                      *)
Discover ==
  /\ proc.pc = "discover"
  /\ LET found == IF proc.config # NoName THEN {proc.config}
                  ELSE {b \in Buckets : s3[b] # "missing"}
     IN  proc' = [proc EXCEPT !.found = found, !.todo = found,
                              !.pc = IF SyncEnable THEN "mark" ELSE "scan"]
  /\ UNCHANGED <<s3, table, now, call, hist>>

DiscoverFails ==
  /\ proc.pc = "discover" /\ proc.config = NoName
  /\ Struck("discover")
  /\ ToServing
  /\ UNCHANGED <<s3, table, now, call>>

(* Mutant of MarkBuckets: only the buckets at hand are marked.              *)
MarkBuckets_Found ==
  /\ proc.pc = "mark"
  /\ table' = [b \in DOMAIN table |-> IF b \in proc.found
                 THEN [table[b] EXCEPT !.marked = TRUE] ELSE table[b]]
  /\ Goto("validate")
  /\ UNCHANGED <<s3, now, call, hist>>

(* performPhase1BucketMarking: every row, of whatever configuration.        *)
MarkBuckets ==
  /\ proc.pc = "mark"
  /\ table' = MarkAllBuckets(table)
  /\ Goto("validate")
  /\ UNCHANGED <<s3, now, call, hist>>

(* A configured bucket is scanned all the same, discovered ones are not.    *)
MarkBucketsFails ==
  /\ proc.pc = "mark"
  /\ Struck("mark")
  /\ IF proc.config # NoName THEN ToScan ELSE ToServing
  /\ UNCHANGED <<s3, table, now, call>>

(* performPhase2BucketValidation takes the next bucket; one without a row   *)
(* is passed over.                                                          *)
Validate(b) ==
  /\ proc.pc = "validate" /\ b \in proc.todo
  /\ IF b \notin DOMAIN table
     THEN proc' = [proc EXCEPT !.todo = @ \ {b}]
     ELSE proc' = [proc EXCEPT !.todo = @ \ {b}, !.bucket = b,
                               !.pc = IF SkipValidation THEN "unmark" ELSE "head"]
  /\ UNCHANGED <<s3, table, now, call, hist>>

(* GetBucket fails, and is taken to say that there is no row.               *)
ValidateFails(b) ==
  /\ proc.pc = "validate" /\ b \in proc.todo
  /\ Struck("get")
  /\ proc' = [proc EXCEPT !.todo = @ \ {b}]
  /\ UNCHANGED <<s3, table, now, call>>

(* Mutants of Retry: the attempts have no limit; they are not counted.     *)
Retry_Unlimited == proc' = [proc EXCEPT !.tries = @ + 1]

Retry_Uncounted ==
  IF proc.tries + 1 < MaxRetries THEN UNCHANGED proc ELSE Goto("record")

(* After an attempt without success.                                        *)
Retry ==
  IF proc.tries + 1 < MaxRetries THEN proc' = [proc EXCEPT !.tries = @ + 1]
  ELSE Goto("record")

(* HeadBucket, tried up to MaxRetries times.                                *)
Head ==
  /\ proc.pc = "head"
  /\ IF Accessible(proc.bucket) THEN Goto("unmark") ELSE Retry
  /\ UNCHANGED <<s3, table, now, call, hist>>

HeadFails ==
  /\ proc.pc = "head"
  /\ Struck("head")
  /\ Retry
  /\ UNCHANGED <<s3, table, now, call>>

Record ==
  /\ proc.pc = "record"
  /\ table' = UpdateAccessError(table, proc.bucket, now)
  /\ NextBucket
  /\ UNCHANGED <<s3, now, call, hist>>

(* Mutant of UnmarkFound: a row without an error is thought to be in order. *)
UnmarkFound_AfterError ==
  /\ proc.pc = "unmark"
  /\ table' = IF table[proc.bucket].error THEN UnmarkBucket(table, proc.bucket, now) ELSE table
  /\ NextBucket
  /\ UNCHANGED <<s3, now, call, hist>>

UnmarkFound ==
  /\ proc.pc = "unmark"
  /\ table' = UnmarkBucket(table, proc.bucket, now)
  /\ NextBucket
  /\ UNCHANGED <<s3, now, call, hist>>

(* Either query fails: logged.                                              *)
UpdateFails ==
  /\ proc.pc \in {"record", "unmark"}
  /\ Struck("update")
  /\ NextBucket
  /\ UNCHANGED <<s3, table, now, call>>

Validated ==
  /\ proc.pc = "validate" /\ proc.todo = {}
  /\ Goto("expired")
  /\ UNCHANGED <<s3, table, now, call, hist>>

(* performPhase3BucketCleanup looks for expired buckets, ...                *)
Expired ==
  /\ proc.pc = "expired"
  /\ IF BucketsToDelete(table, now, DeleteThreshold) # {} THEN Goto("cleanup")
     ELSE ToScan
  /\ UNCHANGED <<s3, table, now, call, hist>>

(* Mutant of Cleanup: the threshold does not enter.                         *)
Cleanup_AllMarked ==
  /\ proc.pc = "cleanup"
  /\ table' = [b \in {x \in DOMAIN table : ~ table[x].marked} |-> table[b]]
  /\ ToScan
  /\ UNCHANGED <<s3, now, call, hist>>

(* ... and deletes them, their objects and scan jobs going with them.       *)
Cleanup ==
  /\ proc.pc = "cleanup"
  /\ table' = [b \in DOMAIN table \ BucketsToDelete(table, now, DeleteThreshold) |->
                 table[b]]
  /\ ToScan
  /\ UNCHANGED <<s3, now, call, hist>>

CleanupFails ==
  /\ proc.pc \in {"expired", "cleanup"}
  /\ Struck("cleanup")
  /\ ToScan
  /\ UNCHANGED <<s3, table, now, call>>

(* scanBucketsAndCollectStats, or the one scan of the configured bucket:    *)
(* one after the other.                                                     *)
ScanNext(b) ==
  /\ proc.pc = "scan" /\ b \in proc.todo /\ call[Startup] = Idle
  /\ call' = [call EXCEPT ![Startup] = [pc |-> "head", bucket |-> b]]
  /\ proc' = [proc EXCEPT !.todo = @ \ {b}]
  /\ UNCHANGED <<s3, table, now, hist>>

Scanned ==
  /\ proc.pc = "scan" /\ proc.todo = {} /\ call[Startup] = Idle
  /\ ToServing
  /\ UNCHANGED <<s3, table, now, call, hist>>

ProcStep ==
  \/ Discover \/ DiscoverFails \/ MarkBuckets \/ MarkBucketsFails
  \/ \E b \in Names : Validate(b) \/ ValidateFails(b) \/ ScanNext(b)
  \/ Head \/ HeadFails \/ Record \/ UnmarkFound \/ UpdateFails \/ Validated
  \/ Expired \/ Cleanup \/ CleanupFails \/ Scanned

----------------------------------------------------------------------------
(* ScanBucket *)

(* cron calls ScanBucket with cfg.S3.Bucket, which may be empty.            *)
CronFires(c) ==
  /\ proc.pc = "serving" /\ BackgroundScan /\ call[c] = Idle
  /\ call' = [call EXCEPT ![c] = [pc |-> "head", bucket |-> proc.config]]
  /\ UNCHANGED <<s3, table, now, proc, hist>>

(* Mutant of CallHead: an error of an unknown class counts as permanent.    *)
CallHead_UnknownIsPermanent(c) ==
  /\ call[c].pc = "head"
  /\ CallGoto(c, IF SkipValidation \/ Accessible(call[c].bucket) THEN "create" ELSE "reject")
  /\ UNCHANGED <<s3, table, now, proc, hist>>

(* performBucketValidation.  Without access it depends on the class of the  *)
(* error: AccessDenied and NotFound are permanent; the answer to HeadBucket *)
(* for a missing bucket may be classed as unknown, an empty name is.        *)
CallHead(c) ==
  /\ call[c].pc = "head"
  /\ LET b == call[c].bucket
     IN  \/ (SkipValidation \/ Accessible(b)) /\ CallGoto(c, "create")
         \/ /\ ~ SkipValidation /\ ~ Accessible(b)
            /\ \/ b # NoName /\ CallGoto(c, "reject")
               \/ MayBeUnknown(b) /\ Return(c)
  /\ UNCHANGED <<s3, table, now, proc, hist>>

(* A temporary error: ScanBucket returns it.                                *)
CallHeadFails(c) ==
  /\ call[c].pc = "head" /\ ~ SkipValidation
  /\ Struck("head")
  /\ Return(c)
  /\ UNCHANGED <<s3, table, now, proc>>

(* handlePermanentBucketError: the row is made, if need be, marked, and     *)
(* gets the error.                                                          *)
Reject(c) ==
  /\ call[c].pc = "reject"
  /\ table' = CreateBucket(table, call[c].bucket, now)
  /\ CallGoto(c, "rejectmark")
  /\ UNCHANGED <<s3, now, proc, hist>>

(* Mutant of RejectMark: the mark is left to the next start.                *)
RejectMark_Skipped(c) ==
  /\ call[c].pc = "rejectmark"
  /\ CallGoto(c, "rejecterror")
  /\ UNCHANGED <<s3, table, now, proc, hist>>

RejectMark(c) ==
  /\ call[c].pc = "rejectmark"
  /\ table' = MarkBucket(table, call[c].bucket)
  /\ CallGoto(c, "rejecterror")
  /\ UNCHANGED <<s3, now, proc, hist>>

RejectMarkFails(c) ==
  /\ call[c].pc = "rejectmark"
  /\ Struck("update")
  /\ CallGoto(c, "rejecterror")
  /\ UNCHANGED <<s3, table, now, proc>>

RejectError(c) ==
  /\ call[c].pc = "rejecterror"
  /\ table' = UpdateAccessError(table, call[c].bucket, now)
  /\ Return(c)
  /\ UNCHANGED <<s3, now, proc, hist>>

(* initializeBucketAndScanJob.                                              *)
Create(c) ==
  /\ call[c].pc = "create"
  /\ table' = CreateBucket(table, call[c].bucket, now)
  /\ CallGoto(c, "unmark")
  /\ UNCHANGED <<s3, now, proc, hist>>

CreateFails(c) ==
  /\ call[c].pc \in {"reject", "create"}
  /\ Struck("create")
  /\ Return(c)
  /\ UNCHANGED <<s3, table, now, proc>>

UnmarkScanned(c) ==
  /\ call[c].pc = "unmark"
  /\ table' = UnmarkBucket(table, call[c].bucket, now)
  /\ Return(c)
  /\ UNCHANGED <<s3, now, proc, hist>>

CallUpdateFails(c) ==
  /\ call[c].pc \in {"rejecterror", "unmark"}
  /\ Struck("update")
  /\ Return(c)
  /\ UNCHANGED <<s3, table, now, proc>>

CallStep(c) ==
  \/ CallHead(c) \/ CallHeadFails(c)
  \/ Reject(c) \/ RejectMark(c) \/ RejectMarkFails(c) \/ RejectError(c)
  \/ Create(c) \/ CreateFails(c) \/ UnmarkScanned(c) \/ CallUpdateFails(c)

----------------------------------------------------------------------------
(* The environment *)

(* The bucket is created, deleted, or access to it granted or revoked.      *)
StatusChanges(b, status) ==
  /\ status # s3[b]
  /\ s3' = [s3 EXCEPT ![b] = status]
  /\ hist' = [hist EXCEPT !.steady = @ \ {b}]
  /\ UNCHANGED <<table, now, proc, call>>

(* An hour passes.                                                          *)
Tick ==
  /\ proc.pc \in {"down", "serving"} /\ now < MaxHours
  /\ \A c \in Calls : call[c] = Idle
  /\ now' = now + 1
  /\ UNCHANGED <<s3, table, proc, call, hist>>

(* The process ends, by a signal or a crash.                                *)
Kill ==
  /\ "kill" \in Faults /\ proc.pc # "down"
  /\ proc' = Down(proc.starts)
  /\ call' = [c \in Calls |-> Idle]
  /\ hist' = [hist EXCEPT !.struck = {}, !.steady = {}]
  /\ UNCHANGED <<s3, table, now>>

----------------------------------------------------------------------------
(* The specification *)

Init ==
  /\ s3 \in [Buckets -> Statuses]
  /\ table = NoBuckets
  /\ now = 0
  /\ proc = Down(0)
  /\ call = [c \in Calls |-> Idle]
  /\ hist = [struck |-> {}, steady |-> {}]

Next ==
  \/ \E config \in Configs, initial \in InitialScans : Start(config, initial)
  \/ ProcStep
  \/ \E c \in Crons : CronFires(c)
  \/ \E c \in Calls : CallStep(c)
  \/ \E b \in Buckets, status \in Statuses : StatusChanges(b, status)
  \/ Tick
  \/ Kill

(* The goroutine of the initial scan runs on, in its calls of ScanBucket and*)
(* between them: each S3 call and each query returns.                       *)
Fairness == WF_proc(ProcStep) /\ WF_call(CallStep(Startup))

Spec == Init /\ [][Next]_vars
FairSpec == Spec /\ Fairness

----------------------------------------------------------------------------
(* Properties *)

(* The program has access to the bucket, or does not ask.                   *)
Welcome(b) == SkipValidation \/ Accessible(b)

(* The cleanup of expired buckets deletes no bucket that the start has found*)
(* and has had access to all the time, however long the process was down    *)
(* before and though every attempt to check the bucket may have failed,     *)
(* unless a query on a bucket's row failed.  Only where the threshold comes *)
(* to no hour at all, as "30m" does, do failed checks cost the bucket.      *)
FoundBucketsSurvive ==
  [][Cleanup /\ hist.struck \cap {"get", "update"} = {}
             /\ (DeleteThreshold = 0 => "head" \notin hist.struck)
       => \A b \in proc.found \cap hist.steady \cap DOMAIN table :
            Welcome(b) => b \in DOMAIN table']_vars

Shown == ListAccessible(table, now, Grace)

(* Once an initial scan is over, and no query and no HeadBucket has failed  *)
(* since the process started, the bucket list shows a bucket the start has  *)
(* found if and only if the program has access to it, provided its status   *)
(* stayed the same, and no bucket that the start has not found: "returns    *)
(* only buckets that are accessible" (ListAccessibleBuckets), which "for    *)
(* permanent errors" (performBucketValidation) is so at once.  A bucket cron*)
(* is scanning at the moment is left aside.                                 *)
ListShowsAccessibleBuckets ==
  proc.pc = "serving" /\ proc.initial /\ hist.struck = {} /\ SyncEnable =>
    \A b \in Buckets \ {call[c].bucket : c \in Calls} :
      IF b \in proc.found
      THEN b \in hist.steady => (b \in Shown <=> Welcome(b))
      ELSE b \notin Shown

(* A row that the start did not find in S3 does not outlive the threshold:  *)
(* after the cleanup it has been seen, or created, DeleteThreshold hours    *)
(* ago at most.                                                             *)
VanishedBucketsExpire ==
  proc.pc = "scan" /\ SyncEnable /\ hist.struck \cap {"mark", "cleanup"} = {} =>
    \A b \in DOMAIN table \ proc.found : table[b].last >= now - DeleteThreshold
                                         \/ table[b].created >= now - DeleteThreshold

(* Where no bucket is configured cron scans the bucket of the empty name:   *)
(* as long as buckets are validated, that never gives it a row, which the   *)
(* users would be offered.                                                  *)
NamelessBucketHasNoRow == ~ SkipValidation => NoName \notin DOMAIN table

(* Each start gets through its initial scan, or the process ends: no initial*)
(* scan is at work for ever, whatever calls fail.                           *)
InitialScanEnds == []<>(proc.pc \in {"serving", "down"})

(* "removes inaccessible buckets": it removes no bucket to which the        *)
(* program has had access ever since it started, whatever call failed.      *)
OnlyInaccessibleBucketsAreDeleted ==
  [][Cleanup => \A b \in DOMAIN table \cap hist.steady :
                  s3[b] = "ok" => b \in DOMAIN table']_vars
=============================================================================
