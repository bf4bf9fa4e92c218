--------------------------- MODULE BucketSyncProofs ----------------------------
(***************************************************************************)
(* Theorems about the safety of BucketSync, for any buckets, failures,      *)
(* thresholds and number of cron's calls.  The argument follows the table   *)
(* through one start: every row is marked, the found ones are visited, what *)
(* is still marked and old goes, and the scans touch the rows of found      *)
(* buckets only.                                                            *)
(***************************************************************************)
EXTENDS BucketSync, TLAPS

Phases == {"validate", "head", "record", "unmark", "expired", "cleanup"}

Rejecting == {"reject", "rejectmark", "rejecterror"}

(* Whatever the program does with bucket b, it does so as with one it has   *)
(* access to, or as with one it has not, for as long as the status is the   *)
(* same.                                                                    *)
Admitted(b) == SkipValidation \/ (b \in hist.steady => s3[b] = "ok")
Refused(b) == ~ SkipValidation /\ (b \in hist.steady => s3[b] # "ok")

(* Where the initial scan stands.                                           *)
ProcInv ==
  /\ proc.todo \subseteq proc.found /\ NoName \notin proc.found
  /\ proc.pc = "mark" => proc.todo = proc.found
  /\ proc.pc \in {"expired", "cleanup"} => proc.todo = {}
  /\ proc.pc \in {"head", "record", "unmark"} => proc.bucket \in proc.found
  /\ proc.pc = "unmark" => Admitted(proc.bucket)
  /\ proc.pc \in {"head", "record"} => ~ SkipValidation
  /\ proc.pc = "record" /\ "head" \notin hist.struck => Refused(proc.bucket)
  /\ proc.pc \notin {"down", "discover"} /\ proc.config # NoName =>
       proc.found = {proc.config} \/ (proc.pc = "serving" /\ ~ proc.initial)

(* A call is on a bucket that was found or on the configured one, which may *)
(* be nameless, and at the row of a bucket as its status demands.           *)
CallSound(c) ==
  /\ call[c].bucket \in proc.found \cup {NoName, proc.config}
  /\ call[c].pc = "idle" => call[c] = Idle
  /\ call[c].pc # "idle" /\ proc.pc = "scan" => call[c].bucket \in proc.found
  /\ call[c].pc \in {"create", "unmark"} =>
       Admitted(call[c].bucket) /\ (call[c].bucket = NoName => SkipValidation)
  /\ call[c].pc \in Rejecting => call[c].bucket # NoName /\ Refused(call[c].bucket)
  /\ call[c].pc = "unmark" => call[c].bucket \in DOMAIN table

(* A call is at work only when the buckets have been validated.             *)
CallInv ==
  /\ proc.pc \notin {"scan", "serving"} => \A c \in Calls : call[c] = Idle
  /\ proc.pc = "scan" => \A c \in Crons : call[c] = Idle
  /\ proc.pc = "serving" => call[Startup] = Idle
  /\ \A c \in Calls : CallSound(c)

(* The rows of the found buckets are visited one by one; each visit makes   *)
(* the present the time of their last access.                               *)
Visited ==
  proc.pc \in Phases /\ hist.struck \cap {"get", "update"} = {} =>
    \A b \in proc.found \cap DOMAIN table :
      \/ table[b].last = now \/ b \in proc.todo
      \/ proc.pc \in {"head", "record", "unmark"} /\ b = proc.bucket

(* ... and, unless a query or HeadBucket fails, takes the mark of a bucket  *)
(* the program has access to away.                                          *)
Unmarked ==
  proc.pc \in Phases /\ hist.struck \cap {"get", "update", "head"} = {} =>
    \A b \in proc.found \cap hist.steady \cap DOMAIN table :
      Welcome(b) => \/ ~ table[b].marked \/ b \in proc.todo
                    \/ proc.pc \in {"head", "unmark"} /\ b = proc.bucket

(* Once all rows are marked, those of the buckets that were not found stay  *)
(* so, ...                                                                  *)
LostInv ==
  /\ SyncEnable /\ "mark" \notin hist.struck
  /\ \/ proc.pc \in Phases \cup {"scan"}
     \/ proc.pc = "serving" /\ proc.initial /\ "discover" \notin hist.struck
  => \A b \in DOMAIN table \ proc.found : b # NoName \/ proc.pc # "serving" => table[b].marked

(* ... and, unless a query fails, those of the buckets the program has no   *)
(* access to, but for one that a call has just created.                     *)
Hidden(b) ==
  b \in DOMAIN table =>
    \/ table[b].marked
    \/ \E c \in Calls : call[c].bucket = b /\ call[c].pc = "rejectmark"

DeniedInv ==
  /\ proc.pc \in Phases \cup {"scan"} \/ (proc.pc = "serving" /\ proc.initial)
  /\ SyncEnable /\ hist.struck = {}
  =>
    \A b \in hist.steady : ~ SkipValidation /\ s3[b] # "ok" => Hidden(b)

(* The scans of the found buckets show those the program has access to.     *)
ShownRow(b) == b \in DOMAIN table /\ ~ table[b].marked /\ ~ table[b].error

ScansInv ==
  proc.pc \in {"scan", "serving"} /\ hist.struck = {} =>
    \A b \in proc.found \cap hist.steady :
      SkipValidation \/ s3[b] = "ok" =>
        \/ ShownRow(b)
        \/ proc.pc = "scan" /\ b \in proc.todo
        \/ proc.pc = "scan" /\ call[Startup].bucket = b

Inv ==
  /\ TypeOK /\ ProcInv /\ CallInv /\ NamelessBucketHasNoRow
  /\ Visited /\ Unmarked /\ LostInv /\ DeniedInv /\ VanishedBucketsExpire /\ ScansInv

-----------------------------------------------------------------------------
(* The queries *)

LEMMA CreatesBucket ==
  ASSUME NEW t, NEW b \in Names, NEW h \in Nat, IsBucketTable(t, Names)
  PROVE  /\ IsBucketTable(CreateBucket(t, b, h), Names)
         /\ DOMAIN CreateBucket(t, b, h) = DOMAIN t \cup {b}
         /\ \A x \in DOMAIN t : CreateBucket(t, b, h)[x] = t[x]
         /\ b \notin DOMAIN t => /\ ~ CreateBucket(t, b, h)[b].marked
                                /\ ~ CreateBucket(t, b, h)[b].error
                                /\ CreateBucket(t, b, h)[b].created = h
  BY DEF CreateBucket, IsBucketTable, BucketRow

LEMMA UpdatesRow ==
  ASSUME NEW t, NEW b, NEW row, IsBucketTable(t, Names), b \in DOMAIN t => row \in BucketRow
  PROVE  /\ IsBucketTable(UpdateRow(t, b, row), Names)
         /\ DOMAIN UpdateRow(t, b, row) = DOMAIN t
         /\ \A x \in DOMAIN t : UpdateRow(t, b, row)[x] = IF x = b THEN row ELSE t[x]
  BY DEF UpdateRow, IsBucketTable

LEMMA MarksBucket ==
  ASSUME NEW t, NEW b, IsBucketTable(t, Names)
  PROVE  /\ IsBucketTable(MarkBucket(t, b), Names)
         /\ DOMAIN MarkBucket(t, b) = DOMAIN t
         /\ \A x \in DOMAIN t \ {b} : MarkBucket(t, b)[x] = t[x]
         /\ b \in DOMAIN t => MarkBucket(t, b)[b].marked
<1> DEFINE row == [t[b] EXCEPT !.marked = TRUE]
<1>1. b \in DOMAIN t => row \in BucketRow /\ row.marked
  BY DEF IsBucketTable, BucketRow
<1>2. MarkBucket(t, b) = UpdateRow(t, b, row)
  BY DEF MarkBucket
<1> HIDE DEF row
<1> QED  BY <1>1, <1>2, UpdatesRow

LEMMA UnmarksBucket ==
  ASSUME NEW t, NEW b, NEW h \in Nat, IsBucketTable(t, Names)
  PROVE  /\ IsBucketTable(UnmarkBucket(t, b, h), Names)
         /\ DOMAIN UnmarkBucket(t, b, h) = DOMAIN t
         /\ \A x \in DOMAIN t \ {b} : UnmarkBucket(t, b, h)[x] = t[x]
         /\ b \in DOMAIN t => /\ ~ UnmarkBucket(t, b, h)[b].marked
                             /\ ~ UnmarkBucket(t, b, h)[b].error
                             /\ UnmarkBucket(t, b, h)[b].last = h
<1> DEFINE row == [t[b] EXCEPT !.marked = FALSE, !.error = FALSE, !.last = h]
<1>1. b \in DOMAIN t => row \in BucketRow /\ ~ row.marked /\ ~ row.error /\ row.last = h
  BY DEF IsBucketTable, BucketRow
<1>2. UnmarkBucket(t, b, h) = UpdateRow(t, b, row)
  BY DEF UnmarkBucket
<1> HIDE DEF row
<1> QED  BY <1>1, <1>2, UpdatesRow

LEMMA RecordsError ==
  ASSUME NEW t, NEW b, NEW h \in Nat, IsBucketTable(t, Names)
  PROVE  /\ IsBucketTable(UpdateAccessError(t, b, h), Names)
         /\ DOMAIN UpdateAccessError(t, b, h) = DOMAIN t
         /\ \A x \in DOMAIN t \ {b} : UpdateAccessError(t, b, h)[x] = t[x]
         /\ b \in DOMAIN t => /\ UpdateAccessError(t, b, h)[b].marked = t[b].marked
                             /\ UpdateAccessError(t, b, h)[b].last = h
<1> DEFINE row == [t[b] EXCEPT !.error = TRUE, !.last = h]
<1>1. b \in DOMAIN t => row \in BucketRow /\ row.marked = t[b].marked /\ row.last = h
  BY DEF IsBucketTable, BucketRow
<1>2. UpdateAccessError(t, b, h) = UpdateRow(t, b, row)
  BY DEF UpdateAccessError
<1> HIDE DEF row
<1> QED  BY <1>1, <1>2, UpdatesRow

LEMMA MarksAll ==
  ASSUME NEW t, IsBucketTable(t, Names)
  PROVE  /\ IsBucketTable(MarkAllBuckets(t), Names)
         /\ DOMAIN MarkAllBuckets(t) = DOMAIN t
         /\ \A x \in DOMAIN t : MarkAllBuckets(t)[x].marked
  BY DEF MarkAllBuckets, IsBucketTable, BucketRow

-----------------------------------------------------------------------------
(* Type correctness *)

LEMMA Falls ==
  ASSUME NEW n \in 0 .. MaxStarts
  PROVE  Down(n) \in ProcState
  BY ConstantsAssumption DEF Down, ProcState, ProcPCs, Names

LEMMA Strikes ==
  ASSUME TypeOK, NEW kind, Struck(kind)
  PROVE  /\ hist' \in History /\ hist'.steady = hist.steady
         /\ hist'.struck = hist.struck \cup {kind}
  BY ConstantsAssumption DEF Struck, TypeOK, History

LEMMA TodoTyped ==
  ASSUME NEW p \in ProcState, NEW rest \in SUBSET Names
  PROVE  [p EXCEPT !.todo = rest] \in ProcState
  BY DEF ProcState

LEMMA TypeInit == Init => TypeOK
<1> SUFFICES ASSUME Init PROVE TypeOK
  OBVIOUS
<1>1. 0 \in 0 .. MaxStarts /\ 0 \in 0 .. MaxHours
  BY ConstantsAssumption
<1>2. proc \in ProcState
  BY <1>1, Falls DEF Init
<1>3. call \in [Calls -> [pc : CallPCs, bucket : Names]] /\ hist \in History
  BY DEF Init, Idle, CallPCs, Names, History
<1> QED  BY <1>1, <1>2, <1>3 DEF Init, TypeOK, IsBucketTable, NoBuckets

LEMMA TypeStep == TypeOK /\ [Next]_vars => TypeOK'
<1> SUFFICES ASSUME TypeOK, [Next]_vars PROVE TypeOK'
  OBVIOUS
<1> DEFINE Call == [pc : CallPCs, bucket : Names]
<1>0. /\ IsBucketTable(table, Names) /\ now \in Nat /\ proc \in ProcState
      /\ call \in [Calls -> Call] /\ Idle \in Call /\ Buckets \subseteq Names
      /\ \A b : b \in Names => proc.todo \ {b} \subseteq Names
  BY ConstantsAssumption DEF TypeOK, ProcState, Idle, CallPCs, Names
<1>g. ASSUME NEW label \in ProcPCs, Goto(label) PROVE proc' \in ProcState
  BY <1>0, <1>g DEF Goto, ProcState
<1>s. ASSUME ToScan PROVE proc' \in ProcState
  BY <1>0, <1>s DEF ToScan, ProcState, ProcPCs
<1>n. ASSUME NextBucket PROVE proc' \in ProcState
  <2>1. 0 \in 0 .. MaxRetries /\ NoName \in Names /\ "validate" \in ProcPCs
    BY ConstantsAssumption DEF Names, ProcPCs
  <2> QED  BY <1>0, <1>n, <2>1 DEF NextBucket, ProcState
<1>r. ASSUME Retry PROVE proc' \in ProcState
  <2>1. CASE proc.tries + 1 < MaxRetries
    <3>1. proc.tries + 1 \in 0 .. MaxRetries
      BY <1>0, <2>1, ConstantsAssumption DEF ProcState
    <3> QED  BY <1>0, <1>r, <2>1, <3>1 DEF Retry, ProcState
  <2>2. CASE ~ (proc.tries + 1 < MaxRetries)
    BY <1>g, <1>r, <2>2 DEF Retry, ProcPCs
  <2> QED  BY <2>1, <2>2
<1>c. ASSUME NEW c \in Calls, NEW label \in CallPCs, CallGoto(c, label) PROVE call' \in [Calls -> Call]
  BY <1>0, <1>c DEF CallGoto
<1>e. ASSUME NEW c \in Calls, Return(c) PROVE call' \in [Calls -> Call]
  BY <1>0, <1>e DEF Return
(* The initial scan.                                                        *)
<1>1. ASSUME NEW config \in Configs, NEW initial \in InitialScans, Start(config, initial) PROVE TypeOK'
  <2>1. proc.starts + 1 \in 0 .. MaxStarts /\ config \in Names
    BY <1>0, <1>1, ConstantsAssumption DEF Start, ProcState
  <2>2. proc' \in ProcState
    <3> DEFINE d == Down(proc.starts + 1)
    <3>1. PICK label \in {"discover", "serving"} :
            proc' = [d EXCEPT !.pc = label, !.config = config, !.initial = initial]
      BY <1>1 DEF Start
    <3>2. d \in ProcState /\ initial \in BOOLEAN
      BY <2>1, Falls, ConstantsAssumption
    <3> HIDE DEF d
    <3> QED  BY <2>1, <3>1, <3>2 DEF ProcState, ProcPCs
  <2>3. hist' \in History
    BY <1>1 DEF Start, TypeOK, History
  <2> QED  BY <1>1, <2>2, <2>3 DEF Start, TypeOK
<1>2. CASE Discover
  <2> DEFINE found == IF proc.config # NoName THEN {proc.config} ELSE {b \in Buckets : s3[b] # "missing"}
  <2>1. found \in SUBSET Names
    BY <1>0 DEF ProcState
  <2>2. proc' = [proc EXCEPT !.found = found, !.todo = found,
                             !.pc = IF SyncEnable THEN "mark" ELSE "scan"]
    BY <1>2 DEF Discover
  <2> HIDE DEF found
  <2>3. proc' \in ProcState
    BY <1>0, <2>1, <2>2 DEF ProcState, ProcPCs
  <2> QED  BY <1>2, <2>3 DEF Discover, TypeOK
<1>3. CASE DiscoverFails \/ MarkBucketsFails
  <2>1. ToScan \/ Goto("serving")
    BY <1>3 DEF DiscoverFails, MarkBucketsFails, ToServing
  <2> QED  BY <1>3, <1>g, <1>s, <2>1, Strikes DEF DiscoverFails, MarkBucketsFails, TypeOK, ProcPCs
<1>4. CASE MarkBuckets
  BY <1>0, <1>4, <1>g, MarksAll DEF MarkBuckets, TypeOK, ProcPCs
<1>5. ASSUME NEW b \in Names, Validate(b) PROVE TypeOK'
  <2> DEFINE rest == proc.todo \ {b}
  <2>0. rest \in SUBSET Names
    BY <1>0 DEF ProcState
  <2>v. \/ proc' = [proc EXCEPT !.todo = rest]
        \/ \E label \in {"unmark", "head"} :
             proc' = [proc EXCEPT !.todo = rest, !.bucket = b, !.pc = label]
    BY <1>5 DEF Validate
  <2> HIDE DEF rest
  <2>1. ASSUME proc' = [proc EXCEPT !.todo = rest] PROVE proc' \in ProcState
    BY <1>0, <2>0, <2>1, TodoTyped
  <2>2. ASSUME NEW label \in {"unmark", "head"},
               proc' = [proc EXCEPT !.todo = rest, !.bucket = b, !.pc = label]
        PROVE  proc' \in ProcState
    <3>1. label \in ProcPCs
      BY DEF ProcPCs
    <3> QED  BY <1>0, <2>0, <2>2, <3>1 DEF ProcState
  <2>3. proc' \in ProcState
    BY <2>v, <2>1, <2>2
  <2> QED  BY <1>5, <2>3 DEF Validate, TypeOK
<1>6. ASSUME NEW b \in Names, ValidateFails(b) PROVE TypeOK'
  <2>1. proc' \in ProcState
    <3>1. proc.todo \ {b} \in SUBSET Names
      BY <1>0 DEF ProcState
    <3> QED  BY <1>0, <1>6, <3>1, TodoTyped DEF ValidateFails
  <2> QED  BY <1>6, <2>1, Strikes DEF ValidateFails, TypeOK
<1>7. CASE Head
  BY <1>7, <1>g, <1>r DEF Head, TypeOK, ProcPCs
<1>8. CASE HeadFails
  BY <1>8, <1>r, Strikes DEF HeadFails, TypeOK
<1>9. CASE Record
  BY <1>0, <1>9, <1>n, RecordsError DEF Record, TypeOK
<1>10. CASE UnmarkFound
  BY <1>0, <1>10, <1>n, UnmarksBucket DEF UnmarkFound, TypeOK
<1>11. CASE UpdateFails
  BY <1>11, <1>n, Strikes DEF UpdateFails, TypeOK
<1>12. CASE Validated \/ Scanned
  BY <1>12, <1>g DEF Validated, Scanned, ToServing, TypeOK, ProcPCs
<1>13. CASE Expired
  BY <1>13, <1>g, <1>s DEF Expired, TypeOK, ProcPCs
<1>14. CASE Cleanup
  <2>1. IsBucketTable(table', Names)
    BY <1>0, <1>14 DEF Cleanup, IsBucketTable
  <2> QED  BY <1>14, <1>s, <2>1 DEF Cleanup, TypeOK
<1>15. CASE CleanupFails
  BY <1>15, <1>s, Strikes DEF CleanupFails, TypeOK
<1>16. ASSUME NEW b \in Names, ScanNext(b) PROVE TypeOK'
  <2>1. proc' \in ProcState
    BY <1>0, <1>16 DEF ScanNext, ProcState
  <2>2. call' \in [Calls -> Call]
    BY <1>0, <1>16 DEF ScanNext, CallPCs
  <2> QED  BY <1>16, <2>1, <2>2 DEF ScanNext, TypeOK
(* ScanBucket.                                                              *)
<1>17. ASSUME NEW c \in Crons, CronFires(c) PROVE TypeOK'
  <2>1. call' \in [Calls -> Call]
    BY <1>0, <1>17 DEF CronFires, CallPCs, ProcState
  <2> QED  BY <1>17, <2>1 DEF CronFires, TypeOK
<1>18. ASSUME NEW c \in Calls, CallHead(c) PROVE TypeOK'
  <2>1. CallGoto(c, "create") \/ CallGoto(c, "reject") \/ Return(c)
    BY <1>18 DEF CallHead
  <2> QED  BY <1>18, <1>c, <1>e, <2>1 DEF CallHead, CallPCs, TypeOK
<1>19. ASSUME NEW c \in Calls,
              CallHeadFails(c) \/ RejectMarkFails(c) \/ CreateFails(c) \/ CallUpdateFails(c)
       PROVE  TypeOK'
  <2>1. CallGoto(c, "rejecterror") \/ Return(c)
    BY <1>19 DEF CallHeadFails, RejectMarkFails, CreateFails, CallUpdateFails
  <2>2. call' \in [Calls -> Call]
    BY <1>c, <1>e, <2>1 DEF CallPCs
  <2> QED  BY <1>19, <2>2, Strikes DEF CallHeadFails, RejectMarkFails, CreateFails, CallUpdateFails, TypeOK
<1>20. ASSUME NEW c \in Calls, Reject(c) \/ Create(c) PROVE TypeOK'
  <2>1. table' = CreateBucket(table, call[c].bucket, now)
        /\ (CallGoto(c, "rejectmark") \/ CallGoto(c, "unmark"))
    BY <1>20 DEF Reject, Create
  <2>2. call[c].bucket \in Names
    BY <1>0
  <2> QED  BY <1>0, <1>20, <1>c, <2>1, <2>2, CreatesBucket DEF Reject, Create, CallPCs, TypeOK
<1>21. ASSUME NEW c \in Calls, RejectMark(c) PROVE TypeOK'
  BY <1>0, <1>21, <1>c, MarksBucket DEF RejectMark, CallPCs, TypeOK
<1>22. ASSUME NEW c \in Calls, RejectError(c) PROVE TypeOK'
  BY <1>0, <1>22, <1>e, RecordsError DEF RejectError, TypeOK
<1>23. ASSUME NEW c \in Calls, UnmarkScanned(c) PROVE TypeOK'
  BY <1>0, <1>23, <1>e, UnmarksBucket DEF UnmarkScanned, TypeOK
(* The environment.                                                         *)
<1>24. ASSUME NEW b \in Buckets, NEW status \in Statuses, StatusChanges(b, status) PROVE TypeOK'
  <2>1. s3' \in [Buckets -> Statuses] /\ hist' \in History
    BY <1>24 DEF StatusChanges, TypeOK, History
  <2> QED  BY <1>24, <2>1 DEF StatusChanges, TypeOK
<1>25. CASE Tick
  BY <1>25, ConstantsAssumption DEF Tick, TypeOK
<1>26. CASE Kill
  <2>1. proc' \in ProcState
    BY <1>0, <1>26, Falls DEF Kill, ProcState
  <2>2. hist' \in History /\ call' \in [Calls -> Call]
    BY <1>0, <1>26 DEF Kill, TypeOK, History
  <2> QED  BY <1>26, <2>1, <2>2 DEF Kill, TypeOK
<1>27. CASE UNCHANGED vars
  BY <1>27 DEF vars, TypeOK
<1>p. ProcStep => TypeOK'
  BY <1>2, <1>3, <1>4, <1>5, <1>6, <1>7, <1>8, <1>9, <1>10, <1>11, <1>12, <1>13, <1>14, <1>15, <1>16
     DEF ProcStep
<1>q. ASSUME NEW c \in Calls, CallStep(c) PROVE TypeOK'
  BY <1>q, <1>18, <1>19, <1>20, <1>21, <1>22, <1>23 DEF CallStep
<1> QED
  BY <1>p, <1>q, <1>1, <1>17, <1>24, <1>25, <1>26, <1>27 DEF Next

-----------------------------------------------------------------------------
(* What the steps have in common *)

(* What is known of a start stays known: failures are not forgotten, and a  *)
(* bucket that is still steady has kept its status.                         *)
Goes ==
  /\ hist.struck \subseteq hist'.struck /\ hist'.steady \subseteq hist.steady
  /\ \A b \in hist'.steady : s3'[b] = s3[b]

LEMMA ProcGoes == TypeOK /\ ProcStep => Goes /\ UNCHANGED <<s3, now>> /\ hist'.steady = hist.steady
<1> SUFFICES ASSUME TypeOK, ProcStep PROVE Goes /\ UNCHANGED <<s3, now>> /\ hist'.steady = hist.steady
  OBVIOUS
<1>1. UNCHANGED <<s3, now>> /\ (UNCHANGED hist \/ \E kind : Struck(kind))
  BY DEF ProcStep, Discover, DiscoverFails, MarkBuckets, MarkBucketsFails, Validate, ValidateFails,
         ScanNext, Head, HeadFails, Record, UnmarkFound, UpdateFails, Validated, Expired, Cleanup,
         CleanupFails, Scanned
<1> QED  BY <1>1, Strikes DEF Goes

LEMMA KeepsGoing ==
  ASSUME Goes, NEW b
  PROVE  (Admitted(b) => Admitted(b)') /\ (Refused(b) => Refused(b)')
  BY DEF Goes, Admitted, Refused

(* A call is at work on one row, and may make it.                           *)
LEMMA CallTouches ==
  ASSUME TypeOK, NEW c \in Calls, CallStep(c)
  PROVE  /\ Goes /\ UNCHANGED <<s3, now, proc>> /\ hist'.steady = hist.steady
         /\ call[c].pc # "idle"
         /\ \A d \in Calls : d # c => call'[d] = call[d]
         /\ DOMAIN table \subseteq DOMAIN table'
         /\ DOMAIN table' \subseteq DOMAIN table \cup {call[c].bucket}
         /\ \A b \in DOMAIN table : b # call[c].bucket => table'[b] = table[b]
<1>0. /\ IsBucketTable(table, Names) /\ now \in Nat /\ call[c].bucket \in Names
      /\ call \in [Calls -> [pc : CallPCs, bucket : Names]]
  BY ConstantsAssumption DEF TypeOK
<1>1. /\ UNCHANGED <<s3, now, proc>> /\ (UNCHANGED hist \/ \E kind : Struck(kind))
      /\ call[c].pc # "idle"
  BY DEF CallStep, CallHead, CallHeadFails, Reject, RejectMark, RejectMarkFails, RejectError,
         Create, CreateFails, UnmarkScanned, CallUpdateFails
<1>2. Goes /\ hist'.steady = hist.steady
  BY <1>1, Strikes DEF Goes
<1>3. Return(c) \/ \E label : CallGoto(c, label)
  BY DEF CallStep, CallHead, CallHeadFails, Reject, RejectMark, RejectMarkFails, RejectError,
         Create, CreateFails, UnmarkScanned, CallUpdateFails
<1>4. \A d \in Calls : d # c => call'[d] = call[d]
  BY <1>0, <1>3 DEF Return, CallGoto
<1>5. \/ table' \in {table, CreateBucket(table, call[c].bucket, now)}
      \/ table' \in {MarkBucket(table, call[c].bucket), UnmarkBucket(table, call[c].bucket, now),
                     UpdateAccessError(table, call[c].bucket, now)}
  BY DEF CallStep, CallHead, CallHeadFails, Reject, RejectMark, RejectMarkFails, RejectError,
         Create, CreateFails, UnmarkScanned, CallUpdateFails
<1>6. /\ DOMAIN table \subseteq DOMAIN table'
      /\ DOMAIN table' \subseteq DOMAIN table \cup {call[c].bucket}
      /\ \A b \in DOMAIN table : b # call[c].bucket => table'[b] = table[b]
  <2>1. CASE table' = table
    BY <2>1
  <2>5. CASE table' = CreateBucket(table, call[c].bucket, now)
    BY <2>5 DEF CreateBucket
  <2>2. CASE table' = MarkBucket(table, call[c].bucket)
    BY <1>0, <2>2, MarksBucket
  <2>3. CASE table' = UnmarkBucket(table, call[c].bucket, now)
    BY <1>0, <2>3, UnmarksBucket
  <2>4. CASE table' = UpdateAccessError(table, call[c].bucket, now)
    BY <1>0, <2>4, RecordsError
  <2> QED  BY <1>5, <2>1, <2>2, <2>3, <2>4, <2>5
<1> QED  BY <1>1, <1>2, <1>4, <1>6

LEMMA StatusGoes ==
  ASSUME TypeOK, NEW b \in Buckets, NEW status \in Statuses, StatusChanges(b, status)
  PROVE  Goes /\ hist'.struck = hist.struck
<1>1. /\ s3' = [s3 EXCEPT ![b] = status] /\ s3 \in [Buckets -> Statuses]
      /\ hist'.struck = hist.struck /\ hist'.steady = hist.steady \ {b}
      /\ hist.steady \subseteq Buckets
  BY DEF StatusChanges, TypeOK, History
<1> QED  BY <1>1 DEF Goes

LEMMA Restarts ==
  ASSUME Kill \/ \E config \in Configs, initial \in InitialScans : Start(config, initial)
  PROVE  /\ proc'.todo = {} /\ proc'.found = {}
         /\ proc'.pc \in {"down", "discover"} \/ (proc'.pc = "serving" /\ ~ proc'.initial)
<1>1. CASE Kill
  BY <1>1 DEF Kill, Down
<1>2. ASSUME NEW config \in Configs, NEW initial \in InitialScans, Start(config, initial)
      PROVE  /\ proc'.todo = {} /\ proc'.found = {}
             /\ proc'.pc \in {"down", "discover"} \/ (proc'.pc = "serving" /\ ~ proc'.initial)
  BY <1>2, ConstantsAssumption DEF Start, Down
<1> QED  BY <1>1, <1>2

-----------------------------------------------------------------------------
(* The initial scan *)

LEMMA ProcInit == Init => ProcInv
  BY ConstantsAssumption DEF Init, Down, ProcInv

LEMMA ProcInvStep == TypeOK /\ ProcInv /\ [Next]_vars => ProcInv'
<1> SUFFICES ASSUME TypeOK, ProcInv, [Next]_vars PROVE ProcInv'
  OBVIOUS
<1>0. /\ proc \in ProcState /\ NoName \notin Buckets
      /\ hist.steady \subseteq Buckets /\ proc.todo \subseteq proc.found
  BY ConstantsAssumption DEF TypeOK, ProcInv, History
<1>k. ASSUME Goes, UNCHANGED proc PROVE ProcInv'
  BY <1>k, KeepsGoing DEF ProcInv, Admitted, Refused, Goes
<1>g. ASSUME NEW label, Goto(label)
      PROVE  /\ proc'.pc = label /\ proc'.todo = proc.todo /\ proc'.found = proc.found
             /\ proc'.bucket = proc.bucket /\ proc'.config = proc.config
  BY <1>0, <1>g DEF Goto, ProcState
<1>s. ASSUME ToScan, proc.pc \notin {"down", "discover", "serving"} PROVE ProcInv'
  <2>1. /\ proc'.pc = "scan" /\ proc'.todo = proc.found /\ proc'.found = proc.found
        /\ proc'.config = proc.config
    BY <1>0, <1>s DEF ToScan, ProcState
  <2> QED  BY <1>s, <2>1 DEF ProcInv
<1>n. ASSUME NextBucket, proc.pc \notin {"down", "discover", "serving"} PROVE ProcInv'
  <2>1. /\ proc'.pc = "validate" /\ proc'.todo = proc.todo /\ proc'.found = proc.found
        /\ proc'.config = proc.config
    BY <1>0, <1>n DEF NextBucket, ProcState
  <2> QED  BY <1>n, <2>1 DEF ProcInv
<1>r. ASSUME Retry, proc.pc = "head", "head" \notin hist'.struck => Refused(proc.bucket)'
      PROVE  ProcInv'
  <2>1. /\ proc'.pc \in {"head", "record"} /\ proc'.todo = proc.todo /\ proc'.found = proc.found
        /\ proc'.config = proc.config /\ proc'.bucket = proc.bucket
    BY <1>0, <1>r DEF Retry, Goto, ProcState
  <2> QED  BY <1>r, <2>1 DEF ProcInv, Refused
<1>1. CASE Kill \/ \E config \in Configs, initial \in InitialScans : Start(config, initial)
  BY <1>1, Restarts DEF ProcInv
<1>2. CASE Discover
  <2> DEFINE found == IF proc.config # NoName THEN {proc.config} ELSE {b \in Buckets : s3[b] # "missing"}
  <2>1. NoName \notin found /\ (proc.config # NoName => found = {proc.config})
    BY <1>0
  <2>2. proc' = [proc EXCEPT !.found = found, !.todo = found,
                             !.pc = IF SyncEnable THEN "mark" ELSE "scan"]
    BY <1>2 DEF Discover
  <2> HIDE DEF found
  <2>3. /\ proc'.pc \in {"mark", "scan"} /\ proc'.todo = found /\ proc'.found = found
        /\ proc'.config = proc.config
    BY <1>0, <2>2 DEF ProcState
  <2> QED  BY <2>1, <2>3 DEF ProcInv
<1>3. CASE DiscoverFails
  BY <1>3, <1>g DEF DiscoverFails, ToServing, ProcInv
<1>4. CASE MarkBuckets
  BY <1>4, <1>g DEF MarkBuckets, ProcInv
<1>5. CASE MarkBucketsFails
  <2>1. ToScan \/ Goto("serving")
    BY <1>5 DEF MarkBucketsFails, ToServing
  <2>2. proc.pc = "mark"
    BY <1>5 DEF MarkBucketsFails
  <2> QED  BY <1>g, <1>s, <2>1, <2>2 DEF ProcInv
<1>6. ASSUME NEW b \in Names, Validate(b) PROVE ProcInv'
  <2>1. /\ proc.pc = "validate" /\ b \in proc.todo
        /\ proc'.todo = proc.todo \ {b} /\ proc'.found = proc.found /\ proc'.config = proc.config
        /\ \/ proc'.pc = "validate"
           \/ proc'.pc = "head" /\ proc'.bucket = b /\ ~ SkipValidation
           \/ proc'.pc = "unmark" /\ proc'.bucket = b /\ SkipValidation
    BY <1>0, <1>6 DEF Validate, ProcState
  <2> QED  BY <2>1 DEF ProcInv, Admitted
<1>7. ASSUME NEW b \in Names, ValidateFails(b) PROVE ProcInv'
  <2>1. /\ proc.pc = "validate" /\ proc'.pc = "validate" /\ proc'.todo = proc.todo \ {b}
        /\ proc'.found = proc.found /\ proc'.config = proc.config
    BY <1>0, <1>7 DEF ValidateFails, ProcState
  <2> QED  BY <2>1 DEF ProcInv
<1>8. CASE Head
  <2>1. CASE Accessible(proc.bucket)
    <3>1. Goto("unmark") /\ UNCHANGED s3
      BY <1>8, <2>1 DEF Head
    <3> QED  BY <1>8, <1>g, <2>1, <3>1 DEF Head, Accessible, ProcInv, Admitted
  <2>2. CASE ~ Accessible(proc.bucket)
    <3>1. Retry /\ proc.pc = "head" /\ UNCHANGED <<s3, hist>> /\ ~ SkipValidation
      BY <1>8, <2>2 DEF Head, ProcInv
    <3>2. Refused(proc.bucket)'
      BY <1>0, <2>2, <3>1 DEF Refused, Accessible, Retry, Goto, ProcState
    <3> QED  BY <1>r, <3>1, <3>2
  <2> QED  BY <2>1, <2>2
<1>9. CASE HeadFails
  BY <1>9, <1>r, Strikes DEF HeadFails
<1>10. CASE Record \/ UnmarkFound \/ UpdateFails
  BY <1>10, <1>n DEF Record, UnmarkFound, UpdateFails
<1>11. CASE Validated
  BY <1>11, <1>g DEF Validated, ProcInv
<1>12. CASE Expired \/ Cleanup \/ CleanupFails
  <2>1. ToScan \/ Goto("cleanup")
    BY <1>12 DEF Expired, Cleanup, CleanupFails
  <2>2. proc.pc \in {"expired", "cleanup"}
    BY <1>12 DEF Expired, Cleanup, CleanupFails
  <2> QED  BY <1>g, <1>s, <2>1, <2>2 DEF ProcInv
<1>13. ASSUME NEW b \in Names, ScanNext(b) PROVE ProcInv'
  <2>1. /\ proc.pc = "scan" /\ proc'.pc = "scan" /\ proc'.todo = proc.todo \ {b}
        /\ proc'.found = proc.found /\ proc'.config = proc.config
    BY <1>0, <1>13 DEF ScanNext, ProcState
  <2> QED  BY <2>1 DEF ProcInv
<1>14. CASE Scanned
  BY <1>14, <1>g DEF Scanned, ToServing, ProcInv
<1>15. ASSUME NEW c \in Crons, CronFires(c) PROVE ProcInv'
  BY <1>15, <1>k DEF CronFires, Goes
<1>16. ASSUME NEW c \in Calls, CallStep(c) PROVE ProcInv'
  BY <1>16, <1>k, CallTouches
<1>17. ASSUME NEW b \in Buckets, NEW status \in Statuses, StatusChanges(b, status) PROVE ProcInv'
  BY <1>17, <1>k, StatusGoes DEF StatusChanges
<1>18. CASE Tick \/ UNCHANGED vars
  BY <1>18, <1>k DEF Tick, vars, Goes
<1> QED
  BY <1>1, <1>2, <1>3, <1>4, <1>5, <1>6, <1>7, <1>8, <1>9, <1>10, <1>11, <1>12, <1>13, <1>14, <1>15,
     <1>16, <1>17, <1>18 DEF Next, ProcStep

-----------------------------------------------------------------------------
(* The scans *)

(* The initial scan scans no bucket before it has validated them all.       *)
LEMMA ProcCalls ==
  ASSUME TypeOK, ProcStep
  PROVE  \/ UNCHANGED call /\ proc.pc \notin {"down", "scan", "serving"}
         \/ \E b \in Names : ScanNext(b)
         \/ Scanned
  BY DEF ProcStep, Discover, DiscoverFails, MarkBuckets, MarkBucketsFails, Validate, ValidateFails,
         Head, HeadFails, Record, UnmarkFound, UpdateFails, Validated, Expired, Cleanup, CleanupFails

LEMMA CallInvStep == TypeOK /\ ProcInv /\ CallInv /\ [Next]_vars => CallInv'
<1> SUFFICES ASSUME TypeOK, ProcInv, CallInv, [Next]_vars PROVE CallInv'
  OBVIOUS
<1> DEFINE Call == [pc : CallPCs, bucket : Names]
<1>0. /\ call \in [Calls -> Call] /\ Crons \subseteq Calls /\ Startup \in Calls /\ Startup \notin Crons
      /\ NoName \notin Buckets /\ proc \in ProcState /\ hist.steady \subseteq Buckets
      /\ IsBucketTable(table, Names) /\ now \in Nat
  BY ConstantsAssumption DEF TypeOK, Calls, History
<1>i. ASSUME \A c \in Calls : call'[c] = Idle PROVE CallInv'
  BY <1>0, <1>i DEF CallInv, CallSound, Idle, Rejecting
<1>w. ASSUME NEW c \in Calls
      PROVE  /\ CallSound(c)
             /\ proc.pc \notin {"scan", "serving"} => call[c] = Idle
             /\ proc.pc = "scan" /\ c # Startup => call[c] = Idle
             /\ proc.pc = "serving" /\ c = Startup => call[c] = Idle
  BY DEF CallInv, Calls
(* What suffices of the calls that go on as they were, and of the others.   *)
<1>a. ASSUME Goes, UNCHANGED proc, DOMAIN table \subseteq DOMAIN table', NEW c \in Calls,
             call'[c] = call[c]
      PROVE  CallSound(c)'
  <2>1. /\ Admitted(call[c].bucket) => SkipValidation
                                      \/ (call'[c].bucket \in hist'.steady => s3'[call'[c].bucket] = "ok")
        /\ Refused(call[c].bucket) => ~ SkipValidation
                                        /\ (call'[c].bucket \in hist'.steady => s3'[call'[c].bucket] # "ok")
    BY <1>a DEF Goes, Admitted, Refused
  <2> QED  BY <1>a, <1>w, <2>1 DEF CallSound, Admitted, Refused
<1>b. ASSUME Goes, UNCHANGED proc, DOMAIN table \subseteq DOMAIN table', NEW c \in Calls,
             call[c].pc # "idle", \A d \in Calls : d # c => call'[d] = call[d],
             \/ call'[c] = Idle
             \/ /\ call'[c].bucket = call[c].bucket /\ call'[c].pc # "idle"
                /\ call'[c].pc \in {"create", "unmark"} =>
                     Admitted(call[c].bucket) /\ (call[c].bucket = NoName => SkipValidation)
                /\ call'[c].pc \in Rejecting => call[c].bucket # NoName /\ Refused(call[c].bucket)
                /\ call'[c].pc = "unmark" => call[c].bucket \in DOMAIN table'
      PROVE  CallInv'
  <2>1. ASSUME NEW d \in Calls
        PROVE  CallSound(d)'
    <3>1. CASE d # c
      BY <1>a, <1>b, <3>1
    <3>2. CASE d = c /\ call'[c] = Idle
      BY <3>2 DEF CallSound, Idle, Rejecting
    <3>3. CASE d = c /\ call'[c] # Idle
      BY <1>b, <1>w, <3>3 DEF CallSound, Goes, Admitted, Refused
    <3> QED  BY <3>1, <3>2, <3>3
  <2>2. /\ proc'.pc \in {"scan", "serving"}
        /\ proc'.pc = "scan" => \A d \in Crons : call'[d] = Idle
        /\ proc'.pc = "serving" => call'[Startup] = Idle
    <3>1. call[c] # Idle
      BY <1>b DEF Idle
    <3> QED  BY <1>0, <1>b, <1>w, <3>1
  <2> QED  BY <2>1, <2>2 DEF CallInv
(* The initial scan.                                                        *)
<1>1. CASE UNCHANGED call /\ proc.pc \notin {"scan", "serving"}
  BY <1>1, <1>i, <1>w
<1>2. ASSUME NEW b \in Names, ScanNext(b) PROVE CallInv'
  <2>1. /\ proc.pc = "scan" /\ proc'.pc = "scan" /\ proc'.found = proc.found /\ b \in proc.found
        /\ call'[Startup].pc = "head" /\ call'[Startup].bucket = b
        /\ \A c \in Crons : call'[c] = Idle
    BY <1>0, <1>2, <1>w DEF ScanNext, ProcState, ProcInv, Calls
  <2> QED  BY <2>1 DEF CallInv, CallSound, Calls, Idle, Rejecting
<1>3. CASE Scanned
  <2>1. proc'.pc = "serving" /\ \A c \in Calls : call'[c] = Idle
    BY <1>0, <1>3, <1>w DEF Scanned, ToServing, Goto, ProcState
  <2> QED  BY <1>i, <2>1
(* ScanBucket.                                                              *)
<1>4. ASSUME NEW c \in Crons, CronFires(c) PROVE CallInv'
  <2>1. /\ proc.pc = "serving" /\ UNCHANGED <<proc, table>> /\ Goes
        /\ call'[c].pc = "head" /\ call'[c].bucket = proc.config
        /\ \A d \in Calls : d # c => call'[d] = call[d]
    BY <1>0, <1>4 DEF CronFires, Goes
  <2>2. proc.config \in proc.found \cup {NoName, proc.config}
    OBVIOUS
  <2>3. ASSUME NEW d \in Calls
        PROVE  CallSound(d)'
    <3>1. CASE d # c
      BY <1>a, <2>1, <3>1
    <3>2. CASE d = c
      BY <2>1, <2>2, <3>2 DEF CallSound, Rejecting
    <3> QED  BY <3>1, <3>2
  <2>4. proc'.pc = "serving" /\ call'[Startup] = Idle
    BY <1>0, <1>w, <2>1
  <2> QED  BY <2>3, <2>4 DEF CallInv
<1>5. ASSUME NEW c \in Calls, CallStep(c) PROVE CallInv'
  <2>1. /\ Goes /\ UNCHANGED <<s3, now, proc>> /\ call[c].pc # "idle"
        /\ \A d \in Calls : d # c => call'[d] = call[d]
        /\ DOMAIN table \subseteq DOMAIN table'
    BY <1>5, CallTouches
  <2>2. ASSUME NEW label, CallGoto(c, label)
        PROVE  call'[c].bucket = call[c].bucket /\ call'[c].pc = label
    BY <1>0, <2>2 DEF CallGoto
  <2>3. ASSUME Return(c) PROVE call'[c] = Idle
    BY <1>0, <2>3 DEF Return
  <2>4. CASE CallHead(c)
    <3>1. \/ (SkipValidation \/ Accessible(call[c].bucket)) /\ CallGoto(c, "create")
          \/ /\ ~ SkipValidation /\ ~ Accessible(call[c].bucket)
             /\ call[c].bucket # NoName /\ CallGoto(c, "reject")
          \/ Return(c)
      BY <2>4 DEF CallHead
    <3>2. CASE (SkipValidation \/ Accessible(call[c].bucket)) /\ CallGoto(c, "create")
      BY <1>0, <1>b, <2>1, <2>2, <3>2 DEF Accessible, Admitted, Rejecting
    <3>3. CASE ~ SkipValidation /\ ~ Accessible(call[c].bucket)
               /\ call[c].bucket # NoName /\ CallGoto(c, "reject")
      BY <1>0, <1>b, <2>1, <2>2, <3>3 DEF Accessible, Refused, Rejecting
    <3> QED  BY <1>b, <2>1, <2>3, <3>1, <3>2, <3>3
  <2>5. CASE CallHeadFails(c) \/ RejectError(c) \/ CreateFails(c) \/ UnmarkScanned(c) \/ CallUpdateFails(c)
    <3>1. Return(c)
      BY <2>5 DEF CallHeadFails, RejectError, CreateFails, UnmarkScanned, CallUpdateFails
    <3> QED  BY <1>b, <2>1, <2>3, <3>1
  <2>6. CASE Reject(c) \/ RejectMark(c) \/ RejectMarkFails(c)
    <3>1. call[c].pc \in Rejecting
      BY <2>6 DEF Reject, RejectMark, RejectMarkFails, Rejecting
    <3>2. CallGoto(c, "rejectmark") \/ CallGoto(c, "rejecterror")
      BY <2>6 DEF Reject, RejectMark, RejectMarkFails
    <3> QED  BY <1>b, <1>w, <2>1, <2>2, <3>1 , <3>2 DEF CallSound
  <2>7. CASE Create(c)
    <3>1. call[c].pc = "create" /\ CallGoto(c, "unmark") /\ call[c].bucket \in DOMAIN table'
      BY <1>0, <2>7 DEF Create, CreateBucket
    <3> QED  BY <1>b, <1>w, <2>1, <2>2, <3>1 DEF CallSound, Rejecting
  <2> QED  BY <1>5, <2>4, <2>5, <2>6, <2>7 DEF CallStep
(* The environment.                                                         *)
<1>6. ASSUME Goes, UNCHANGED <<proc, table, call>> PROVE CallInv'
  <2>1. ASSUME NEW d \in Calls
        PROVE  CallSound(d)'
    BY <1>a, <1>6
  <2> QED  BY <1>6, <2>1 DEF CallInv
<1>7. ASSUME NEW b \in Buckets, NEW status \in Statuses, StatusChanges(b, status) PROVE CallInv'
  BY <1>6, <1>7, StatusGoes DEF StatusChanges
<1>8. CASE Tick \/ UNCHANGED vars
  BY <1>6, <1>8 DEF Tick, vars, Goes
<1>9. CASE Kill
  BY <1>9, <1>i DEF Kill
<1>10. ASSUME NEW config \in Configs, NEW initial \in InitialScans, Start(config, initial) PROVE CallInv'
  BY <1>1, <1>10 DEF Start
<1> QED
  BY <1>1, <1>2, <1>3, <1>4, <1>5, <1>7, <1>8, <1>9, <1>10, ProcCalls DEF Next

-----------------------------------------------------------------------------
(* The rows *)

(* The initial scan makes no row; it writes one row at a time but where it  *)
(* marks them all.                                                          *)
LEMMA ProcRows ==
  ASSUME TypeOK, ProcStep
  PROVE  /\ DOMAIN table' \subseteq DOMAIN table
         /\ proc.pc # "cleanup" => DOMAIN table' = DOMAIN table
         /\ \A b \in DOMAIN table' :
              \/ proc.pc = "mark" \/ table'[b] = table[b]
              \/ proc.pc \in {"record", "unmark"} /\ b = proc.bucket
<1>0. IsBucketTable(table, Names) /\ now \in Nat
  BY ConstantsAssumption DEF TypeOK
<1>1. CASE UNCHANGED table
  BY <1>1
<1>2. CASE MarkBuckets
  BY <1>0, <1>2, MarksAll DEF MarkBuckets
<1>3. CASE Record
  BY <1>0, <1>3, RecordsError DEF Record
<1>4. CASE UnmarkFound
  BY <1>0, <1>4, UnmarksBucket DEF UnmarkFound
<1>5. CASE Cleanup
  BY <1>5 DEF Cleanup
<1> QED
  BY <1>1, <1>2, <1>3, <1>4, <1>5
     DEF ProcStep, Discover, DiscoverFails, MarkBucketsFails, Validate, ValidateFails, ScanNext,
         Head, HeadFails, UpdateFails, Validated, Expired, CleanupFails, Scanned

LEMMA NamelessStep ==
  TypeOK /\ CallInv /\ NamelessBucketHasNoRow /\ [Next]_vars => NamelessBucketHasNoRow'
<1> SUFFICES ASSUME TypeOK, CallInv, NamelessBucketHasNoRow, [Next]_vars
             PROVE  NamelessBucketHasNoRow'
  OBVIOUS
<1>0. IsBucketTable(table, Names) /\ now \in Nat
  BY ConstantsAssumption DEF TypeOK
<1>1. CASE UNCHANGED table
  BY <1>1 DEF NamelessBucketHasNoRow
<1>2. CASE ProcStep
  BY <1>2, ProcRows DEF NamelessBucketHasNoRow
<1>3. ASSUME NEW c \in Calls, CallStep(c) PROVE NamelessBucketHasNoRow'
  <2>1. CASE Create(c) \/ Reject(c)
    <3>1. call[c].bucket = NoName => SkipValidation
      BY <2>1 DEF Create, Reject, CallInv, CallSound, Rejecting
    <3>2. DOMAIN table' \subseteq DOMAIN table \cup {call[c].bucket}
      BY <1>3, CallTouches
    <3> QED  BY <3>1, <3>2 DEF NamelessBucketHasNoRow
  <2>2. CASE ~ (Create(c) \/ Reject(c))
    <3>1. table' \in {table, MarkBucket(table, call[c].bucket), UnmarkBucket(table, call[c].bucket, now),
                      UpdateAccessError(table, call[c].bucket, now)}
      BY <1>3, <2>2 DEF CallStep, CallHead, CallHeadFails, RejectMark, RejectMarkFails, RejectError,
                        CreateFails, UnmarkScanned, CallUpdateFails
    <3>2. DOMAIN table' = DOMAIN table
      BY <1>0, <3>1, MarksBucket, UnmarksBucket, RecordsError
    <3> QED  BY <3>2 DEF NamelessBucketHasNoRow
  <2> QED  BY <2>1, <2>2
<1> QED
  BY <1>1, <1>2, <1>3 DEF Next, Start, CronFires, StatusChanges, Tick, Kill, vars

(* When the table is not written and the process does not go on, only the   *)
(* clock could make a visit late.                                           *)
LEMMA VisitedStep == TypeOK /\ ProcInv /\ CallInv /\ Visited /\ [Next]_vars => Visited'
<1> SUFFICES ASSUME TypeOK, ProcInv, CallInv, Visited, [Next]_vars PROVE Visited'
  OBVIOUS
<1>0. /\ IsBucketTable(table, Names) /\ now \in Nat /\ proc \in ProcState
      /\ \A c \in Calls : call[c].pc # "idle" => proc.pc \notin Phases
  BY ConstantsAssumption DEF TypeOK, CallInv, Idle, Phases
<1>k. ASSUME Goes, UNCHANGED <<proc, table, now>> PROVE Visited'
  BY <1>k DEF Visited, Goes
<1>1. CASE ProcStep
  <2>0. Goes /\ UNCHANGED now
    BY <1>1, ProcGoes
  <2>r. \A b \in DOMAIN table' :
          \/ proc.pc = "mark" \/ table'[b] = table[b]
          \/ proc.pc \in {"record", "unmark"} /\ b = proc.bucket
    BY <1>1, ProcRows
  <2>d. DOMAIN table' \subseteq DOMAIN table
    BY <1>1, ProcRows
  <2>1. CASE proc.pc \in {"discover", "scan"}
    <3>1. proc'.pc \notin Phases
      BY <1>0, <1>1, <2>1 DEF ProcStep, Discover, DiscoverFails, MarkBuckets, MarkBucketsFails, Validate,
           ValidateFails, ScanNext, Head, HeadFails, Record, UnmarkFound, UpdateFails, Validated, Expired,
           Cleanup, CleanupFails, Scanned, ToServing, Goto, ProcState, Phases
    <3> QED  BY <3>1 DEF Visited
  <2>2. CASE MarkBuckets \/ MarkBucketsFails
    <3>1. proc'.pc \notin Phases \/ (proc'.found = proc.found /\ proc'.todo = proc.found)
      BY <1>0, <2>2 DEF MarkBuckets, MarkBucketsFails, ToScan, ToServing, Goto, ProcInv, ProcState, Phases
    <3> QED  BY <3>1 DEF Visited
  <2>3. ASSUME NEW b \in Names, Validate(b) PROVE Visited'
    <3>1. /\ proc.pc = "validate" /\ UNCHANGED <<table, hist>> /\ proc'.found = proc.found
          /\ proc'.todo = proc.todo \ {b}
          /\ b \notin DOMAIN table \/ (proc'.pc \in {"head", "unmark"} /\ proc'.bucket = b)
      BY <1>0, <2>3 DEF Validate, ProcState
    <3> QED  BY <2>0, <3>1 DEF Visited, Phases
  <2>4. CASE (\E b \in Names : ValidateFails(b)) \/ UpdateFails
    <3>1. hist'.struck \cap {"get", "update"} # {}
      BY <2>4, Strikes DEF ValidateFails, UpdateFails
    <3> QED  BY <3>1 DEF Visited
  <2>5. CASE Head \/ HeadFails
    <3>1. /\ proc.pc = "head" /\ UNCHANGED table /\ proc'.found = proc.found /\ proc'.todo = proc.todo
          /\ proc'.bucket = proc.bucket /\ proc'.pc \in {"head", "record", "unmark"}
      BY <1>0, <2>5 DEF Head, HeadFails, Retry, Goto, ProcState
    <3> QED  BY <2>0, <3>1 DEF Visited, Phases, Goes
  <2>6. CASE Record \/ UnmarkFound
    <3>1. /\ proc.pc \in {"record", "unmark"} /\ UNCHANGED hist
          /\ proc'.found = proc.found /\ proc'.todo = proc.todo
      BY <1>0, <2>6 DEF Record, UnmarkFound, NextBucket, ProcState
    <3>2. DOMAIN table' = DOMAIN table
          /\ \A b \in DOMAIN table : IF b = proc.bucket THEN table'[b].last = now ELSE table'[b] = table[b]
      <4>1. CASE Record
        BY <1>0, <4>1, RecordsError DEF Record
      <4>2. CASE UnmarkFound
        BY <1>0, <4>2, UnmarksBucket DEF UnmarkFound
      <4> QED  BY <2>6, <4>1, <4>2
    <3> QED  BY <2>0, <3>1, <3>2 DEF Visited, Phases
  <2>7. CASE Validated \/ Expired \/ Cleanup \/ CleanupFails
    <3>1. /\ proc.pc \in {"validate", "expired", "cleanup"}
          /\ proc'.pc = "scan" \/ (proc'.found = proc.found /\ proc'.todo = proc.todo)
      BY <1>0, <2>7 DEF Validated, Expired, Cleanup, CleanupFails, ToScan, Goto, ProcState
    <3> QED  BY <2>0, <2>r, <2>d, <3>1 DEF Visited, Phases, Goes
  <2> QED
    BY <1>1, <2>1, <2>2, <2>3, <2>4, <2>5, <2>6, <2>7
       DEF ProcStep, Discover, DiscoverFails, ScanNext, Scanned
<1>2. ASSUME NEW c \in Calls, CallStep(c) PROVE Visited'
  BY <1>0, <1>2, CallTouches DEF Visited
<1>3. ASSUME NEW c \in Crons, CronFires(c) PROVE Visited'
  BY <1>3, <1>k DEF CronFires, Goes
<1>4. ASSUME NEW b \in Buckets, NEW status \in Statuses, StatusChanges(b, status) PROVE Visited'
  BY <1>4, <1>k, StatusGoes DEF StatusChanges
<1>5. CASE Tick
  BY <1>5 DEF Tick, Visited, Phases
<1>6. CASE Kill \/ \E config \in Configs, initial \in InitialScans : Start(config, initial)
  BY <1>6, Restarts DEF Visited, Phases
<1>7. CASE UNCHANGED vars
  BY <1>7, <1>k DEF vars, Goes
<1> QED
  BY <1>1, <1>2, <1>3, <1>4, <1>5, <1>6, <1>7 DEF Next

LEMMA UnmarkedStep == TypeOK /\ ProcInv /\ CallInv /\ Unmarked /\ [Next]_vars => Unmarked'
<1> SUFFICES ASSUME TypeOK, ProcInv, CallInv, Unmarked, [Next]_vars PROVE Unmarked'
  OBVIOUS
<1>0. /\ IsBucketTable(table, Names) /\ now \in Nat /\ proc \in ProcState
      /\ hist.steady \subseteq Buckets
      /\ \A c \in Calls : call[c].pc # "idle" => proc.pc \notin Phases
  BY ConstantsAssumption DEF TypeOK, CallInv, Idle, Phases, History
<1>a. ASSUME Goes, NEW b \in hist'.steady
      PROVE  Welcome(b)' <=> Welcome(b)
  BY <1>a DEF Goes, Welcome, Accessible
<1>k. ASSUME Goes, UNCHANGED <<proc, table>> PROVE Unmarked'
  BY <1>a, <1>k DEF Unmarked, Goes
<1>1. CASE ProcStep
  <2>0. Goes
    BY <1>1, ProcGoes
  <2>r. /\ \A b \in DOMAIN table' :
             \/ proc.pc = "mark" \/ table'[b] = table[b]
             \/ proc.pc \in {"record", "unmark"} /\ b = proc.bucket
        /\ DOMAIN table' \subseteq DOMAIN table
    BY <1>1, ProcRows
  <2>1. CASE proc.pc \in {"discover", "scan"}
    <3>1. proc'.pc \notin Phases
      BY <1>0, <1>1, <2>1 DEF ProcStep, Discover, DiscoverFails, MarkBuckets, MarkBucketsFails, Validate,
           ValidateFails, ScanNext, Head, HeadFails, Record, UnmarkFound, UpdateFails, Validated, Expired,
           Cleanup, CleanupFails, Scanned, ToServing, Goto, ProcState, Phases
    <3> QED  BY <3>1 DEF Unmarked
  <2>2. CASE MarkBuckets \/ MarkBucketsFails
    <3>1. proc'.pc \notin Phases \/ (proc'.found = proc.found /\ proc'.todo = proc.found)
      BY <1>0, <2>2 DEF MarkBuckets, MarkBucketsFails, ToScan, ToServing, Goto, ProcInv, ProcState, Phases
    <3> QED  BY <3>1 DEF Unmarked
  <2>3. ASSUME NEW b \in Names, Validate(b) PROVE Unmarked'
    <3>1. /\ proc.pc = "validate" /\ UNCHANGED <<table, hist>> /\ proc'.found = proc.found
          /\ proc'.todo = proc.todo \ {b}
          /\ b \notin DOMAIN table \/ (proc'.pc \in {"head", "unmark"} /\ proc'.bucket = b)
      BY <1>0, <2>3 DEF Validate, ProcState
    <3> QED  BY <1>a, <2>0, <3>1 DEF Unmarked, Phases
  <2>4. CASE (\E b \in Names : ValidateFails(b)) \/ UpdateFails \/ HeadFails
    <3>1. hist'.struck \cap {"get", "update", "head"} # {}
      BY <2>4, Strikes DEF ValidateFails, UpdateFails, HeadFails
    <3> QED  BY <3>1 DEF Unmarked
  <2>5. CASE Head
    <3>1. /\ proc.pc = "head" /\ UNCHANGED <<s3, table, hist>> /\ proc'.found = proc.found
          /\ proc'.todo = proc.todo /\ proc'.bucket = proc.bucket
          /\ \/ proc'.pc \in {"head", "unmark"}
             \/ proc'.pc = "record" /\ ~ Accessible(proc.bucket) /\ ~ SkipValidation
      BY <1>0, <2>5 DEF Head, Retry, Goto, ProcState, ProcInv
    <3> QED  BY <1>a, <2>0, <3>1 DEF Unmarked, Phases, Welcome
  <2>6. CASE Record
    <3>1. /\ proc.pc = "record" /\ UNCHANGED hist
          /\ proc'.found = proc.found /\ proc'.todo = proc.todo
      BY <1>0, <2>6 DEF Record, NextBucket, ProcState
    <3>2. DOMAIN table' = DOMAIN table
          /\ \A b \in DOMAIN table : table'[b].marked = table[b].marked
      BY <1>0, <2>6, RecordsError DEF Record
    <3> QED  BY <1>a, <2>0, <3>1, <3>2 DEF Unmarked, Phases
  <2>7. CASE UnmarkFound
    <3>1. /\ proc.pc = "unmark" /\ UNCHANGED hist
          /\ proc'.found = proc.found /\ proc'.todo = proc.todo
      BY <1>0, <2>7 DEF UnmarkFound, NextBucket, ProcState
    <3>2. DOMAIN table' = DOMAIN table
          /\ \A b \in DOMAIN table : IF b = proc.bucket THEN ~ table'[b].marked ELSE table'[b] = table[b]
      BY <1>0, <2>7, UnmarksBucket DEF UnmarkFound
    <3> QED  BY <1>a, <2>0, <3>1, <3>2 DEF Unmarked, Phases
  <2>8. CASE Validated \/ Expired \/ Cleanup \/ CleanupFails
    <3>1. /\ proc.pc \in {"validate", "expired", "cleanup"}
          /\ proc'.pc = "scan" \/ (proc'.found = proc.found /\ proc'.todo = proc.todo)
      BY <1>0, <2>8 DEF Validated, Expired, Cleanup, CleanupFails, ToScan, Goto, ProcState
    <3> QED  BY <1>a, <2>0, <2>r, <3>1 DEF Unmarked, Phases, Goes
  <2> QED
    BY <1>1, <2>1, <2>2, <2>3, <2>4, <2>5, <2>6, <2>7, <2>8
       DEF ProcStep, Discover, DiscoverFails, ScanNext, Scanned
<1>2. ASSUME NEW c \in Calls, CallStep(c) PROVE Unmarked'
  BY <1>0, <1>2, CallTouches DEF Unmarked
<1>3. ASSUME NEW c \in Crons, CronFires(c) PROVE Unmarked'
  BY <1>3, <1>k DEF CronFires, Goes
<1>4. ASSUME NEW b \in Buckets, NEW status \in Statuses, StatusChanges(b, status) PROVE Unmarked'
  BY <1>4, <1>k, StatusGoes DEF StatusChanges
<1>5. CASE Kill \/ \E config \in Configs, initial \in InitialScans : Start(config, initial)
  BY <1>5, Restarts DEF Unmarked, Phases
<1>6. CASE Tick \/ UNCHANGED vars
  BY <1>6, <1>k DEF Tick, vars, Goes
<1> QED
  BY <1>1, <1>2, <1>3, <1>4, <1>5, <1>6 DEF Next

-----------------------------------------------------------------------------
(* The rows of the buckets that were not found *)

LEMMA ProcFound ==
  ASSUME TypeOK, ProcStep, proc.pc # "discover"
  PROVE  proc.pc \in Phases \cup {"mark", "scan"} /\ proc'.found = proc.found
<1>1. proc \in ProcState
  BY DEF TypeOK
<1>2. /\ proc.pc \in Phases \cup {"mark", "scan"}
      /\ \/ ToScan \/ NextBucket \/ Retry \/ \E label : Goto(label)
         \/ \E b : proc' = [proc EXCEPT !.todo = @ \ {b}]
         \/ \E b, label : proc' = [proc EXCEPT !.todo = @ \ {b}, !.bucket = b, !.pc = label]
  BY DEF ProcStep, Discover, DiscoverFails, MarkBuckets, MarkBucketsFails, Validate, ValidateFails,
         ScanNext, Head, HeadFails, Record, UnmarkFound, UpdateFails, Validated, Expired, Cleanup,
         CleanupFails, Scanned, ToServing, Phases
<1>3. proc'.found = proc.found
  BY <1>1, <1>2 DEF ToScan, NextBucket, Retry, Goto, ProcState
<1> QED  BY <1>2, <1>3

LEMMA LostStep == TypeOK /\ ProcInv /\ CallInv /\ LostInv /\ [Next]_vars => LostInv'
<1> DEFINE Marked == /\ SyncEnable /\ "mark" \notin hist.struck
                     /\ \/ proc.pc \in Phases \cup {"scan"}
                        \/ proc.pc = "serving" /\ proc.initial /\ "discover" \notin hist.struck
<1> SUFFICES ASSUME TypeOK, ProcInv, CallInv, LostInv, [Next]_vars, Marked',
                    NEW b \in DOMAIN table' \ proc'.found, b # NoName \/ proc'.pc # "serving"
             PROVE  table'[b].marked
  BY DEF LostInv
<1>0. IsBucketTable(table, Names) /\ now \in Nat /\ proc \in ProcState
  BY ConstantsAssumption DEF TypeOK
<1>k. ASSUME Goes, UNCHANGED <<proc, table>> PROVE table'[b].marked
  <2>1. Marked
    BY <1>k DEF Goes
  <2> QED  BY <1>k, <2>1 DEF LostInv
<1>1. CASE ProcStep
  <2>1. Goes
    BY <1>1, ProcGoes
  <2>2. CASE proc.pc = "discover"
    <3>1. (proc'.pc = "serving" /\ "discover" \in hist'.struck) \/ proc'.pc = "mark" \/ ~ SyncEnable
      <4>1. Discover \/ DiscoverFails
        BY <1>1, <2>2
           DEF ProcStep, MarkBuckets, MarkBucketsFails, Validate, ValidateFails, ScanNext, Head, HeadFails,
               Record, UnmarkFound, UpdateFails, Validated, Expired, Cleanup, CleanupFails, Scanned
      <4>2. CASE Discover
        BY <1>0, <4>2 DEF Discover, ProcState
      <4>3. CASE DiscoverFails
        BY <1>0, <4>3, Strikes DEF DiscoverFails, ToServing, Goto, ProcState
      <4> QED  BY <4>1, <4>2, <4>3
    <3> QED  BY <3>1 DEF Phases
  <2>3. CASE proc.pc = "mark"
    <3>1. MarkBuckets \/ MarkBucketsFails
      BY <1>1, <2>3 DEF ProcStep, Discover, DiscoverFails, Validate, ValidateFails, ScanNext, Head,
           HeadFails, Record, UnmarkFound, UpdateFails, Validated, Expired, Cleanup, CleanupFails, Scanned
    <3>2. CASE MarkBuckets
      BY <1>0, <3>2, MarksAll DEF MarkBuckets
    <3>3. CASE MarkBucketsFails
      BY <3>3, Strikes DEF MarkBucketsFails
    <3> QED  BY <3>1, <3>2, <3>3
  <2>4. CASE proc.pc \notin {"discover", "mark"}
    <3>1. proc.pc \in Phases \cup {"scan"} /\ proc'.found = proc.found
      BY <1>1, <2>4, ProcFound
    <3>2. b \in DOMAIN table \ proc.found /\ table'[b] = table[b]
      BY <1>1, <2>4, <3>1, ProcRows DEF ProcInv
    <3>3. Marked /\ proc.pc # "serving"
      BY <2>1, <3>1 DEF Goes, Phases
    <3> QED  BY <3>2, <3>3 DEF LostInv
  <2> QED  BY <2>2, <2>3, <2>4
<1>2. ASSUME NEW c \in Calls, CallStep(c) PROVE table'[b].marked
  <2>1. /\ UNCHANGED proc /\ hist.struck \subseteq hist'.struck /\ call[c].pc # "idle"
        /\ DOMAIN table' \subseteq DOMAIN table \cup {call[c].bucket}
        /\ \A x \in DOMAIN table : x # call[c].bucket => table'[x] = table[x]
    BY <1>2, CallTouches DEF Goes
  <2>2. b # call[c].bucket
    <3>1. CallSound(c) /\ proc.pc \in {"scan", "serving"}
      BY <2>1 DEF CallInv, Idle
    <3>2. proc.config \in proc.found \cup {NoName} \/ (proc.pc = "serving" /\ ~ proc.initial)
      BY <3>1 DEF ProcInv
    <3> QED  BY <2>1, <3>1, <3>2 DEF CallSound, Phases
  <2>3. Marked
    BY <2>1
  <2> QED  BY <2>1, <2>2, <2>3 DEF LostInv
<1>3. ASSUME NEW c \in Crons, CronFires(c) PROVE table'[b].marked
  BY <1>3, <1>k DEF CronFires, Goes
<1>4. ASSUME NEW x \in Buckets, NEW status \in Statuses, StatusChanges(x, status) PROVE table'[b].marked
  BY <1>4, <1>k, StatusGoes DEF StatusChanges
<1>5. CASE Kill \/ \E config \in Configs, initial \in InitialScans : Start(config, initial)
  BY <1>5, Restarts DEF Phases
<1>6. CASE Tick \/ UNCHANGED vars
  BY <1>6, <1>k DEF Tick, vars, Goes
<1> QED
  BY <1>1, <1>2, <1>3, <1>4, <1>5, <1>6 DEF Next

LEMMA VanishedStep ==
  TypeOK /\ CallInv /\ LostInv /\ VanishedBucketsExpire /\ [Next]_vars => VanishedBucketsExpire'
<1> SUFFICES ASSUME TypeOK, CallInv, LostInv, VanishedBucketsExpire, [Next]_vars,
                    proc'.pc = "scan", SyncEnable, hist'.struck \cap {"mark", "cleanup"} = {},
                    NEW b \in DOMAIN table' \ proc'.found
             PROVE  table'[b].last >= now' - DeleteThreshold
                    \/ table'[b].created >= now' - DeleteThreshold
  BY DEF VanishedBucketsExpire
<1> DEFINE Recent == table'[b].last >= now' - DeleteThreshold
                     \/ table'[b].created >= now' - DeleteThreshold
<1>0. /\ IsBucketTable(table, Names) /\ now \in Nat /\ proc \in ProcState
      /\ DeleteThreshold \in Nat
  BY ConstantsAssumption DEF TypeOK
<1>k. ASSUME Goes, UNCHANGED <<proc, table, now>> PROVE Recent
  BY <1>k DEF VanishedBucketsExpire, Goes
<1>1. CASE ProcStep
  <2>1. Goes /\ UNCHANGED now
    BY <1>1, ProcGoes
  <2>2. CASE Expired \/ Cleanup
    <3>1. /\ proc.pc \in Phases /\ proc'.found = proc.found /\ UNCHANGED hist
          /\ b \in DOMAIN table \ BucketsToDelete(table, now, DeleteThreshold)
          /\ table'[b] = table[b]
      <4>1. CASE Expired
        <5>1. BucketsToDelete(table, now, DeleteThreshold) = {}
          BY <1>0, <4>1 DEF Expired, Goto, ProcState
        <5> QED  BY <1>0, <4>1, <5>1 DEF Expired, ToScan, ProcState, Phases
      <4>2. CASE Cleanup
        BY <1>0, <4>2 DEF Cleanup, ToScan, ProcState, Phases
      <4> QED  BY <2>2, <4>1, <4>2
    <3>2. table[b].marked
      BY <3>1 DEF LostInv, Phases
    <3>3. table[b] \in BucketRow
      BY <1>0, <3>1 DEF IsBucketTable
    <3> QED  BY <1>0, <2>1, <3>1, <3>2, <3>3 DEF BucketsToDelete, BucketRow, Never
  <2>3. CASE \E x \in Names : ScanNext(x)
    <3>1. proc.pc = "scan" /\ proc'.found = proc.found /\ UNCHANGED table
      BY <1>0, <2>3 DEF ScanNext, ProcState
    <3> QED  BY <2>1, <3>1 DEF VanishedBucketsExpire, Goes
  <2>4. CASE MarkBucketsFails \/ CleanupFails
    BY <2>4, Strikes DEF MarkBucketsFails, CleanupFails
  <2>5. CASE ~ (Expired \/ Cleanup \/ MarkBucketsFails \/ CleanupFails \/ \E x \in Names : ScanNext(x))
    BY <1>0, <1>1, <2>5
       DEF ProcStep, Discover, DiscoverFails, MarkBuckets, Validate, ValidateFails, Head, HeadFails,
           Record, UnmarkFound, UpdateFails, Validated, Scanned, ToServing, Goto, Retry, NextBucket,
           ProcState
  <2> QED  BY <2>2, <2>3, <2>4, <2>5
<1>2. ASSUME NEW c \in Calls, CallStep(c) PROVE Recent
  <2>1. /\ UNCHANGED <<now, proc>> /\ hist.struck \subseteq hist'.struck /\ call[c].pc # "idle"
        /\ DOMAIN table' \subseteq DOMAIN table \cup {call[c].bucket}
        /\ \A x \in DOMAIN table : x # call[c].bucket => table'[x] = table[x]
    BY <1>2, CallTouches DEF Goes
  <2>2. call[c].bucket \in proc.found
    BY <2>1 DEF CallInv, CallSound
  <2> QED  BY <2>1, <2>2 DEF VanishedBucketsExpire
<1>3. ASSUME NEW c \in Crons, CronFires(c) PROVE Recent
  BY <1>3, <1>k DEF CronFires, Goes
<1>4. ASSUME NEW x \in Buckets, NEW status \in Statuses, StatusChanges(x, status) PROVE Recent
  BY <1>4, <1>k, StatusGoes DEF StatusChanges
<1>5. CASE (Kill \/ \E config \in Configs, initial \in InitialScans : Start(config, initial)) \/ Tick
  BY <1>5, Restarts DEF Tick
<1>6. CASE UNCHANGED vars
  BY <1>6, <1>k DEF vars, Goes
<1> QED
  BY <1>1, <1>2, <1>3, <1>4, <1>5, <1>6 DEF Next

-----------------------------------------------------------------------------
(* The rows of the buckets without access, and of those with *)

(* Where no failure strikes a call takes one of these steps.                *)
LEMMA SoundCall ==
  ASSUME NEW c \in Calls, CallStep(c), hist'.struck = {}, TypeOK
  PROVE  \/ CallHead(c) \/ Reject(c) \/ RejectMark(c) \/ RejectError(c)
         \/ Create(c) \/ UnmarkScanned(c)
<1>1. ASSUME NEW kind, Struck(kind) PROVE FALSE
  BY <1>1, Strikes
<1> QED  BY <1>1 DEF CallStep, CallHeadFails, RejectMarkFails, CreateFails, CallUpdateFails

LEMMA DeniedStep == TypeOK /\ ProcInv /\ CallInv /\ DeniedInv /\ [Next]_vars => DeniedInv'
<1> DEFINE Marked == /\ proc.pc \in Phases \cup {"scan"} \/ (proc.pc = "serving" /\ proc.initial)
                     /\ SyncEnable /\ hist.struck = {}
<1> SUFFICES ASSUME TypeOK, ProcInv, CallInv, DeniedInv, [Next]_vars, Marked',
                    NEW b \in hist'.steady, ~ SkipValidation, s3'[b] # "ok", b \in DOMAIN table'
             PROVE  \/ table'[b].marked
                    \/ \E c \in Calls : call'[c].bucket = b /\ call'[c].pc = "rejectmark"
  BY DEF DeniedInv, Hidden
<1> DEFINE Goal == \/ table'[b].marked
                   \/ \E c \in Calls : call'[c].bucket = b /\ call'[c].pc = "rejectmark"
<1>0. /\ IsBucketTable(table, Names) /\ now \in Nat /\ proc \in ProcState
      /\ call \in [Calls -> [pc : CallPCs, bucket : Names]] /\ Startup \in Calls
  BY ConstantsAssumption DEF TypeOK, Calls
(* What is hidden stays hidden when only other rows and calls change.       *)
<1>h. ASSUME Goes, Marked, b \in DOMAIN table, table'[b].marked = table[b].marked,
             \A c \in Calls : call[c].pc = "rejectmark" => call'[c] = call[c]
      PROVE  Goal
  <2>1. b \in hist.steady /\ s3[b] # "ok"
    BY <1>h DEF Goes
  <2>2. Hidden(b)
    BY <1>h, <2>1 DEF DeniedInv
  <2> QED  BY <1>h, <2>2 DEF Hidden
<1>k. ASSUME Goes, UNCHANGED <<proc, table, call>> PROVE Goal
  <2>1. Marked
    BY <1>k DEF Goes
  <2> QED  BY <1>h, <1>k, <2>1
<1>1. CASE ProcStep
  <2>1. Goes
    BY <1>1, ProcGoes
  <2>2. CASE proc.pc = "discover"
    <3>1. hist'.struck # {} \/ proc'.pc = "mark" \/ ~ SyncEnable
      BY <1>0, <1>1, <2>2, Strikes
         DEF ProcStep, Discover, DiscoverFails, MarkBuckets, MarkBucketsFails, Validate, ValidateFails,
             ScanNext, Head, HeadFails, Record, UnmarkFound, UpdateFails, Validated, Expired, Cleanup,
             CleanupFails, Scanned, ProcState
    <3> QED  BY <3>1 DEF Phases
  <2>3. CASE proc.pc = "mark"
    <3>1. MarkBuckets \/ MarkBucketsFails
      BY <1>1, <2>3 DEF ProcStep, Discover, DiscoverFails, Validate, ValidateFails, ScanNext, Head,
           HeadFails, Record, UnmarkFound, UpdateFails, Validated, Expired, Cleanup, CleanupFails, Scanned
    <3>2. CASE MarkBuckets
      BY <1>0, <3>2, MarksAll DEF MarkBuckets
    <3>3. CASE MarkBucketsFails
      BY <3>3, Strikes DEF MarkBucketsFails
    <3> QED  BY <3>1, <3>2, <3>3
  <2>4. CASE proc.pc \notin {"discover", "mark"}
    <3>1. Marked
      BY <1>1, <2>1, <2>4, ProcFound DEF Goes
    <3>2. b \in DOMAIN table
      BY <1>1, ProcRows
    <3>3. \A c \in Calls : call[c].pc = "rejectmark" => call'[c] = call[c]
      <4>1. CASE UNCHANGED call
        BY <4>1
      <4>2. ASSUME NEW x \in Names, ScanNext(x)
            PROVE  \A c \in Calls : call[c].pc = "rejectmark" => call'[c] = call[c]
        BY <1>0, <4>2 DEF ScanNext, Idle
      <4> QED  BY <1>1, <4>1, <4>2, ProcCalls DEF Scanned
    <3>4. table'[b].marked = table[b].marked
      <4>1. CASE table'[b] = table[b]
        BY <4>1
      <4>2. CASE Record
        BY <1>0, <3>2, <4>2, RecordsError DEF Record
      <4>3. CASE UnmarkFound
        <5>1. b # proc.bucket
          BY <2>1, <4>3 DEF UnmarkFound, ProcInv, Admitted, Goes
        <5> QED  BY <1>1, <4>3, <5>1, ProcRows DEF UnmarkFound
      <4>4. CASE ~ Record /\ ~ UnmarkFound /\ table'[b] # table[b]
        <5>1. proc.pc \in {"record", "unmark"} /\ table' # table
          BY <1>1, <2>4, <4>4, ProcRows
        <5> QED
          BY <1>1, <4>4, <5>1
             DEF ProcStep, Discover, DiscoverFails, MarkBuckets, MarkBucketsFails, Validate,
                 ValidateFails, ScanNext, Head, HeadFails, UpdateFails, Validated, Expired, Cleanup,
                 CleanupFails, Scanned
      <4> QED  BY <4>1, <4>2, <4>3, <4>4
    <3> QED  BY <1>h, <2>1, <3>1, <3>2, <3>3, <3>4
  <2> QED  BY <2>2, <2>3, <2>4
<1>2. ASSUME NEW c \in Calls, CallStep(c) PROVE Goal
  <2>1. /\ Goes /\ UNCHANGED <<s3, proc>> /\ hist'.steady = hist.steady
        /\ DOMAIN table' \subseteq DOMAIN table \cup {call[c].bucket}
        /\ \A d \in Calls : d # c => call'[d] = call[d]
        /\ \A x \in DOMAIN table : x # call[c].bucket => table'[x] = table[x]
    BY <1>2, CallTouches
  <2>2. Marked
    BY <2>1 DEF Goes
  <2>h. Hidden(b)
    BY <2>1, <2>2 DEF DeniedInv
  <2>3. CASE b # call[c].bucket
    BY <2>1, <2>3, <2>h DEF Hidden
  <2>4. CASE b = call[c].bucket
    <3>0. CallSound(c)
      BY DEF CallInv
    <3>1. ~ Admitted(b)
      BY <2>1 DEF Admitted
    <3>2. CASE CallHead(c)
      BY <1>h, <2>1, <2>2, <3>2 DEF CallHead
    <3>3. CASE Reject(c)
      <4>1. CASE b \in DOMAIN table
        <5>1. table'[b] = table[b]
          BY <1>0, <3>3, <4>1 DEF Reject, CreateBucket
        <5> QED  BY <1>h, <2>1, <2>2, <3>3, <4>1, <5>1 DEF Reject
      <4>2. CASE b \notin DOMAIN table
        <5>1. call'[c].bucket = b /\ call'[c].pc = "rejectmark"
          BY <1>0, <2>4, <3>3 DEF Reject, CallGoto
        <5> QED  BY <5>1
      <4> QED  BY <4>1, <4>2
    <3>4. CASE RejectMark(c)
      BY <1>0, <2>4, <3>4, MarksBucket DEF RejectMark
    <3>5. CASE RejectError(c)
      <4>1. b \in DOMAIN table /\ table'[b].marked = table[b].marked
        BY <1>0, <2>4, <3>5, RecordsError DEF RejectError
      <4> QED  BY <1>h, <2>1, <2>2, <3>5, <4>1 DEF RejectError
    <3>6. CASE Create(c) \/ UnmarkScanned(c)
      BY <2>4, <3>0, <3>1, <3>6 DEF Create, UnmarkScanned, CallSound
    <3> QED  BY <1>2, <3>2, <3>3, <3>4, <3>5, <3>6, SoundCall
  <2> QED  BY <2>3, <2>4
<1>3. ASSUME NEW c \in Crons, CronFires(c) PROVE Goal
  <2>1. Goes /\ UNCHANGED <<proc, table>>
        /\ \A d \in Calls : call[d].pc = "rejectmark" => call'[d] = call[d]
    BY <1>0, <1>3 DEF CronFires, Goes, Idle
  <2> QED  BY <1>h, <2>1 DEF Goes
<1>4. ASSUME NEW x \in Buckets, NEW status \in Statuses, StatusChanges(x, status) PROVE Goal
  BY <1>4, <1>k, StatusGoes DEF StatusChanges
<1>5. CASE Kill \/ \E config \in Configs, initial \in InitialScans : Start(config, initial)
  BY <1>5, Restarts DEF Phases
<1>6. CASE Tick \/ UNCHANGED vars
  BY <1>6, <1>k DEF Tick, vars, Goes
<1> QED
  BY <1>1, <1>2, <1>3, <1>4, <1>5, <1>6 DEF Next

(* The initial scan turns to the scans with all buckets to do, and from     *)
(* them to serving with none.                                               *)
LEMMA TurnsToScan ==
  ASSUME TypeOK, ProcStep, hist'.struck = {}
  PROVE  \/ proc'.pc \notin {"scan", "serving"}
         \/ proc'.pc = "scan" /\ proc'.todo = proc'.found
         \/ \E b \in Names : ScanNext(b)
         \/ Scanned
<1>0. proc \in ProcState
  BY DEF TypeOK
<1>1. ASSUME NEW kind, Struck(kind) PROVE FALSE
  BY <1>1, Strikes
<1>2. CASE Discover
  BY <1>0, <1>2 DEF Discover, ProcState
<1>3. CASE Expired \/ Cleanup
  BY <1>0, <1>3 DEF Expired, Cleanup, ToScan, Goto, ProcState
<1>4. CASE Head
  BY <1>0, <1>4 DEF Head, Goto, Retry, ProcState
<1>5. CASE \E b \in Names : Validate(b)
  BY <1>0, <1>5 DEF Validate, ProcState
<1>6. CASE MarkBuckets \/ Record \/ UnmarkFound \/ Validated
  BY <1>0, <1>6 DEF MarkBuckets, Record, UnmarkFound, Validated, Goto, NextBucket, ProcState
<1> QED
  BY <1>1, <1>2, <1>3, <1>4, <1>5, <1>6
     DEF ProcStep, DiscoverFails, MarkBucketsFails, ValidateFails, HeadFails, UpdateFails, CleanupFails

LEMMA ScansStep == TypeOK /\ ProcInv /\ CallInv /\ ScansInv /\ [Next]_vars => ScansInv'
<1> DEFINE At(b) == \/ ShownRow(b)
                    \/ proc.pc = "scan" /\ b \in proc.todo
                    \/ proc.pc = "scan" /\ call[Startup].bucket = b
<1> SUFFICES ASSUME TypeOK, ProcInv, CallInv, ScansInv, [Next]_vars,
                    proc'.pc \in {"scan", "serving"}, hist'.struck = {},
                    NEW b \in proc'.found \cap hist'.steady, SkipValidation \/ s3'[b] = "ok"
             PROVE  At(b)'
  BY DEF ScansInv
<1>0. /\ IsBucketTable(table, Names) /\ now \in Nat /\ proc \in ProcState
      /\ call \in [Calls -> [pc : CallPCs, bucket : Names]] /\ Startup \in Calls
      /\ hist.steady \subseteq Buckets /\ NoName \notin Buckets
  BY ConstantsAssumption DEF TypeOK, Calls, History
<1>b. ASSUME Goes, UNCHANGED <<proc>>
      PROVE  /\ b \in proc.found \cap hist.steady /\ (SkipValidation \/ s3[b] = "ok")
             /\ At(b) /\ b # NoName
  BY <1>0, <1>b DEF ScansInv, Goes
<1>k. ASSUME Goes, UNCHANGED <<proc, table>>, call'[Startup] = call[Startup] PROVE At(b)'
  BY <1>b, <1>k DEF ShownRow
<1>1. CASE ProcStep
  <2>1. Goes /\ hist'.steady = hist.steady /\ UNCHANGED s3
    BY <1>1, ProcGoes
  <2>2. CASE proc'.pc = "scan" /\ proc'.todo = proc'.found
    BY <2>2
  <2>3. ASSUME NEW x \in Names, ScanNext(x) PROVE At(b)'
    <3>1. /\ proc.pc = "scan" /\ proc'.pc = "scan" /\ proc'.todo = proc.todo \ {x} /\ UNCHANGED table
          /\ proc'.found = proc.found /\ call[Startup].bucket = NoName /\ call'[Startup].bucket = x
      BY <1>0, <2>3 DEF ScanNext, ProcState, Idle
    <3>2. At(b) /\ b # NoName
      BY <1>0, <2>1, <3>1 DEF ScansInv, Goes
    <3> QED  BY <3>1, <3>2 DEF ShownRow
  <2>4. CASE Scanned
    <3>1. /\ proc.pc = "scan" /\ proc.todo = {} /\ UNCHANGED table
          /\ proc'.found = proc.found /\ call[Startup].bucket = NoName
      BY <1>0, <2>4 DEF Scanned, ToServing, Goto, ProcState, Idle
    <3>2. At(b) /\ b # NoName
      BY <1>0, <2>1, <3>1 DEF ScansInv, Goes
    <3> QED  BY <3>1, <3>2 DEF ShownRow
  <2> QED  BY <1>1, <2>2, <2>3, <2>4, TurnsToScan
<1>2. ASSUME NEW c \in Calls, CallStep(c) PROVE At(b)'
  <2>1. /\ Goes /\ UNCHANGED <<s3, proc>> /\ hist'.steady = hist.steady
        /\ DOMAIN table \subseteq DOMAIN table'
        /\ \A d \in Calls : d # c => call'[d] = call[d]
        /\ \A x \in DOMAIN table : x # call[c].bucket => table'[x] = table[x]
    BY <1>2, CallTouches
  <2>2. /\ b \in hist.steady /\ (SkipValidation \/ s3[b] = "ok") /\ At(b) /\ b # NoName
        /\ b \in Buckets
    BY <1>0, <1>b, <2>1
  <2>3. CASE b # call[c].bucket
    BY <1>0, <2>1, <2>2, <2>3 DEF ShownRow
  <2>4. CASE b = call[c].bucket
    <3>0. CallSound(c)
      BY DEF CallInv
    <3>1. ~ Refused(b) /\ (SkipValidation \/ Accessible(b))
      BY <2>2 DEF Refused, Accessible
    <3>2. call[c].pc \notin Rejecting
      BY <2>4, <3>0, <3>1 DEF CallSound
    <3>3. CASE CallHead(c)
      <4>1. UNCHANGED table /\ CallGoto(c, "create")
        BY <2>4, <3>1, <3>3 DEF CallHead
      <4>2. call'[c].bucket = b
        BY <1>0, <2>4, <4>1 DEF CallGoto
      <4> QED  BY <1>0, <2>1, <2>2, <2>4, <4>1, <4>2 DEF ShownRow
    <3>4. CASE Create(c)
      <4>1. call'[c].bucket = b
        BY <1>0, <2>4, <3>4 DEF Create, CallGoto
      <4>2. \A x \in DOMAIN table : table'[x] = table[x]
        BY <1>0, <3>4 DEF Create, CreateBucket
      <4> QED  BY <1>0, <2>1, <2>2, <2>4, <4>1, <4>2 DEF ShownRow
    <3>5. CASE UnmarkScanned(c)
      <4>1. b \in DOMAIN table
        BY <2>4, <3>0, <3>5 DEF CallSound, UnmarkScanned
      <4> QED  BY <1>0, <2>4, <3>5, <4>1, UnmarksBucket DEF UnmarkScanned, ShownRow
    <3> QED
      BY <1>2, <3>2, <3>3, <3>4, <3>5, SoundCall DEF Reject, RejectMark, RejectError, Rejecting
  <2> QED  BY <2>3, <2>4
<1>3. ASSUME NEW c \in Crons, CronFires(c) PROVE At(b)'
  <2>1. Goes /\ UNCHANGED <<proc, table>> /\ call'[Startup] = call[Startup]
    BY <1>0, <1>3, ConstantsAssumption DEF CronFires, Goes
  <2> QED  BY <1>k, <2>1
<1>4. ASSUME NEW x \in Buckets, NEW status \in Statuses, StatusChanges(x, status) PROVE At(b)'
  BY <1>4, <1>k, StatusGoes DEF StatusChanges
<1>5. CASE Kill \/ \E config \in Configs, initial \in InitialScans : Start(config, initial)
  BY <1>5, Restarts
<1>6. CASE Tick \/ UNCHANGED vars
  BY <1>6, <1>k DEF Tick, vars, Goes
<1> QED
  BY <1>1, <1>2, <1>3, <1>4, <1>5, <1>6 DEF Next

-----------------------------------------------------------------------------
(* The theorems *)

LEMMA InvInit == Init => Inv
<1> SUFFICES ASSUME Init PROVE Inv
  OBVIOUS
<1>1. proc.pc = "down" /\ DOMAIN table = {} /\ \A c \in Calls : call[c] = Idle
  BY DEF Init, Down, NoBuckets
<1>2. CallInv
  BY <1>1 DEF CallInv, CallSound, Idle, Rejecting
<1> QED
  BY <1>1, <1>2, TypeInit, ProcInit
     DEF Inv, Visited, Unmarked, LostInv, DeniedInv, VanishedBucketsExpire, ScansInv, NamelessBucketHasNoRow, Phases

LEMMA InvStep == Inv /\ [Next]_vars => Inv'
  BY TypeStep, ProcInvStep, CallInvStep, NamelessStep, VisitedStep, UnmarkedStep, LostStep, VanishedStep, DeniedStep,
     ScansStep DEF Inv

LEMMA InvHolds == Spec => []Inv
  BY InvInit, InvStep, PTL DEF Spec

(* The variables keep their types: no counter of attempts passes its limit, *)
(* and the table never holds but well-formed rows.                          *)
THEOREM TypeCorrect == Spec => []TypeOK
<1>1. Inv => TypeOK
  BY DEF Inv
<1> QED  BY <1>1, InvHolds, PTL

(* With validation no call ever makes a row for the empty bucket name that  *)
(* cron scans where no bucket is configured.                                *)
THEOREM NamelessHasNoRow == Spec => []NamelessBucketHasNoRow
<1>1. Inv => NamelessBucketHasNoRow
  BY DEF Inv
<1> QED  BY <1>1, InvHolds, PTL

LEMMA CleanupSparesFound ==
  ASSUME Inv, Cleanup, hist.struck \cap {"get", "update"} = {},
         DeleteThreshold = 0 => "head" \notin hist.struck,
         NEW b \in proc.found \cap hist.steady \cap DOMAIN table, Welcome(b)
  PROVE  b \in DOMAIN table'
<1>1. now \in Nat /\ DeleteThreshold \in Nat /\ proc.pc = "cleanup" /\ proc.todo = {}
  BY ConstantsAssumption DEF Inv, TypeOK, ProcInv, Cleanup
<1>2. CASE DeleteThreshold > 0
  <2>1. table[b].last = now
    BY <1>1 DEF Inv, Visited, Phases
  <2>2. b \notin BucketsToDelete(table, now, DeleteThreshold)
    BY <1>1, <1>2, <2>1 DEF BucketsToDelete, Never
  <2> QED  BY <2>2 DEF Cleanup
<1>3. CASE DeleteThreshold = 0
  <2>1. hist.struck \cap {"get", "update", "head"} = {}
    BY <1>3
  <2>2. ~ table[b].marked
    BY <1>1, <2>1 DEF Inv, Unmarked, Phases
  <2> QED  BY <2>2 DEF Cleanup, BucketsToDelete
<1> QED  BY <1>1, <1>2, <1>3

(* When the cleanup of expired buckets comes every found bucket has been    *)
(* visited within the hour: none of their rows is past a threshold of an    *)
(* hour or more, whatever the answers were, and with a smaller threshold    *)
(* those the program has access to have lost their mark.                    *)
THEOREM FoundSurvive == Spec => FoundBucketsSurvive
<1>1. Inv => [Cleanup /\ hist.struck \cap {"get", "update"} = {}
                      /\ (DeleteThreshold = 0 => "head" \notin hist.struck)
                => \A b \in proc.found \cap hist.steady \cap DOMAIN table :
                     Welcome(b) => b \in DOMAIN table']_vars
  BY CleanupSparesFound
<1> QED  BY <1>1, InvHolds, PTL DEF FoundBucketsSurvive

(* After the marking only scans of found buckets take a mark away, so that  *)
(* the cleanup sees the mark of every other bucket and deletes by age.      *)
THEOREM VanishedExpire == Spec => []VanishedBucketsExpire
<1>1. Inv => VanishedBucketsExpire
  BY DEF Inv
<1> QED  BY <1>1, InvHolds, PTL

(* The list of buckets shows the found ones the program has access to and   *)
(* no other, although marking, validation and scans each write the rows     *)
(* from what they saw of S3 at a time of their own.                         *)
THEOREM ListShows == Spec => []ListShowsAccessibleBuckets
<1>1. Inv => ListShowsAccessibleBuckets
  <2> SUFFICES ASSUME Inv, proc.pc = "serving", proc.initial, hist.struck = {}, SyncEnable,
                      NEW b \in Buckets \ {call[c].bucket : c \in Calls}
               PROVE  IF b \in proc.found
                      THEN b \in hist.steady => (b \in Shown <=> Welcome(b))
                      ELSE b \notin Shown
    BY DEF ListShowsAccessibleBuckets
  <2>1. b # NoName /\ \A c \in Calls : call[c].bucket # b
    BY ConstantsAssumption
  <2>2. CASE b \notin proc.found
    BY <2>1, <2>2 DEF Inv, LostInv, Shown, ListAccessible
  <2>3. CASE b \in proc.found /\ b \in hist.steady /\ Welcome(b)
    <3>1. ShownRow(b)
      BY <2>3 DEF Inv, ScansInv, Welcome, Accessible
    <3> QED  BY <2>3, <3>1 DEF ShownRow, Shown, ListAccessible
  <2>4. CASE b \in proc.found /\ b \in hist.steady /\ ~ Welcome(b)
    <3>1. Hidden(b)
      BY <2>4 DEF Inv, DeniedInv, Welcome, Accessible
    <3> QED  BY <2>1, <2>4, <3>1 DEF Hidden, Shown, ListAccessible
  <2> QED  BY <2>2, <2>3, <2>4
<1> QED  BY <1>1, InvHolds, PTL

-----------------------------------------------------------------------------
(* Which buckets a start finds *)

(* A start without a configured bucket has found every bucket the program   *)
(* has had access to since.                                                 *)
FindsInv ==
  proc.pc \in Phases \cup {"mark"} /\ proc.config = NoName =>
    \A b \in hist.steady : s3[b] = "ok" => b \in proc.found

(* No bucket is configured.                                                 *)
Unconfigured == proc.config = NoName

LEMMA ProcConfig ==
  ASSUME TypeOK, ProcStep
  PROVE  proc'.config = proc.config /\ (proc.pc = "scan" => proc'.pc \in {"scan", "serving"})
<1>1. proc \in ProcState
  BY DEF TypeOK
<1>2. \/ ToScan \/ NextBucket \/ Retry \/ \E label : Goto(label)
      \/ \E b : proc' = [proc EXCEPT !.todo = @ \ {b}]
      \/ \E b, label : proc' = [proc EXCEPT !.todo = @ \ {b}, !.bucket = b, !.pc = label]
      \/ \E found, label : proc' = [proc EXCEPT !.found = found, !.todo = found, !.pc = label]
  BY DEF ProcStep, Discover, DiscoverFails, MarkBuckets, MarkBucketsFails, Validate, ValidateFails,
         ScanNext, Head, HeadFails, Record, UnmarkFound, UpdateFails, Validated, Expired, Cleanup,
         CleanupFails, Scanned, ToServing
<1>3. proc'.config = proc.config
  BY <1>1, <1>2 DEF ToScan, NextBucket, Retry, Goto, ProcState
<1>4. ASSUME proc.pc = "scan" PROVE proc'.pc \in {"scan", "serving"}
  <2>1. Scanned \/ \E b \in Names : ScanNext(b)
    BY <1>4 DEF ProcStep, Discover, DiscoverFails, MarkBuckets, MarkBucketsFails, Validate,
         ValidateFails, Head, HeadFails, Record, UnmarkFound, UpdateFails, Validated, Expired, Cleanup,
         CleanupFails
  <2> QED  BY <1>1, <1>4, <2>1 DEF Scanned, ScanNext, ToServing, Goto, ProcState
<1> QED  BY <1>3, <1>4

LEMMA FindsStep == TypeOK /\ FindsInv /\ [Next]_vars => FindsInv'
<1> SUFFICES ASSUME TypeOK, FindsInv, [Next]_vars,
                    proc'.pc \in Phases \cup {"mark"}, proc'.config = NoName,
                    NEW b \in hist'.steady, s3'[b] = "ok"
             PROVE  b \in proc'.found
  BY DEF FindsInv
<1>0. proc \in ProcState /\ hist \in History
  BY DEF TypeOK
<1>k. ASSUME Goes, proc'.found = proc.found, proc'.config = proc.config,
             proc.pc \in Phases \cup {"mark"}
      PROVE  b \in proc'.found
  BY <1>k DEF Goes, FindsInv
<1>1. CASE ProcStep
  <2>1. Goes /\ UNCHANGED s3 /\ hist'.steady = hist.steady /\ proc'.config = proc.config
    BY <1>1, ProcGoes, ProcConfig
  <2>2. CASE proc.pc = "discover"
    <3>1. Discover \/ DiscoverFails
      BY <1>1, <2>2
         DEF ProcStep, MarkBuckets, MarkBucketsFails, Validate, ValidateFails, ScanNext, Head, HeadFails,
             Record, UnmarkFound, UpdateFails, Validated, Expired, Cleanup, CleanupFails, Scanned
    <3>2. CASE Discover
      <4>1. proc'.found = {x \in Buckets : s3[x] # "missing"}
        BY <1>0, <2>1, <3>2 DEF Discover, ProcState
      <4> QED  BY <1>0, <2>1, <4>1 DEF History
    <3>3. CASE DiscoverFails
      BY <1>0, <3>3 DEF DiscoverFails, ToServing, Goto, ProcState, Phases
    <3> QED  BY <3>1, <3>2, <3>3
  <2>3. CASE proc.pc # "discover"
    <3>1. proc.pc \in Phases \cup {"mark", "scan"} /\ proc'.found = proc.found
      BY <1>1, <2>3, ProcFound
    <3>2. proc.pc # "scan"
      BY <1>1, ProcConfig DEF Phases
    <3> QED  BY <1>k, <2>1, <3>1, <3>2
  <2> QED  BY <2>2, <2>3
<1>2. ASSUME Goes, UNCHANGED proc PROVE b \in proc'.found
  BY <1>k, <1>2
<1>3. ASSUME NEW c \in Calls, CallStep(c) PROVE b \in proc'.found
  BY <1>2, <1>3, CallTouches
<1>4. ASSUME NEW c \in Crons, CronFires(c) PROVE b \in proc'.found
  BY <1>2, <1>4 DEF CronFires, Goes
<1>5. ASSUME NEW x \in Buckets, NEW status \in Statuses, StatusChanges(x, status)
      PROVE  b \in proc'.found
  BY <1>2, <1>5, StatusGoes DEF StatusChanges
<1>6. CASE Kill \/ \E config \in Configs, initial \in InitialScans : Start(config, initial)
  BY <1>6, Restarts DEF Phases
<1>7. CASE Tick \/ UNCHANGED vars
  BY <1>2, <1>7 DEF Tick, vars, Goes
<1> QED  BY <1>1, <1>3, <1>4, <1>5, <1>6, <1>7 DEF Next

(* Nothing strikes but what may.                                            *)
FaultsInv == hist.struck \subseteq Faults

LEMMA FaultsStep == TypeOK /\ FaultsInv /\ [Next]_vars => FaultsInv'
<1> SUFFICES ASSUME TypeOK, FaultsInv, [Next]_vars PROVE FaultsInv'
  OBVIOUS
<1>0. hist \in History
  BY DEF TypeOK
<1>1. ASSUME NEW kind, Struck(kind) PROVE FaultsInv'
  BY <1>1, Strikes DEF FaultsInv, Struck
<1>2. CASE UNCHANGED hist
  BY <1>2 DEF FaultsInv
<1>3. CASE ProcStep
  BY <1>1, <1>2, <1>3
     DEF ProcStep, Discover, DiscoverFails, MarkBuckets, MarkBucketsFails, Validate, ValidateFails,
         ScanNext, Head, HeadFails, Record, UnmarkFound, UpdateFails, Validated, Expired, Cleanup,
         CleanupFails, Scanned
<1>4. ASSUME NEW c \in Calls, CallStep(c) PROVE FaultsInv'
  BY <1>1, <1>2, <1>4 DEF CallStep, CallHead, CallHeadFails, Reject, RejectMark, RejectMarkFails,
     RejectError, Create, CreateFails, UnmarkScanned, CallUpdateFails
<1>5. ASSUME NEW b \in Buckets, NEW status \in Statuses, StatusChanges(b, status) PROVE FaultsInv'
  BY <1>5, StatusGoes DEF FaultsInv
<1>6. ASSUME NEW config \in Configs, NEW initial \in InitialScans, Start(config, initial)
      PROVE  FaultsInv'
  BY <1>0, <1>6 DEF Start, FaultsInv, History
<1>7. CASE Kill
  BY <1>0, <1>7 DEF Kill, FaultsInv, History
<1> QED
  BY <1>2, <1>3, <1>4, <1>5, <1>6, <1>7 DEF Next, CronFires, Tick, vars

(* What the example configuration says of the cleanup does hold of an       *)
(* installation that never configures a single bucket, as long as the       *)
(* queries on the buckets' rows work and, with a threshold of less than an  *)
(* hour, HeadBucket does: whatever else fails.                              *)
THEOREM DiscoverySpares ==
  ASSUME Configs \subseteq {NoName}, Faults \cap {"get", "update"} = {},
         DeleteThreshold = 0 => "head" \notin Faults
  PROVE  Spec => OnlyInaccessibleBucketsAreDeleted
<1>1. Init => FindsInv /\ Unconfigured /\ FaultsInv
  BY DEF Init, Down, FindsInv, Phases, Unconfigured, FaultsInv
<1>2. TypeOK /\ Unconfigured /\ [Next]_vars => Unconfigured'
  <2> SUFFICES ASSUME TypeOK, proc.config = NoName, [Next]_vars PROVE proc'.config = NoName
    BY DEF Unconfigured
  <2>1. CASE ProcStep
    BY <2>1, ProcConfig
  <2>2. ASSUME NEW config \in Configs, NEW initial \in InitialScans, Start(config, initial) PROVE proc'.config = NoName
    BY <2>2 DEF Start, Down
  <2>3. CASE Kill
    BY <2>3 DEF Kill, Down
  <2>4. ASSUME NEW c \in Calls, CallStep(c) PROVE proc'.config = NoName
    BY <2>4, CallTouches
  <2> QED  BY <2>1, <2>2, <2>3, <2>4 DEF Next, CronFires, StatusChanges, Tick, vars
<1>3. Inv /\ FindsInv /\ Unconfigured /\ FaultsInv =>
        [Cleanup =>
           \A b \in DOMAIN table \cap hist.steady : s3[b] = "ok" => b \in DOMAIN table']_vars
  <2> SUFFICES ASSUME Inv, FindsInv, proc.config = NoName, FaultsInv, Cleanup,
                      NEW b \in DOMAIN table \cap hist.steady, s3[b] = "ok"
               PROVE  b \in DOMAIN table'
    BY DEF Unconfigured
  <2>1. b \in proc.found
    BY DEF FindsInv, Cleanup, Phases
  <2>2. Welcome(b)
    BY DEF Inv, TypeOK, History, Welcome, Accessible
  <2>3. hist.struck \cap {"get", "update"} = {} /\ (DeleteThreshold = 0 => "head" \notin hist.struck)
    BY DEF FaultsInv
  <2> QED  BY <2>1, <2>2, <2>3, CleanupSparesFound
<1>4. Inv => TypeOK
  BY DEF Inv
<1> QED
  BY <1>1, <1>2, <1>3, <1>4, FindsStep, FaultsStep, InvHolds, PTL DEF Spec, OnlyInaccessibleBucketsAreDeleted
=============================================================================
