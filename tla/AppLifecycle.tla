----------------------------- MODULE AppLifecycle -----------------------------
(***************************************************************************)
(* The life of the process (s3xplorer.go, pkg/dbinit, pkg/app/app.go,       *)
(* pkg/scheduler): connecting to the database with retries, or going on     *)
(* without it (degraded mode); the web server, the initial scan and cron,   *)
(* which run beside main; the requests they serve; the signal that ends it  *)
(* all, whenever it comes.  The monitor of the database is HealthMonitor's. *)
(***************************************************************************)
EXTENDS HealthMonitor, FiniteSets

CONSTANTS
  MaxRetries,      \* retries of the connection (3 in InitializeDatabase)
  InitialScan,     \* cfg.Scan.EnableInitialScan
  BackgroundScan,  \* cfg.Scan.EnableBackgroundScan
  CronParses,      \* whether cron's parser takes cfg.Scan.CronSchedule
  Pages,           \* browsers that ask for pages made from the database
  Probes,          \* clients that ask for /health
  Transfers,       \* clients that download, restore, upload or delete objects
  MaxJobs          \* bound of the scans of cron that run at once

ASSUME ConstantsAssumption ==
  /\ {MaxRetries, MaxJobs} \subseteq Nat
  /\ {InitialScan, BackgroundScan, CronParses} \subseteq BOOLEAN
  /\ Pages \cap Probes = {} /\ Transfers \cap (Pages \cup Probes) = {}

VARIABLES
  main,  \* the goroutine of main
  srv,   \* the web server and its goroutine
  bg,    \* the goroutine of the initial scan
  cron,  \* the scheduler
  req,   \* the requests
  hist   \* what the properties remember

vars == <<db, inUse, mon, main, srv, bg, cron, req, hist>>

Clients == Pages \cup Probes \cup Transfers

MainPCs == {"s3", "migrate", "open", "backoff", "app", "firstcheck", "spawn", "wait",
            "stopcron", "stopmonitor", "shutdown", "drain", "close", "exit"}

(* signalled: ctx is done; conn: the database handle, "none" in degraded    *)
(* mode; s3: whether the App has an S3 client.                              *)
MainState == [pc : MainPCs, attempt : 0 .. MaxRetries, signalled : BOOLEAN,
              conn : {"none", "open", "closed"}, s3 : BOOLEAN]

(* "none", "spawned": s.srv is still the placeholder of NewApp; closing:    *)
(* Shutdown has been called on the server that listens, or will.            *)
ServerState == [pc : {"none", "spawned", "made", "listening", "failed", "closed"},
                closing : BOOLEAN]

BackgroundPCs == {"none", "initial", "scheduler", "done"}

(* running: cron's loop; jobs: the scans it has started and not finished.   *)
CronState == [running : BOOLEAN, jobs : 0 .. MaxJobs]

RequestPCs == {"idle", "handler", "transfer", "conn", "query", "done"}
Answers == {"none", "200", "503", "dropped"}

RequestState == [pc : RequestPCs, answer : Answers]

(* served: the signal came while the server listened; rests: scheduler.Stop *)
(* found the background goroutine at its end, or there is none.             *)
History == [served : BOOLEAN, rests : BOOLEAN]

TypeOK ==
  /\ db \in DatabaseStates /\ inUse \in 0 .. MaxOpenConns /\ mon \in MonitorState
  /\ main \in MainState /\ srv \in ServerState /\ bg \in BackgroundPCs
  /\ cron \in CronState /\ req \in [Clients -> RequestState] /\ hist \in History
  /\ inUse = Cardinality({r \in Clients : req[r].pc = "query"})

Alive == main.pc # "exit"
Degraded == main.conn = "none"
InFlight == {r \in Clients : req[r].pc \in {"handler", "transfer", "conn", "query"}}
Goto(label) == main' = [main EXCEPT !.pc = label]

----------------------------------------------------------------------------
(* Main: initInfrastructure *)

Rest == <<db, inUse, mon, srv, bg, cron, req, hist>>

InitS3Client ==
  /\ main.pc = "s3"
  /\ main' = [main EXCEPT !.pc = "migrate", !.s3 = TRUE]
  /\ UNCHANGED Rest

(* The infrastructure is given up as a whole: the S3 client, too.           *)
GiveUp == main' = [main EXCEPT !.pc = "app", !.attempt = 0, !.s3 = FALSE]

InitS3ClientFails ==
  /\ main.pc = "s3" /\ GiveUp
  /\ UNCHANGED Rest

(* Mutant: nobody counts.                                                   *)
AttemptFails_Forever == Goto("backoff")

AttemptFails ==
  IF main.attempt < MaxRetries
  THEN main' = [main EXCEPT !.pc = "backoff", !.attempt = @ + 1]
  ELSE GiveUp

(* dbmate is given no context and no timeout: while the database hangs, so  *)
(* does main.  It fails when the database refuses, but also for the address *)
(* in the configuration or an error in the migrations.                      *)
Migrate ==
  /\ main.pc = "migrate"
  /\ \/ db = "up" /\ Goto("open")
     \/ db # "hangs" /\ AttemptFails
  /\ UNCHANGED Rest

(* The ping runs under ctx, with no timeout.  Before it, a duration of the  *)
(* configuration that does not parse is an error, too.                      *)
OpenAndTest ==
  /\ main.pc = "open"
  /\ \/ /\ db = "up" /\ ~ main.signalled
        /\ main' = [main EXCEPT !.pc = "app", !.attempt = 0, !.conn = "open"]
     \/ (db # "hangs" \/ main.signalled) /\ AttemptFails
  /\ UNCHANGED Rest

(* The select takes either, once both are there.                            *)
Backoff ==
  /\ main.pc = "backoff"
  /\ Goto("migrate") \/ (main.signalled /\ GiveUp)
  /\ UNCHANGED Rest

Initialize ==
  InitS3Client \/ InitS3ClientFails \/ Migrate \/ OpenAndTest \/ Backoff

----------------------------------------------------------------------------
(* Main: NewApp and the goroutines *)

NewApp ==
  /\ main.pc = "app"
  /\ IF Degraded THEN Goto("spawn") /\ UNCHANGED mon
     ELSE Goto("firstcheck") /\ StartMonitor
  /\ UNCHANGED <<db, inUse, srv, bg, cron, req, hist>>

FirstCheckDone ==
  /\ main.pc = "firstcheck" /\ mon.pc # "first"
  /\ Goto("spawn")
  /\ UNCHANGED Rest

(* Mutant: cron starts together with the initial scan.                      *)
SpawnGoroutines_CronAtOnce ==
  /\ main.pc = "spawn"
  /\ Goto("wait")
  /\ srv' = [srv EXCEPT !.pc = "spawned"]
  /\ bg' = IF Degraded THEN bg ELSE IF InitialScan THEN "initial" ELSE "scheduler"
  /\ cron' = [cron EXCEPT !.running = ~ Degraded /\ BackgroundScan]
  /\ UNCHANGED <<db, inUse, mon, req, hist>>

(* The web server's goroutine and, with a database, that of the initial     *)
(* scan and of the scheduler's start.                                       *)
SpawnGoroutines ==
  /\ main.pc = "spawn"
  /\ Goto("wait")
  /\ srv' = [srv EXCEPT !.pc = "spawned"]
  /\ bg' = IF Degraded THEN bg ELSE IF InitialScan THEN "initial" ELSE "scheduler"
  /\ UNCHANGED <<db, inUse, mon, cron, req, hist>>

----------------------------------------------------------------------------
(* Main: the end *)

CtxDone ==
  /\ main.pc = "wait" /\ main.signalled
  /\ Goto("stopcron")
  /\ UNCHANGED Rest

(* Mutant: Stop waits for the scans that run.                               *)
StopScheduler_Waits ==
  /\ main.pc = "stopcron" /\ cron.jobs = 0
  /\ Goto("stopmonitor")
  /\ cron' = [cron EXCEPT !.running = FALSE]
  /\ hist' = [hist EXCEPT !.rests = bg \in {"none", "done"}]
  /\ UNCHANGED <<db, inUse, mon, srv, bg, req>>

(* Mutant: the stop forgets cron.                                           *)
StopScheduler_Skips ==
  /\ main.pc = "stopcron"
  /\ Goto("stopmonitor")
  /\ hist' = [hist EXCEPT !.rests = bg \in {"none", "done"}]
  /\ UNCHANGED <<db, inUse, mon, srv, bg, cron, req>>

(* scheduler.Stop, if there is a scheduler; cron's scans run on.            *)
StopScheduler ==
  /\ main.pc = "stopcron"
  /\ Goto("stopmonitor")
  /\ cron' = [cron EXCEPT !.running = FALSE]
  /\ hist' = [hist EXCEPT !.rests = bg \in {"none", "done"}]
  /\ UNCHANGED <<db, inUse, mon, srv, bg, req>>

StopServerMonitor ==
  /\ main.pc = "stopmonitor"
  /\ Goto("shutdown")
  /\ IF Degraded THEN UNCHANGED mon ELSE StopMonitor
  /\ UNCHANGED <<db, inUse, srv, bg, cron, req, hist>>

(* Shutdown of the server s.srv points to at this moment.  The placeholder  *)
(* has no connections: its Shutdown returns at once.                        *)
Shutdown ==
  /\ main.pc = "shutdown"
  /\ IF srv.pc = "spawned" THEN Goto("close") /\ UNCHANGED srv
     ELSE /\ Goto("drain")
          /\ srv' = [srv EXCEPT !.closing = TRUE,
                       !.pc = IF @ = "listening" THEN "closed" ELSE @]
  /\ UNCHANGED <<db, inUse, mon, bg, cron, req, hist>>

(* Mutant: the connections are closed instead.                              *)
Drain_Closes ==
  /\ main.pc = "drain"
  /\ Goto("close")
  /\ UNCHANGED Rest

(* Shutdown returns when no request is left, however long that takes.       *)
Drain ==
  /\ main.pc = "drain" /\ InFlight = {}
  /\ Goto("close")
  /\ UNCHANGED Rest

(* The deferred Close, if there is a connection; main returns.              *)
CloseDatabase ==
  /\ main.pc = "close"
  /\ main' = [main EXCEPT !.pc = "exit", !.conn = IF Degraded THEN @ ELSE "closed"]
  /\ UNCHANGED Rest

MainStep ==
  \/ Initialize \/ NewApp \/ FirstCheckDone \/ SpawnGoroutines \/ CtxDone
  \/ StopScheduler \/ StopServerMonitor \/ Shutdown \/ Drain \/ CloseDatabase

----------------------------------------------------------------------------
(* The web server's goroutine: startWebServer *)

NewServer ==
  /\ srv.pc = "spawned"
  /\ srv' = [srv EXCEPT !.pc = "made"]

(* The port may be taken: the error is logged, and the process goes on.     *)
ListenAndServe ==
  /\ srv.pc = "made"
  /\ \/ ~ srv.closing /\ srv' = [srv EXCEPT !.pc = "listening"]
     \/ ~ srv.closing /\ srv' = [srv EXCEPT !.pc = "failed"]
     \/ srv.closing /\ srv' = [srv EXCEPT !.pc = "closed"]

ServerStep ==
  /\ NewServer \/ ListenAndServe
  /\ UNCHANGED <<db, inUse, mon, main, bg, cron, req, hist>>

----------------------------------------------------------------------------
(* The initial scan's goroutine, and cron *)

(* performInitialScan returns, whatever came of it.                         *)
InitialScanReturns ==
  /\ bg = "initial"
  /\ bg' = "scheduler"
  /\ UNCHANGED cron

(* scheduler.Start; a schedule that cron does not take is an error in the   *)
(* log.                                                                     *)
StartScheduler ==
  /\ bg = "scheduler"
  /\ bg' = "done"
  /\ cron' = [cron EXCEPT !.running = @ \/ (BackgroundScan /\ CronParses)]

CronFires ==
  /\ cron.running /\ cron.jobs < MaxJobs
  /\ cron' = [cron EXCEPT !.jobs = @ + 1]
  /\ UNCHANGED bg

JobReturns ==
  /\ cron.jobs > 0
  /\ cron' = [cron EXCEPT !.jobs = @ - 1]
  /\ UNCHANGED bg

BackgroundStep ==
  /\ InitialScanReturns \/ StartScheduler \/ CronFires \/ JobReturns
  /\ UNCHANGED <<db, inUse, mon, main, srv, req, hist>>

----------------------------------------------------------------------------
(* The requests *)

Answer(r, answer) == req' = [req EXCEPT ![r] = [pc |-> "done", answer |-> answer]]

Arrive(r) ==
  /\ srv.pc = "listening" /\ req[r].pc \in {"idle", "done"}
  /\ req' = [req EXCEPT ![r] = [pc |-> IF r \in Transfers THEN "transfer" ELSE "handler",
                                answer |-> "none"]]
  /\ UNCHANGED inUse

(* Mutant: no guard, as in UploadHandler and DeleteHandler.                 *)
PageGuard_Unguarded(r) ==
  /\ r \in Pages /\ req[r].pc = "handler"
  /\ IF Degraded THEN Answer(r, "dropped") ELSE req' = [req EXCEPT ![r].pc = "conn"]
  /\ UNCHANGED inUse

(* IndexBucket, SearchHandler and BucketListingHandler: no service, or the  *)
(* monitor says no: the page of the unavailable database.                   *)
PageGuard(r) ==
  /\ r \in Pages /\ req[r].pc = "handler"
  /\ \/ Degraded /\ Answer(r, "503")
     \/ /\ ~ Degraded /\ ~ Locked
        /\ IF IsHealthy THEN req' = [req EXCEPT ![r].pc = "conn"] ELSE Answer(r, "503")
  /\ UNCHANGED inUse

(* Its queries, one after the other, on connections of the pool.            *)
TakeConn(r) ==
  /\ req[r].pc = "conn" /\ FreeConn
  /\ req' = [req EXCEPT ![r].pc = "query"]
  /\ inUse' = inUse + 1

(* Mutant of QueryEnds: an error keeps its connection.                      *)
QueryEnds_Leaks(r) ==
  /\ req[r].pc = "query" /\ db # "hangs"
  /\ Answer(r, "200")
  /\ inUse' = IF db = "up" THEN inUse - 1 ELSE inUse

(* The page, or that of an error, which has the same status.                *)
QueryEnds(r) ==
  /\ req[r].pc = "query" /\ db # "hangs"
  /\ Answer(r, "200")
  /\ inUse' = inUse - 1

(* Queries and S3 calls run under the request's context, and what is read   *)
(* from the client or written to it fails.                                  *)
ClientLeaves(r) ==
  /\ req[r].pc \in {"transfer", "conn", "query"}
  /\ req' = [req EXCEPT ![r].pc = "idle"]
  /\ inUse' = IF req[r].pc = "query" THEN inUse - 1 ELSE inUse

(* HealthCheckHandler and DatabaseHealthHandler.                            *)
HealthCheck(r) ==
  /\ r \in Probes /\ req[r].pc = "handler" /\ ~ Locked
  /\ Answer(r, HealthCheckCode)
  /\ UNCHANGED inUse

DatabaseHealthPage(r) ==
  /\ r \in Probes /\ req[r].pc = "handler" /\ ~ Locked
  /\ Answer(r, DatabaseHealthCode)
  /\ UNCHANGED inUse

(* DownloadFile, RestoreHandler, UploadHandler and DeleteHandler: a form or *)
(* an object that comes from the client, a call of S3, an object that goes  *)
(* to the client, each of which may take any time.  Their parameters may be *)
(* refused; then they use the S3 client, or the service on top of it,       *)
(* unasked: without one they panic, and net/http drops the connection and   *)
(* goes on.  Uploads and deletions are then synchronized with the database, *)
(* whatever the monitor says.                                               *)
TransferEnds(r) ==
  /\ req[r].pc = "transfer"
  /\ \/ Answer(r, "200")
     \/ ~ main.s3 /\ Answer(r, "dropped")
     \/ main.s3 /\ req' = [req EXCEPT ![r].pc = "conn"]
  /\ UNCHANGED inUse

ReadMonitor(r) == PageGuard(r) \/ HealthCheck(r) \/ DatabaseHealthPage(r)

Handle(r) ==
  /\ ReadMonitor(r) \/ TakeConn(r) \/ QueryEnds(r)
  /\ UNCHANGED <<db, mon, main, srv, bg, cron, hist>>

RequestStep ==
  \E r \in Clients :
    \/ Handle(r)
    \/ /\ Arrive(r) \/ TransferEnds(r) \/ ClientLeaves(r)
       /\ UNCHANGED <<db, mon, main, srv, bg, cron, hist>>

----------------------------------------------------------------------------
(* The environment *)

DatabaseChanges ==
  /\ \E state \in DatabaseStates \ {db} : db' = state
  /\ UNCHANGED <<inUse, mon, main, srv, bg, cron, req, hist>>

(* SIGINT or SIGTERM cancels ctx, at the first time; later ones are taken   *)
(* and not read.                                                            *)
Signal ==
  /\ ~ main.signalled
  /\ main' = [main EXCEPT !.signalled = TRUE]
  /\ hist' = [hist EXCEPT !.served = srv.pc = "listening"]
  /\ UNCHANGED <<db, inUse, mon, srv, bg, cron, req>>

----------------------------------------------------------------------------
(* The specification *)

Init ==
  /\ db \in DatabaseStates /\ inUse = 0 /\ mon = NoMonitor
  /\ main = [pc |-> "s3", attempt |-> 0, signalled |-> FALSE, conn |-> "none", s3 |-> FALSE]
  /\ srv = [pc |-> "none", closing |-> FALSE]
  /\ bg = "none" /\ cron = [running |-> FALSE, jobs |-> 0]
  /\ req = [r \in Clients |-> [pc |-> "idle", answer |-> "none"]]
  /\ hist = [served |-> FALSE, rests |-> FALSE]

(* With the process, all its goroutines end.                                *)
Next ==
  /\ Alive
  /\ \/ MainStep
     \/ MonitorStep /\ UNCHANGED <<main, srv, bg, cron, req, hist>>
     \/ ServerStep
     \/ BackgroundStep
     \/ RequestStep
     \/ DatabaseChanges
     \/ Signal

(* Main, the server's goroutine, the monitor and each handler run on when   *)
(* they can; RWMutex lets a waiting reader in before the next writer.       *)
(* Nobody has to send a signal, to ask for a page or to leave it; scans may *)
(* run for ever, and so may transfers: neither the server nor the calls of  *)
(* S3 have a deadline.                                                      *)
Fairness ==
  /\ WF_vars(Alive /\ MainStep) /\ WF_vars(Alive /\ ServerStep)
  /\ WF_vars(Alive /\ MonitorStep /\ UNCHANGED <<main, srv, bg, cron, req, hist>>)
  /\ \A r \in Clients :
       /\ WF_vars(Alive /\ Handle(r))
       /\ SF_vars(Alive /\ ReadMonitor(r) /\ UNCHANGED <<db, mon, main, srv, bg, cron, hist>>)

Spec == Init /\ [][Next]_vars
FairSpec == Spec /\ Fairness

----------------------------------------------------------------------------
(* Properties *)

(* A signal that finds the server listening ends the process gracefully:    *)
(* when the database is closed and main returns, every request that had     *)
(* begun has been answered.                                                 *)
RequestsAreDrained ==
  main.pc \in {"close", "exit"} /\ hist.served => InFlight = {}

(* No scan of cron runs beside the initial scan of the same process.        *)
InitialScanRunsAlone == bg = "initial" => cron.jobs = 0

(* After scheduler.Stop cron starts no scan, unless the goroutine of the    *)
(* initial scan had yet to start the scheduler: it does so after the Stop.  *)
StoppedSchedulerRests ==
  [][cron'.jobs > cron.jobs => ~ hist.rests]_vars

(* While the server listens, nobody reads a status that has never been      *)
(* checked.                                                                 *)
StatusKnownWhenServing ==
  srv.pc = "listening" /\ ~ Degraded => mon.status # "unknown"

(* Without a database no page and no probe is lost in a panic, though there *)
(* is no service and no monitor they could ask: the answer to a page is the *)
(* one of the unavailable database.                                         *)
PagesOutliveTheDatabase ==
  \A r \in Pages \cup Probes :
    /\ req[r].answer # "dropped"
    /\ r \in Pages /\ Degraded /\ req[r].pc = "done" => req[r].answer = "503"

(* Main gets as far as the web server, or ends, unless the database keeps   *)
(* hanging in the migrations.                                               *)
StartupEnds == <>[](db # "hangs") => <>(main.pc \in {"wait", "exit"})

TransferUnderWay == \E r \in Transfers : req[r].pc = "transfer"

(* A signal ends the process, whatever it meets, unless the database hangs  *)
(* time and again, or Shutdown waits for transfers for ever.                *)
SignalEndsProcess ==
  <>[](db # "hangs" /\ ~ (main.pc = "drain" /\ TransferUnderWay))
    => (main.signalled ~> main.pc = "exit")

(* /health answers, though the database hangs while the status is checked,  *)
(* unless the process ends.                                                 *)
ProbesAreAnswered ==
  \A r \in Probes : req[r].pc = "handler" ~> req[r].pc = "done" \/ ~ Alive

Monitored == Alive /\ mon.pc # "none" /\ ~ mon.cancelled

(* The monitor follows the database: once it is up for good, and has a      *)
(* connection to spare, the status is healthy for good; once it is gone for *)
(* good, unhealthy.                                                         *)
HealthFollowsDatabase ==
  /\ <>[](db = "up" /\ FreeConn) => <>[](Monitored => mon.status = "healthy")
  /\ <>[](db # "up") => <>[](Monitored => mon.status = "unhealthy")

(* "HealthCheckHandler provides overall application health status": 200 for *)
(* a healthy database, and for no other.                                    *)
HealthPageTellsHealth ==
  [][\A r \in Probes : HealthCheck(r) => (req'[r].answer = "200" <=> IsHealthy)]_vars
=============================================================================
