-------------------------- MODULE AppLifecycleProofs ---------------------------
(***************************************************************************)
(* Theorems about the safety of AppLifecycle, for any size of the pool, any *)
(* number of retries, clients and scans.  Everything rests on the order of  *)
(* main: nothing runs before main has spawned it, a status is read only     *)
(* after the first check, and nobody arrives at a server that has begun to  *)
(* shut down.                                                               *)
(***************************************************************************)
EXTENDS AppLifecycle, FiniteSetTheorems, TLAPS

Connecting == {"s3", "migrate", "open", "backoff"}
Starting   == Connecting \cup {"app", "firstcheck", "spawn"}
Stopped    == {"stopmonitor", "shutdown", "drain", "close", "exit"}
Ending     == Stopped \cup {"stopcron"}

NoRequest == [pc |-> "idle", answer |-> "none"]
Querying == {r \in Clients : req[r].pc = "query"}

(* Before the goroutines there is nothing, and the S3 client and the        *)
(* connection stand and fall together.                                      *)
StartInv ==
  /\ main.pc \in Starting => /\ srv.pc = "none" /\ bg = "none"
                             /\ \A r \in Clients : req[r] = NoRequest
  /\ main.pc \in Connecting => Degraded
  /\ main.pc \in Connecting \ {"s3"} => main.s3
  /\ main.pc \notin Connecting => (main.s3 <=> ~ Degraded)

(* The first check is over before anything is spawned.                      *)
MonitorInv ==
  /\ mon.pc \notin {"none", "first"} => mon.status # "unknown"
  /\ main.pc = "firstcheck" => mon.pc # "none"
  /\ main.pc \notin Connecting \cup {"app", "firstcheck"} /\ ~ Degraded
       => mon.pc \notin {"none", "first"}

(* Cron runs after the initial scan, and not after a Stop that found the    *)
(* scheduler started.                                                       *)
CronInv ==
  /\ bg # "done" => ~ cron.running /\ cron.jobs = 0
  /\ hist.rests => ~ cron.running /\ bg \in {"none", "done"} /\ main.pc \in Stopped

(* A server that listened at the signal closes before its requests are      *)
(* waited for.                                                              *)
SignalInv ==
  /\ main.pc \in Ending => main.signalled
  /\ hist.served =>
       /\ main.signalled /\ srv.pc \in {"listening", "closed"}
       /\ main.pc \in {"drain", "close", "exit"} => srv.pc = "closed"
       /\ main.pc \in {"close", "exit"} => InFlight = {}

(* What becomes of the request of client r, when its state is p: only a     *)
(* transfer is lost in a panic, and without a database a page goes no       *)
(* further than its guard.                                                  *)
Fine(r, p) ==
  /\ r \in Pages \cup Probes => p.pc # "transfer" /\ p.answer # "dropped"
  /\ r \in Pages /\ Degraded =>
       /\ p.pc \notin {"conn", "query"}
       /\ p.pc = "done" => p.answer = "503"

RequestInv == \A r \in Clients : Fine(r, req[r])

Inv ==
  /\ TypeOK /\ IsFiniteSet(Querying)
  /\ StartInv /\ MonitorInv /\ CronInv /\ SignalInv /\ RequestInv

-----------------------------------------------------------------------------
(* What the steps of each goroutine may do to its state *)

LEMMA MainGoes ==
  ASSUME TypeOK, NEW label \in MainPCs, Goto(label)
  PROVE  /\ main' \in MainState /\ main'.pc = label /\ main'.signalled = main.signalled
         /\ main'.conn = main.conn /\ main'.s3 = main.s3
  BY DEF TypeOK, MainState, Goto

LEMMA AttemptEnds ==
  ASSUME TypeOK, AttemptFails \/ GiveUp
  PROVE  /\ main' \in MainState /\ main'.signalled = main.signalled /\ main'.conn = main.conn
         /\ \/ main'.pc = "backoff" /\ main'.s3 = main.s3
            \/ main'.pc = "app" /\ main'.s3 = FALSE
<1>0. main \in MainState /\ MaxRetries \in Nat /\ 0 \in 0 .. MaxRetries
  BY ConstantsAssumption DEF TypeOK
<1>1. CASE GiveUp
  BY <1>0, <1>1 DEF GiveUp, MainState, MainPCs
<1>2. CASE AttemptFails /\ main.attempt < MaxRetries
  <2>1. main' = [main EXCEPT !.pc = "backoff", !.attempt = main.attempt + 1]
    BY <1>2 DEF AttemptFails
  <2>2. main.attempt + 1 \in 0 .. MaxRetries
    BY <1>0, <1>2 DEF MainState
  <2> QED  BY <1>0, <2>1, <2>2 DEF MainState, MainPCs
<1> QED  BY <1>1, <1>2 DEF AttemptFails

LEMMA Initializes ==
  ASSUME TypeOK, Initialize
  PROVE  /\ main.pc \in Connecting /\ UNCHANGED Rest
         /\ main' \in MainState /\ main'.signalled = main.signalled
         /\ \/ /\ main'.pc \in Connecting \ {"s3"} /\ main'.conn = main.conn
               /\ \/ main.pc = "s3" /\ main'.s3 = TRUE
                  \/ main.pc # "s3" /\ main'.s3 = main.s3
            \/ main'.pc = "app" /\ main'.conn = main.conn /\ main'.s3 = FALSE
            \/ main'.pc = "app" /\ main'.conn = "open" /\ main.pc = "open" /\ main'.s3 = main.s3
<1>1. CASE InitS3Client
  BY <1>1 DEF InitS3Client, TypeOK, MainState, MainPCs, Connecting
<1>2. CASE InitS3ClientFails
  BY <1>2, AttemptEnds DEF InitS3ClientFails, GiveUp, Connecting, TypeOK, MainState
<1>3. CASE Migrate
  BY <1>3, AttemptEnds, MainGoes DEF Migrate, Connecting, MainPCs
<1>4. CASE OpenAndTest
  <2>1. CASE main' = [main EXCEPT !.pc = "app", !.attempt = 0, !.conn = "open"]
    <3>1. main \in MainState /\ 0 \in 0 .. MaxRetries
      BY ConstantsAssumption DEF TypeOK
    <3>2. main' \in MainState /\ main'.signalled = main.signalled
      BY <2>1, <3>1 DEF MainState, MainPCs
    <3>3. main'.pc = "app" /\ main'.conn = "open" /\ main'.s3 = main.s3
      BY <2>1, <3>1 DEF MainState
    <3> QED  BY <1>4, <3>2, <3>3 DEF OpenAndTest, Connecting
  <2>2. CASE AttemptFails
    BY <1>4, <2>2, AttemptEnds DEF OpenAndTest, Connecting
  <2> QED  BY <1>4, <2>1, <2>2 DEF OpenAndTest
<1>5. CASE Backoff
  BY <1>5, AttemptEnds, MainGoes DEF Backoff, Connecting, MainPCs
<1> QED  BY <1>1, <1>2, <1>3, <1>4, <1>5 DEF Initialize

LEMMA MonitorMoves ==
  ASSUME TypeOK, CheckBegins \/ LoopEnds \/ PingStep
  PROVE  /\ mon' \in MonitorState /\ mon.pc # "none" /\ mon'.pc \notin {"none", "first"}
         /\ \/ mon.pc = "loop" /\ mon'.status = mon.status
            \/ mon'.status # "unknown"
  BY DEF TypeOK, MonitorState, MonitorPCs, CheckBegins, LoopEnds, PingStep, PingAnswers,
         PingFails, PingTimesOut, CheckEnds, Locked

(* A request that takes a connection or lets go of it is counted.           *)
LEMMA Counted ==
  ASSUME TypeOK, IsFiniteSet(Querying), NEW r \in Clients, NEW p,
         req' = [req EXCEPT ![r] = p],
         \/ req[r].pc # "query" /\ p.pc # "query" /\ inUse' = inUse
         \/ req[r].pc # "query" /\ p.pc = "query" /\ inUse' = inUse + 1
         \/ req[r].pc = "query" /\ p.pc # "query" /\ inUse' = inUse - 1
  PROVE  /\ inUse' = Cardinality(Querying') /\ IsFiniteSet(Querying')
         /\ req[r].pc = "query" => inUse > 0
<1>0. inUse = Cardinality(Querying) /\ inUse \in Nat
  BY PoolAssumption DEF TypeOK, Querying
<1>1. \A q \in Clients : req'[q] = IF q = r THEN p ELSE req[q]
  BY DEF TypeOK
<1>2. CASE req[r].pc # "query" /\ p.pc # "query" /\ inUse' = inUse
  <2>1. Querying' = Querying
    BY <1>1, <1>2 DEF Querying
  <2> QED  BY <1>0, <1>2, <2>1
<1>3. CASE req[r].pc # "query" /\ p.pc = "query" /\ inUse' = inUse + 1
  <2>1. Querying' = Querying \cup {r} /\ r \notin Querying
    BY <1>1, <1>3 DEF Querying
  <2> QED  BY <1>0, <1>3, <2>1, FS_AddElement
<1>4. CASE req[r].pc = "query" /\ p.pc # "query" /\ inUse' = inUse - 1
  <2>1. Querying' = Querying \ {r} /\ r \in Querying
    BY <1>1, <1>4 DEF Querying
  <2>2. Cardinality(Querying) # 0
    BY <2>1, FS_EmptySet
  <2> QED  BY <1>0, <1>4, <2>1, <2>2, FS_RemoveElement
<1> QED  BY <1>2, <1>3, <1>4

(* A request that is fine stays so.                                         *)
LEMMA RequestMoves ==
  ASSUME TypeOK, IsFiniteSet(Querying), NEW r \in Clients,
         \/ Handle(r)
         \/ /\ Arrive(r) \/ TransferEnds(r) \/ ClientLeaves(r)
            /\ UNCHANGED <<db, mon, main, srv, bg, cron, hist>>
  PROVE  /\ UNCHANGED <<db, mon, main, srv, bg, cron, hist>>
         /\ req' \in [Clients -> RequestState] /\ \A q \in Clients \ {r} : req'[q] = req[q]
         /\ inUse' \in 0 .. MaxOpenConns
         /\ inUse' = Cardinality(Querying') /\ IsFiniteSet(Querying')
         /\ req[r].pc \in {"handler", "transfer", "conn", "query"} \/ srv.pc = "listening"
         /\ Fine(r, req[r]) => Fine(r, req'[r])
<1>0. /\ req \in [Clients -> RequestState] /\ req[r] \in RequestState
      /\ inUse \in Nat /\ inUse \in 0 .. MaxOpenConns /\ MaxOpenConns \in Nat
  BY PoolAssumption DEF TypeOK
<1>1. UNCHANGED <<db, mon, main, srv, bg, cron, hist>>
  BY DEF Handle
<1> DEFINE Moved ==
             /\ req' \in [Clients -> RequestState] /\ \A q \in Clients \ {r} : req'[q] = req[q]
             /\ inUse' \in 0 .. MaxOpenConns
             /\ inUse' = Cardinality(Querying') /\ IsFiniteSet(Querying')
             /\ req[r].pc \in {"handler", "transfer", "conn", "query"} \/ srv.pc = "listening"
             /\ Fine(r, req[r]) => Fine(r, req'[r])
<1>p. ASSUME NEW p \in RequestState, req' = [req EXCEPT ![r] = p],
             \/ req[r].pc # "query" /\ p.pc # "query" /\ inUse' = inUse
             \/ req[r].pc # "query" /\ p.pc = "query" /\ inUse' = inUse + 1 /\ FreeConn
             \/ req[r].pc = "query" /\ p.pc # "query" /\ inUse' = inUse - 1,
             req[r].pc \in {"handler", "transfer", "conn", "query"} \/ srv.pc = "listening",
             Fine(r, req[r]) => Fine(r, p)
      PROVE  Moved
  <2>1. /\ inUse' = Cardinality(Querying') /\ IsFiniteSet(Querying')
        /\ req[r].pc = "query" => inUse > 0
    BY <1>p, Counted
  <2>2. inUse' \in 0 .. MaxOpenConns
    BY <1>0, <1>p, <2>1 DEF FreeConn
  <2>3. /\ req' \in [Clients -> RequestState] /\ req'[r] = p
        /\ \A q \in Clients \ {r} : req'[q] = req[q]
    BY <1>0, <1>p
  <2> QED  BY <1>p, <2>1, <2>2, <2>3
(* What becomes of the request; its place, or its answer.                   *)
<1>g. ASSUME NEW label \in RequestPCs
      PROVE  /\ [req EXCEPT ![r].pc = label] = [req EXCEPT ![r] = [req[r] EXCEPT !.pc = label]]
             /\ [req[r] EXCEPT !.pc = label] \in RequestState
             /\ [req[r] EXCEPT !.pc = label].pc = label
             /\ [req[r] EXCEPT !.pc = label].answer = req[r].answer
  BY <1>0 DEF RequestState
<1>2. CASE Arrive(r)
  <2> DEFINE p == [pc |-> IF r \in Transfers THEN "transfer" ELSE "handler", answer |-> "none"]
  <2>1. p \in RequestState /\ p.pc # "query"
    BY DEF RequestState, RequestPCs, Answers
  <2>2. Fine(r, p)
    BY ConstantsAssumption DEF Fine
  <2>3. req' = [req EXCEPT ![r] = p] /\ inUse' = inUse /\ req[r].pc # "query" /\ srv.pc = "listening"
    BY <1>2 DEF Arrive
  <2> HIDE DEF p
  <2> QED  BY <1>1, <1>p, <2>1, <2>2, <2>3
<1>a. ASSUME NEW answer \in {"200", "503", "dropped"}, Answer(r, answer),
             \/ req[r].pc \in {"handler", "transfer", "conn"} /\ inUse' = inUse
             \/ req[r].pc = "query" /\ inUse' = inUse - 1,
             answer = "dropped" => r \notin Pages \cup Probes,
             r \in Pages /\ Degraded /\ Fine(r, req[r]) => answer = "503"
      PROVE  Moved
  <2>1. [pc |-> "done", answer |-> answer] \in RequestState
    BY DEF RequestState, RequestPCs, Answers
  <2>2. Fine(r, req[r]) => Fine(r, [pc |-> "done", answer |-> answer])
    BY <1>a DEF Fine
  <2> QED  BY <1>a, <1>p, <2>1, <2>2 DEF Answer
<1>3. CASE PageGuard(r)
  <2>1. req[r].pc = "handler" /\ inUse' = inUse
    BY <1>3 DEF PageGuard
  <2>2. CASE Answer(r, "503")
    BY <1>1, <1>a, <2>1, <2>2
  <2>3. CASE ~ Degraded /\ req' = [req EXCEPT ![r].pc = "conn"]
    <3>1. Fine(r, req[r]) => Fine(r, [req[r] EXCEPT !.pc = "conn"])
      BY <1>g, <2>3 DEF Fine, RequestPCs
    <3> QED  BY <1>1, <1>g, <1>p, <2>1, <2>3, <3>1 DEF RequestPCs
  <2> QED  BY <1>3, <2>2, <2>3 DEF PageGuard
<1>4. CASE HealthCheck(r) \/ DatabaseHealthPage(r)
  <2>1. PICK answer \in {"200", "503"} : Answer(r, answer)
    BY <1>4 DEF HealthCheck, DatabaseHealthPage, HealthCheckCode, DatabaseHealthCode
  <2>2. req[r].pc = "handler" /\ inUse' = inUse /\ r \notin Pages
    BY <1>4, ConstantsAssumption DEF HealthCheck, DatabaseHealthPage
  <2> QED  BY <1>1, <1>a, <2>1, <2>2
<1>5. CASE TakeConn(r)
  <2>1. Fine(r, req[r]) => Fine(r, [req[r] EXCEPT !.pc = "query"])
    BY <1>5, <1>g DEF Fine, TakeConn, RequestPCs
  <2> QED  BY <1>1, <1>5, <1>g, <1>p, <2>1 DEF TakeConn, RequestPCs
<1>6. CASE QueryEnds(r)
  <2>1. r \in Pages /\ Degraded => ~ Fine(r, req[r])
    BY <1>6 DEF Fine, QueryEnds
  <2> QED  BY <1>1, <1>6, <1>a, <2>1 DEF QueryEnds
<1>7. CASE TransferEnds(r)
  <2>1. req[r].pc = "transfer" /\ inUse' = inUse
    BY <1>7 DEF TransferEnds
  <2>2. Fine(r, req[r]) => r \notin Pages \cup Probes
    BY <2>1 DEF Fine
  <2>3. CASE Answer(r, "200") \/ Answer(r, "dropped")
    <3>1. PICK answer \in {"200", "dropped"} : Answer(r, answer)
      BY <2>3
    <3>2. [pc |-> "done", answer |-> answer] \in RequestState
      BY DEF RequestState, RequestPCs, Answers
    <3>3. Fine(r, req[r]) => Fine(r, [pc |-> "done", answer |-> answer])
      BY <2>2 DEF Fine
    <3> QED  BY <1>1, <1>p, <2>1, <3>1, <3>2, <3>3 DEF Answer
  <2>4. CASE req' = [req EXCEPT ![r].pc = "conn"]
    <3>1. Fine(r, req[r]) => Fine(r, [req[r] EXCEPT !.pc = "conn"])
      BY <2>2 DEF Fine
    <3> QED  BY <1>1, <1>g, <1>p, <2>1, <2>4, <3>1 DEF RequestPCs
  <2> QED  BY <1>7, <2>3, <2>4 DEF TransferEnds
<1>8. CASE ClientLeaves(r)
  <2>1. /\ req[r].pc \in {"transfer", "conn", "query"} /\ req' = [req EXCEPT ![r].pc = "idle"]
        /\ inUse' = IF req[r].pc = "query" THEN inUse - 1 ELSE inUse
    BY <1>8 DEF ClientLeaves
  <2>2. Fine(r, req[r]) => Fine(r, [req[r] EXCEPT !.pc = "idle"])
    BY <1>g DEF Fine, RequestPCs
  <2> QED  BY <1>1, <1>g, <1>p, <2>1, <2>2 DEF RequestPCs
<1> QED
  BY <1>2, <1>3, <1>4, <1>5, <1>6, <1>7, <1>8 DEF Handle, ReadMonitor

-----------------------------------------------------------------------------
(* Type correctness *)

LEMMA TypeInit == Init => TypeOK /\ IsFiniteSet(Querying)
<1> SUFFICES ASSUME Init PROVE TypeOK /\ IsFiniteSet(Querying)
  OBVIOUS
<1>1. req \in [Clients -> RequestState] /\ Querying = {}
  BY DEF Init, RequestState, RequestPCs, Answers, Querying
<1>2. main \in MainState /\ 0 \in 0 .. MaxOpenConns
  BY ConstantsAssumption, PoolAssumption DEF Init, MainState, MainPCs
<1>3. srv \in ServerState /\ cron \in CronState /\ hist \in History /\ mon \in MonitorState
  BY ConstantsAssumption
     DEF Init, ServerState, CronState, History, MonitorState, MonitorPCs, NoMonitor
<1> QED
  BY <1>1, <1>2, <1>3, FS_EmptySet DEF Init, TypeOK, BackgroundPCs, Querying

LEMMA TypeStep ==
  TypeOK /\ IsFiniteSet(Querying) /\ [Next]_vars => TypeOK' /\ IsFiniteSet(Querying')
<1> SUFFICES ASSUME TypeOK, IsFiniteSet(Querying), [Next]_vars
             PROVE  TypeOK' /\ IsFiniteSet(Querying')
  OBVIOUS
<1>0. /\ main \in MainState /\ srv \in ServerState /\ cron \in CronState /\ mon \in MonitorState
      /\ hist \in History /\ bg \in BackgroundPCs /\ inUse = Cardinality(Querying)
  BY DEF TypeOK, Querying
(* Nobody but main and the goroutines moves.                                *)
<1>r. ASSUME UNCHANGED <<inUse, req>>, db' \in DatabaseStates, main' \in MainState,
             mon' \in MonitorState, srv' \in ServerState, bg' \in BackgroundPCs,
             cron' \in CronState, hist' \in History
      PROVE  TypeOK' /\ IsFiniteSet(Querying')
  <2>1. Querying' = Querying
    BY <1>r DEF Querying
  <2> QED  BY <1>r, <1>0, <2>1 DEF TypeOK, Querying
<1>1. CASE Initialize
  BY <1>1, <1>r, Initializes DEF TypeOK, Rest
<1>2. CASE NewApp
  <2>1. main' \in MainState
    BY <1>2, MainGoes DEF NewApp, MainPCs
  <2>2. mon' \in MonitorState
    BY <1>0, <1>2 DEF NewApp, StartMonitor, MonitorState, MonitorPCs
  <2> QED  BY <1>2, <1>r, <2>1, <2>2 DEF NewApp, TypeOK
<1>3. CASE FirstCheckDone \/ CtxDone \/ Drain
  <2>1. main' \in MainState
    BY <1>3, MainGoes DEF FirstCheckDone, CtxDone, Drain, MainPCs
  <2> QED  BY <1>3, <1>r, <2>1 DEF FirstCheckDone, CtxDone, Drain, TypeOK, Rest
<1>4. CASE SpawnGoroutines
  <2>1. main' \in MainState
    BY <1>4, MainGoes DEF SpawnGoroutines, MainPCs
  <2>2. srv' \in ServerState /\ bg' \in BackgroundPCs
    BY <1>0, <1>4 DEF SpawnGoroutines, ServerState, BackgroundPCs
  <2> QED  BY <1>4, <1>r, <2>1, <2>2 DEF SpawnGoroutines, TypeOK
<1>5. CASE StopScheduler
  <2>1. main' \in MainState
    BY <1>5, MainGoes DEF StopScheduler, MainPCs
  <2>2. cron' \in CronState
    BY <1>0, <1>5 DEF StopScheduler, CronState
  <2>3. hist' \in History
    <3>1. \A b \in BOOLEAN : [hist EXCEPT !.rests = b] \in History
      BY <1>0 DEF History
    <3>2. (bg \in {"none", "done"}) \in BOOLEAN
      OBVIOUS
    <3> QED  BY <1>5, <3>1, <3>2, Zenon DEF StopScheduler
  <2> QED  BY <1>5, <1>r, <2>1, <2>2, <2>3 DEF StopScheduler, TypeOK
<1>6. CASE StopServerMonitor
  <2>1. main' \in MainState
    BY <1>6, MainGoes DEF StopServerMonitor, MainPCs
  <2>2. mon' \in MonitorState
    BY <1>0, <1>6 DEF StopServerMonitor, StopMonitor, MonitorState
  <2> QED  BY <1>6, <1>r, <2>1, <2>2 DEF StopServerMonitor, TypeOK
<1>7. CASE Shutdown
  <2>1. main' \in MainState
    BY <1>7, MainGoes DEF Shutdown, MainPCs
  <2>2. srv' \in ServerState
    BY <1>0, <1>7 DEF Shutdown, ServerState
  <2> QED  BY <1>7, <1>r, <2>1, <2>2 DEF Shutdown, TypeOK
<1>8. CASE CloseDatabase
  <2>1. main' \in MainState
    BY <1>0, <1>8 DEF CloseDatabase, MainState, MainPCs
  <2> QED  BY <1>8, <1>r, <2>1 DEF CloseDatabase, TypeOK, Rest
<1>9. CASE MonitorStep /\ UNCHANGED <<main, srv, bg, cron, req, hist>>
  BY <1>9, <1>r, MonitorMoves DEF MonitorStep, TypeOK
<1>10. CASE ServerStep
  <2>1. srv' \in ServerState
    BY <1>0, <1>10 DEF ServerStep, NewServer, ListenAndServe, ServerState
  <2> QED  BY <1>10, <1>r, <2>1 DEF ServerStep, TypeOK
<1>11. CASE BackgroundStep
  <2>1. bg' \in BackgroundPCs
    BY <1>0, <1>11 DEF BackgroundStep, InitialScanReturns, StartScheduler, CronFires, JobReturns,
                       BackgroundPCs
  <2>2. cron' \in CronState
    BY <1>0, <1>11, ConstantsAssumption
       DEF BackgroundStep, InitialScanReturns, StartScheduler, CronFires, JobReturns, CronState
  <2> QED  BY <1>11, <1>r, <2>1, <2>2 DEF BackgroundStep, TypeOK
<1>12. CASE RequestStep
  <2>1. PICK r \in Clients :
          \/ Handle(r)
          \/ /\ Arrive(r) \/ TransferEnds(r) \/ ClientLeaves(r)
             /\ UNCHANGED <<db, mon, main, srv, bg, cron, hist>>
    BY <1>12 DEF RequestStep
  <2> QED  BY <2>1, RequestMoves DEF TypeOK, Querying
<1>13. CASE DatabaseChanges
  BY <1>13, <1>r DEF DatabaseChanges, TypeOK
<1>14. CASE Signal
  <2>1. main' \in MainState /\ hist' \in History
    BY <1>0, <1>14 DEF Signal, MainState, History
  <2> QED  BY <1>14, <1>r, <2>1 DEF Signal, TypeOK
<1>15. CASE UNCHANGED vars
  BY <1>15, <1>r DEF vars, TypeOK
<1> QED
  BY <1>1, <1>2, <1>3, <1>4, <1>5, <1>6, <1>7, <1>8, <1>9, <1>10, <1>11, <1>12, <1>13, <1>14, <1>15
     DEF Next, MainStep

-----------------------------------------------------------------------------
(* Main and the others *)

(* After Initialize, main goes through its places in order.                 *)
Follows == [app         |-> {"firstcheck", "spawn"},
            firstcheck  |-> {"spawn"},
            spawn       |-> {"wait"},
            wait        |-> {"stopcron"},
            stopcron    |-> {"stopmonitor"},
            stopmonitor |-> {"shutdown"},
            shutdown    |-> {"drain", "close"},
            drain       |-> {"close"},
            close       |-> {"exit"}]

LEMMA MainRuns ==
  ASSUME TypeOK, MainStep, ~ Initialize
  PROVE  /\ main'.signalled = main.signalled /\ main'.s3 = main.s3 /\ (Degraded' <=> Degraded)
         /\ main.pc \in DOMAIN Follows /\ main'.pc \in Follows[main.pc]
<1>g. ASSUME NEW label \in MainPCs, Goto(label)
      PROVE  /\ main'.signalled = main.signalled /\ main'.s3 = main.s3 /\ (Degraded' <=> Degraded)
             /\ main'.pc = label
  BY <1>g, MainGoes DEF Degraded
<1>1. CASE NewApp
  BY <1>1, <1>g DEF NewApp, Follows, MainPCs
<1>2. CASE FirstCheckDone \/ CtxDone \/ Drain \/ SpawnGoroutines \/ StopScheduler
              \/ StopServerMonitor
  BY <1>2, <1>g DEF FirstCheckDone, CtxDone, Drain, SpawnGoroutines, StopScheduler,
                    StopServerMonitor, Follows, MainPCs
<1>3. CASE Shutdown
  BY <1>3, <1>g DEF Shutdown, Follows, MainPCs
<1>4. CASE CloseDatabase
  BY <1>4 DEF CloseDatabase, Follows, Degraded, TypeOK, MainState
<1> QED  BY <1>1, <1>2, <1>3, <1>4 DEF MainStep

(* The step main is at.                                                     *)
LEMMA MainIsAt ==
  ASSUME MainStep
  PROVE  /\ main.pc = "app" => NewApp
         /\ main.pc = "firstcheck" => FirstCheckDone
         /\ main.pc = "spawn" => SpawnGoroutines
         /\ main.pc = "wait" => CtxDone
         /\ main.pc = "stopcron" => StopScheduler
         /\ main.pc = "stopmonitor" => StopServerMonitor
         /\ main.pc = "shutdown" => Shutdown
         /\ main.pc = "drain" => Drain
  BY DEF MainStep, Initialize, InitS3Client, InitS3ClientFails, Migrate, OpenAndTest, Backoff,
         NewApp, FirstCheckDone, SpawnGoroutines, CtxDone, StopScheduler, StopServerMonitor,
         Shutdown, Drain, CloseDatabase

(* What main's steps do to the others' state.                               *)
LEMMA MainTouches ==
  ASSUME TypeOK, MainStep
  PROVE  /\ db' = db /\ inUse' = inUse /\ req' = req
         /\ srv' = srv \/ main.pc \in {"spawn", "shutdown"}
         /\ bg' = bg \/ main.pc = "spawn"
         /\ cron' = cron \/ (main.pc = "stopcron" /\ cron'.running = FALSE /\ cron'.jobs = cron.jobs)
         /\ hist'.served = hist.served
         /\ main.pc = "stopcron" => hist'.rests = (bg \in {"none", "done"})
         /\ main.pc # "stopcron" => hist'.rests = hist.rests
         /\ mon' = mon \/ main.pc \in {"app", "stopmonitor"}
<1>1. CASE Initialize
  BY <1>1, Initializes DEF Rest, Connecting
<1>2. CASE StopScheduler
  BY <1>2 DEF StopScheduler, TypeOK, CronState, History
<1>3. CASE NewApp \/ FirstCheckDone \/ SpawnGoroutines \/ CtxDone \/ StopServerMonitor \/ Shutdown
              \/ Drain \/ CloseDatabase
  BY <1>3 DEF NewApp, FirstCheckDone, SpawnGoroutines, CtxDone, StopServerMonitor, Shutdown,
              Drain, CloseDatabase, Rest
<1> QED  BY <1>1, <1>2, <1>3 DEF MainStep

(* The steps of the others, which leave main alone but for the signal.      *)
Others ==
  \/ MonitorStep /\ UNCHANGED <<main, srv, bg, cron, req, hist>>
  \/ ServerStep \/ BackgroundStep \/ RequestStep \/ DatabaseChanges \/ Signal

LEMMA OthersTouch ==
  ASSUME TypeOK, IsFiniteSet(Querying), Others
  PROVE  /\ main'.pc = main.pc /\ main'.conn = main.conn /\ main'.s3 = main.s3
         /\ main.signalled => main' = main /\ hist' = hist
         /\ main' = main \/ (main'.signalled /\ srv' = srv /\ hist'.served = (srv.pc = "listening"))
         /\ main' = main => hist' = hist
         /\ hist'.rests = hist.rests
         /\ srv' = srv \/ (srv.pc = "spawned" /\ srv'.pc = "made") \/ srv.pc = "made"
         /\ srv.pc = "made" => srv'.pc # "none"
         /\ mon.pc = "none" => mon' = mon
         /\ \A r \in Clients : \/ req'[r] = req[r] \/ srv.pc = "listening"
                               \/ req[r].pc \in {"handler", "transfer", "conn", "query"}
         /\ \A r \in Clients : Fine(r, req[r]) => Fine(r, req'[r])
<1>1. CASE MonitorStep /\ UNCHANGED <<main, srv, bg, cron, req, hist>>
  BY <1>1, MonitorMoves DEF MonitorStep
<1>2. CASE ServerStep
  BY <1>2 DEF ServerStep, NewServer, ListenAndServe, TypeOK, ServerState
<1>3. CASE BackgroundStep \/ DatabaseChanges
  BY <1>3 DEF BackgroundStep, DatabaseChanges
<1>4. CASE RequestStep
  <2>1. PICK r \in Clients :
          \/ Handle(r)
          \/ /\ Arrive(r) \/ TransferEnds(r) \/ ClientLeaves(r)
             /\ UNCHANGED <<db, mon, main, srv, bg, cron, hist>>
    BY <1>4 DEF RequestStep
  <2> QED  BY <2>1, RequestMoves
<1>5. CASE Signal
  BY <1>5 DEF Signal, TypeOK, MainState, History
<1> QED  BY <1>1, <1>2, <1>3, <1>4, <1>5 DEF Others

-----------------------------------------------------------------------------
(* The invariant *)

LEMMA InvInit == Init => Inv
  BY TypeInit DEF Init, Inv, StartInv, MonitorInv, CronInv, SignalInv, RequestInv, Fine, Connecting,
     Starting, Stopped, Ending, Degraded, NoMonitor, NoRequest

(* Every step is one of Initialize, one of the rest of main, one of another *)
(* goroutine, or stutters.                                                  *)
LEMMA Steps == [Next]_vars => Initialize \/ (MainStep /\ ~ Initialize) \/ Others \/ UNCHANGED vars
  BY DEF Next, Others, MainStep

LEMMA StartStep == Inv /\ [Next]_vars => StartInv'
<1> SUFFICES ASSUME Inv, [Next]_vars PROVE StartInv'
  OBVIOUS
<1>0. TypeOK /\ IsFiniteSet(Querying) /\ StartInv
  BY DEF Inv
<1>1. CASE Initialize
  BY <1>0, <1>1, Initializes DEF StartInv, Rest, Connecting, Starting, Degraded
<1>2. CASE MainStep /\ ~ Initialize
  <2>1. /\ main'.s3 = main.s3 /\ (Degraded' <=> Degraded)
        /\ main.pc \in DOMAIN Follows /\ main'.pc \in Follows[main.pc]
    BY <1>0, <1>2, MainRuns
  <2>2. main'.pc \notin Connecting /\ main.pc \notin Connecting
    BY <2>1 DEF Follows, Connecting
  <2>3. main'.pc \in Starting => main.pc \in {"app", "firstcheck"}
    BY <2>1 DEF Follows, Starting, Connecting
  <2>4. main.pc \in {"app", "firstcheck"} => srv' = srv /\ bg' = bg /\ req' = req
    BY <1>0, <1>2, MainTouches
  <2> QED  BY <1>0, <2>1, <2>2, <2>3, <2>4 DEF StartInv, Starting
<1>3. CASE Others
  <2>1. /\ main'.pc = main.pc /\ main'.conn = main.conn /\ main'.s3 = main.s3
    BY <1>0, <1>3, OthersTouch
  <2>2. ASSUME main.pc \in Starting
        PROVE  /\ srv'.pc = "none" /\ bg' = "none"
               /\ \A r \in Clients : req'[r] = NoRequest
    <3>1. srv.pc = "none" /\ bg = "none" /\ \A r \in Clients : req[r] = NoRequest
      BY <1>0, <2>2 DEF StartInv
    <3>2. bg' = "none"
      BY <1>3, <3>1 DEF Others, MonitorStep, ServerStep, BackgroundStep, InitialScanReturns,
         StartScheduler, CronFires, JobReturns, RequestStep, Handle, DatabaseChanges, Signal
    <3> QED  BY <1>0, <1>3, <3>1, <3>2, OthersTouch DEF NoRequest
  <2> QED  BY <1>0, <2>1, <2>2 DEF StartInv, Degraded
<1>4. CASE UNCHANGED vars
  BY <1>0, <1>4 DEF vars, StartInv, Degraded
<1> QED  BY <1>1, <1>2, <1>3, <1>4, Steps

LEMMA MonitorInvStep == Inv /\ [Next]_vars => MonitorInv'
<1> SUFFICES ASSUME Inv, [Next]_vars PROVE MonitorInv'
  OBVIOUS
<1>0. TypeOK /\ IsFiniteSet(Querying) /\ StartInv /\ MonitorInv
  BY DEF Inv
<1>1. CASE Initialize
  BY <1>0, <1>1, Initializes DEF MonitorInv, Rest, Connecting
<1>2. CASE MainStep /\ ~ Initialize
  <2>0. /\ (Degraded' <=> Degraded)
        /\ main.pc \in DOMAIN Follows /\ main'.pc \in Follows[main.pc]
    BY <1>0, <1>2, MainRuns
  <2>1. CASE NewApp
    <3>1. main.pc = "app" /\ IF Degraded THEN Goto("spawn") /\ mon' = mon
                             ELSE Goto("firstcheck") /\ mon' = [mon EXCEPT !.pc = "first"]
      BY <2>1 DEF NewApp, StartMonitor
    <3>2. CASE Degraded
      BY <1>0, <2>0, <3>1, <3>2, MainGoes DEF MonitorInv, MainPCs
    <3>3. CASE ~ Degraded
      BY <1>0, <3>1, <3>3, MainGoes DEF MonitorInv, MainPCs, TypeOK, MonitorState
    <3> QED  BY <3>2, <3>3
  <2>2. CASE FirstCheckDone
    <3>1. main'.pc = "spawn" /\ main.pc = "firstcheck" /\ mon.pc # "first" /\ mon' = mon
      BY <1>0, <2>2, MainGoes DEF FirstCheckDone, Rest, MainPCs
    <3> QED  BY <1>0, <3>1 DEF MonitorInv
  <2>3. CASE main.pc \notin {"app", "firstcheck"}
    <3>1. main.pc \notin Connecting /\ main'.pc \notin Connecting \cup {"app", "firstcheck"}
      BY <2>0, <2>3 DEF Follows, Connecting
    <3>2. mon'.pc = mon.pc /\ mon'.status = mon.status
      <4>1. CASE main.pc = "stopmonitor"
        BY <1>0, <1>2, <4>1, MainIsAt
           DEF StopServerMonitor, StopMonitor, TypeOK, MonitorState
      <4> QED  BY <1>0, <1>2, <2>3, <4>1, MainTouches
    <3> QED  BY <1>0, <2>0, <2>3, <3>1, <3>2 DEF MonitorInv
  <2>4. main.pc \in {"app", "firstcheck"} => NewApp \/ FirstCheckDone
    BY <1>2, MainIsAt
  <2> QED  BY <2>1, <2>2, <2>3, <2>4
<1>3. CASE Others
  <2>1. /\ main'.pc = main.pc /\ main'.conn = main.conn
    BY <1>0, <1>3, OthersTouch
  <2>2. \/ mon' = mon
        \/ /\ mon.pc # "none" /\ mon'.pc \notin {"none", "first"}
           /\ \/ mon.pc = "loop" /\ mon'.status = mon.status
              \/ mon'.status # "unknown"
    BY <1>0, <1>3, MonitorMoves DEF Others, MonitorStep, ServerStep, BackgroundStep, RequestStep,
       Handle, DatabaseChanges, Signal
  <2> QED  BY <1>0, <2>1, <2>2 DEF MonitorInv, Degraded
<1>4. CASE UNCHANGED vars
  BY <1>0, <1>4 DEF vars, MonitorInv, Degraded
<1> QED  BY <1>1, <1>2, <1>3, <1>4, Steps

LEMMA CronStep == Inv /\ [Next]_vars => CronInv'
<1> SUFFICES ASSUME Inv, [Next]_vars PROVE CronInv'
  OBVIOUS
<1>0. /\ TypeOK /\ IsFiniteSet(Querying) /\ StartInv /\ CronInv
      /\ cron \in CronState /\ ConstantsAssumption
  BY ConstantsAssumption DEF Inv, TypeOK
<1>1. CASE Initialize
  <2>1. main.pc \notin Stopped /\ cron' = cron /\ bg' = bg /\ hist' = hist
    BY <1>0, <1>1, Initializes DEF Rest, Connecting, Stopped
  <2> QED  BY <1>0, <2>1 DEF CronInv
<1>2. CASE MainStep /\ ~ Initialize
  <2>0. main.pc \in DOMAIN Follows /\ main'.pc \in Follows[main.pc]
    BY <1>0, <1>2, MainRuns
  <2>1. main.pc \in Stopped => main'.pc \in Stopped
    BY <2>0 DEF Follows, Stopped
  <2>2. CASE main.pc = "spawn"
    <3>1. bg = "none" /\ cron' = cron /\ hist' = hist
      BY <1>0, <1>2, <2>2, MainIsAt DEF StartInv, Starting, SpawnGoroutines
    <3>2. ~ hist.rests
      BY <1>0, <2>2 DEF CronInv, Stopped
    <3> QED  BY <1>0, <3>1, <3>2 DEF CronInv
  <2>3. CASE main.pc = "stopcron"
    <3>1. main'.pc = "stopmonitor"
      BY <2>0, <2>3 DEF Follows
    <3>2. /\ bg' = bg /\ hist'.rests = (bg \in {"none", "done"})
          /\ cron'.running = FALSE /\ cron'.jobs = cron.jobs
      BY <1>0, <1>2, <2>3, MainIsAt, MainTouches DEF StopScheduler, TypeOK, CronState
    <3> QED  BY <1>0, <3>1, <3>2 DEF CronInv, Stopped
  <2>4. CASE main.pc \notin {"spawn", "stopcron"}
    <3>1. bg' = bg /\ cron' = cron /\ hist'.rests = hist.rests
      BY <1>0, <1>2, <2>4, MainTouches
    <3> QED  BY <1>0, <2>1, <3>1 DEF CronInv
  <2> QED  BY <2>2, <2>3, <2>4
<1>3. CASE Others
  <2>1. main'.pc = main.pc /\ hist'.rests = hist.rests
    BY <1>0, <1>3, OthersTouch
  <2>2. CASE BackgroundStep
    <3>1. CASE InitialScanReturns \/ StartScheduler
      BY <1>0, <2>1, <3>1 DEF InitialScanReturns, StartScheduler, CronInv, CronState
    <3>2. CASE CronFires \/ JobReturns
      BY <1>0, <2>1, <3>2 DEF CronFires, JobReturns, CronInv, CronState
    <3> QED  BY <2>2, <3>1, <3>2 DEF BackgroundStep
  <2>3. CASE ~ BackgroundStep
    <3>1. bg' = bg /\ cron' = cron
      BY <1>3, <2>3 DEF Others, MonitorStep, ServerStep, RequestStep, Handle, DatabaseChanges,
         Signal
    <3> QED  BY <1>0, <2>1, <3>1 DEF CronInv
  <2> QED  BY <2>2, <2>3
<1>4. CASE UNCHANGED vars
  BY <1>0, <1>4 DEF vars, CronInv
<1> QED  BY <1>1, <1>2, <1>3, <1>4, Steps

LEMMA SignalStep == Inv /\ [Next]_vars => SignalInv'
<1> SUFFICES ASSUME Inv, [Next]_vars PROVE SignalInv'
  OBVIOUS
<1>0. TypeOK /\ IsFiniteSet(Querying) /\ StartInv /\ SignalInv /\ srv \in ServerState
  BY DEF Inv, TypeOK
<1>1. CASE Initialize
  <2>1. main.pc \in Starting /\ main'.pc \notin Ending /\ srv' = srv /\ hist' = hist
    BY <1>0, <1>1, Initializes DEF Rest, Connecting, Starting, Ending, Stopped
  <2>2. ~ hist.served
    BY <1>0, <2>1 DEF SignalInv, StartInv
  <2> QED  BY <2>1, <2>2 DEF SignalInv
<1>2. CASE MainStep /\ ~ Initialize
  <2>0. /\ main'.signalled = main.signalled
        /\ main.pc \in DOMAIN Follows /\ main'.pc \in Follows[main.pc]
    BY <1>0, <1>2, MainRuns
  <2>1. hist'.served = hist.served /\ req' = req
    BY <1>0, <1>2, MainTouches
  <2>2. main'.pc \in Ending => main'.signalled
    <3>1. main'.pc \in Ending => main.pc = "wait" \/ main.pc \in Ending
      BY <2>0 DEF Follows, Ending, Stopped
    <3>2. main.pc = "wait" => main.signalled
      BY <1>2, MainIsAt DEF CtxDone
    <3> QED  BY <1>0, <2>0, <3>1, <3>2 DEF SignalInv
  <2>3. ASSUME hist.served
        PROVE  /\ main.signalled /\ srv'.pc \in {"listening", "closed"}
               /\ main'.pc \in {"drain", "close", "exit"} => srv'.pc = "closed"
               /\ main'.pc \in {"close", "exit"} => InFlight = {}
    <3>0. main.signalled /\ srv.pc \in {"listening", "closed"} /\ main.pc \notin Starting
      BY <1>0, <2>3 DEF SignalInv, StartInv
    <3>1. CASE main.pc = "shutdown"
      <4>1. Shutdown
        BY <1>2, <3>1, MainIsAt
      <4> QED  BY <1>0, <3>0, <4>1, MainGoes DEF Shutdown, ServerState, MainPCs
    <3>2. CASE main.pc = "drain"
      <4>1. InFlight = {} /\ srv' = srv /\ srv.pc = "closed"
        BY <1>0, <1>2, <2>3, <3>2, MainIsAt DEF SignalInv, Drain, Rest
      <4> QED  BY <3>0, <4>1
    <3>3. CASE main.pc \notin {"shutdown", "drain"}
      <4>1. srv' = srv
        BY <1>0, <1>2, <3>0, <3>3, MainTouches DEF Starting
      <4>2. main'.pc \in {"drain", "close", "exit"} => main.pc = "close" /\ main'.pc = "exit"
        BY <2>0, <3>3 DEF Follows
      <4> QED  BY <1>0, <2>3, <3>0, <4>1, <4>2 DEF SignalInv
    <3> QED  BY <3>1, <3>2, <3>3
  <2>4. InFlight' = InFlight
    BY <2>1 DEF InFlight
  <2> QED  BY <2>0, <2>1, <2>2, <2>3, <2>4 DEF SignalInv
<1>3. CASE Others
  <2>1. /\ main'.pc = main.pc
        /\ main.signalled => main' = main /\ hist' = hist
        /\ main' = main \/ (main'.signalled /\ srv' = srv /\ hist'.served = (srv.pc = "listening"))
        /\ main' = main => hist' = hist
        /\ srv' = srv \/ srv.pc \in {"spawned", "made"}
    BY <1>0, <1>3, OthersTouch
  <2>2. CASE main' = main
    <3>1. ASSUME hist.served, main.pc \in {"close", "exit"} PROVE InFlight' = {}
      <4>1. srv.pc = "closed" /\ InFlight = {}
        BY <1>0, <3>1 DEF SignalInv
      <4>2. \A r \in Clients : req'[r] = req[r]
        BY <1>0, <1>3, <4>1, OthersTouch DEF InFlight
      <4> QED  BY <4>1, <4>2 DEF InFlight
    <3> QED  BY <1>0, <2>1, <2>2, <3>1 DEF SignalInv
  <2>3. CASE main' # main
    <3>1. ~ main.signalled /\ main.pc \notin Ending
      BY <1>0, <2>1, <2>3 DEF SignalInv
    <3> QED  BY <2>1, <2>3, <3>1 DEF SignalInv, Ending, Stopped
  <2> QED  BY <2>2, <2>3
<1>4. CASE UNCHANGED vars
  BY <1>0, <1>4 DEF vars, SignalInv, InFlight
<1> QED  BY <1>1, <1>2, <1>3, <1>4, Steps

LEMMA RequestInvStep == Inv /\ [Next]_vars => RequestInv'
<1> SUFFICES ASSUME Inv, [Next]_vars PROVE RequestInv'
  OBVIOUS
<1>0. TypeOK /\ IsFiniteSet(Querying) /\ StartInv /\ RequestInv
  BY DEF Inv
<1>1. CASE Initialize
  <2>1. req' = req /\ \A r \in Clients : req[r] = NoRequest
    BY <1>0, <1>1, Initializes DEF Rest, StartInv, Starting
  <2> QED  BY <2>1 DEF RequestInv, Fine, NoRequest
<1>2. CASE MainStep /\ ~ Initialize
  BY <1>0, <1>2, MainRuns, MainTouches DEF RequestInv, Fine
<1>3. CASE Others
  <2>1. Degraded' <=> Degraded
    BY <1>0, <1>3, OthersTouch DEF Degraded
  <2>2. \A r \in Clients : Fine(r, req'[r])
    BY <1>0, <1>3, OthersTouch DEF RequestInv
  <2> QED  BY <2>1, <2>2 DEF RequestInv, Fine
<1>4. CASE UNCHANGED vars
  BY <1>0, <1>4 DEF vars, RequestInv, Fine, Degraded
<1> QED  BY <1>1, <1>2, <1>3, <1>4, Steps

LEMMA Invariance == Spec => []Inv
<1>1. Inv /\ [Next]_vars => Inv'
  BY TypeStep, StartStep, MonitorInvStep, CronStep, SignalStep, RequestInvStep DEF Inv
<1> QED  BY <1>1, InvInit, PTL DEF Spec

-----------------------------------------------------------------------------
(* The theorems *)

(* Type correctness; the pool counts the requests that hold a connection    *)
(* and never has more of them than it may.                                  *)
THEOREM TypeCorrect == Spec => []TypeOK
  BY Invariance, PTL DEF Inv

(* A signal that finds the server listening ends the process only when      *)
(* every request that had begun has been answered.                          *)
THEOREM Drained == Spec => []RequestsAreDrained
<1>1. Inv => RequestsAreDrained
  BY DEF Inv, SignalInv, RequestsAreDrained
<1> QED  BY <1>1, Invariance, PTL

(* No scan of cron runs beside the initial scan.                            *)
THEOREM InitialScanAlone == Spec => []InitialScanRunsAlone
<1>1. Inv => InitialScanRunsAlone
  BY DEF Inv, CronInv, InitialScanRunsAlone
<1> QED  BY <1>1, Invariance, PTL

(* Whoever is served reads a status that a check has found.                 *)
THEOREM StatusIsKnown == Spec => []StatusKnownWhenServing
<1>1. Inv => StatusKnownWhenServing
  BY DEF Inv, StartInv, MonitorInv, Starting, StatusKnownWhenServing
<1> QED  BY <1>1, Invariance, PTL

(* Without a database no page and no probe is lost in a panic, and a page   *)
(* is answered with the one of the unavailable database.                    *)
THEOREM PagesOutlive == Spec => []PagesOutliveTheDatabase
<1>1. Inv => PagesOutliveTheDatabase
  BY DEF Inv, RequestInv, Fine, Clients, PagesOutliveTheDatabase
<1> QED  BY <1>1, Invariance, PTL

(* Cron starts no scan after a Stop that found the scheduler started.       *)
THEOREM SchedulerRests == Spec => StoppedSchedulerRests
<1>1. Inv /\ [Next]_vars => [cron'.jobs > cron.jobs => ~ hist.rests]_vars
  <2> SUFFICES ASSUME Inv, Next, cron'.jobs > cron.jobs, hist.rests PROVE FALSE
    OBVIOUS
  <2>1. TypeOK /\ ~ cron.running /\ bg \in {"none", "done"} /\ cron.jobs \in Nat
    BY ConstantsAssumption DEF Inv, CronInv, TypeOK, CronState
  <2>2. CASE MainStep
    <3>1. cron'.jobs = cron.jobs
      BY <2>1, <2>2, MainTouches
    <3> QED  BY <2>1, <3>1
  <2>3. CASE BackgroundStep
    BY <2>1, <2>3 DEF BackgroundStep, InitialScanReturns, StartScheduler, CronFires, JobReturns,
       TypeOK, CronState
  <2>4. CASE ~ MainStep /\ ~ BackgroundStep
    BY <2>1, <2>4 DEF Next, ServerStep, RequestStep, Handle, DatabaseChanges, Signal
  <2> QED  BY <2>2, <2>3, <2>4
<1> QED  BY <1>1, Invariance, PTL DEF Spec, StoppedSchedulerRests
=============================================================================
