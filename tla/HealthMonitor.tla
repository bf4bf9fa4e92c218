---------------------------- MODULE HealthMonitor -----------------------------
(***************************************************************************)
(* The monitor of the database (pkg/health/health.go): a check at the start *)
(* and one at each tick, each a ping under the write lock that those who    *)
(* read the status wait for.                                                *)
(*                                                                         *)
(* The module holds the monitor's state, its steps and what the pages read  *)
(* from it; AppLifecycle runs it beside the rest of the process.            *)
(***************************************************************************)
EXTENDS Naturals

CONSTANT MaxOpenConns  \* cfg.Database.MaxOpenConns: the size of the pool

ASSUME PoolAssumption == MaxOpenConns \in Nat \ {0}

VARIABLES
  db,     \* "up": it answers; "refuses" at once; "hangs": it does not answer
  inUse,  \* the connections of the pool that handlers hold
  mon     \* the monitor

DatabaseStates == {"up", "refuses", "hangs"}
MonitorPCs == {"none", "first", "loop", "check", "ended"}

(* status is h.status; cancelled: h.cancel has been called.                 *)
MonitorState ==
  [pc : MonitorPCs, status : {"unknown", "healthy", "unhealthy"}, cancelled : BOOLEAN]

NoMonitor == [pc |-> "none", status |-> "unknown", cancelled |-> FALSE]

(* The write lock: checkHealth holds it while it pings.                     *)
Locked == mon.pc \in {"first", "check"}

(* A connection is there for the ping.                                      *)
FreeConn == inUse < MaxOpenConns

----------------------------------------------------------------------------
(* The steps *)

(* Mutant: the first check is left to the first tick.                       *)
StartMonitor_NoCheck == mon' = [mon EXCEPT !.pc = "loop"]

(* Start: the first check runs before Start returns.                        *)
StartMonitor == mon' = [mon EXCEPT !.pc = "first"]

(* Stop: what it cancels is the context of the loop and of the pings.       *)
StopMonitor == mon' = [mon EXCEPT !.cancelled = TRUE]

(* The select of the loop takes a tick, which may come at any time and even *)
(* after Stop, ...                                                          *)
CheckBegins ==
  /\ mon.pc = "loop"
  /\ mon' = [mon EXCEPT !.pc = "check"]

(* ... or the end of its context.                                           *)
LoopEnds ==
  /\ mon.pc = "loop" /\ mon.cancelled
  /\ mon' = [mon EXCEPT !.pc = "ended"]

(* Mutant of CheckEnds: the loop gives up with a failed check.              *)
CheckEnds_GivesUp(status) ==
  mon' = [mon EXCEPT !.pc = IF status = "healthy" THEN "loop" ELSE "ended",
                     !.status = status]

CheckEnds(status) == mon' = [mon EXCEPT !.pc = "loop", !.status = status]

(* A ping whose context is done fails, whatever the database does.          *)
PingAnswers ==
  /\ Locked /\ db = "up" /\ FreeConn /\ ~ mon.cancelled
  /\ CheckEnds("healthy")

PingFails ==
  /\ Locked
  /\ \/ mon.cancelled
     \/ db = "refuses" /\ FreeConn
  /\ CheckEnds("unhealthy")

(* Mutant: the ping has no timeout of its own.                              *)
PingTimesOut_Never == FALSE /\ UNCHANGED mon

(* After 5 s without an answer or without a connection.                     *)
PingTimesOut ==
  /\ Locked
  /\ db = "hangs" \/ ~ FreeConn
  /\ CheckEnds("unhealthy")

PingStep == PingAnswers \/ PingFails \/ PingTimesOut

MonitorStep ==
  /\ CheckBegins \/ LoopEnds \/ PingStep
  /\ UNCHANGED <<db, inUse>>

----------------------------------------------------------------------------
(* What the pages make of it *)

IsHealthy == mon.status = "healthy"

(* DatabaseHealthHandler: the status of the response is that of IsConnected. *)
DatabaseHealthCode == IF IsHealthy THEN "200" ELSE "503"

(* A Go value of type any: == compares the dynamic types, too.              *)
Any(type, value) == [type |-> type, value |-> value]

(* HealthCheckHandler: "overall" holds a health.Status, or without a        *)
(* monitor a string; "healthy" is a string.                                 *)
HealthCheckCode ==
  LET overall == IF mon.pc = "none" THEN Any("string", "unhealthy")
                 ELSE Any("health.Status", mon.status)
  IN  IF overall # Any("string", "healthy") THEN "503" ELSE "200"
=============================================================================
