--------------------------- MODULE OrbitInstances ---------------------------
(***************************************************************************)
(* The life of a resource ("instance") of the portal: the rows of the      *)
(* instances table, the port leases of user_ports, and the handlers of     *)
(* portalapp/app.py that waitress runs in parallel threads over them,      *)
(* together with the background threads that save images and stop expired  *)
(* resources.  Every SQL statement and every call of the root helper is a  *)
(* step of its own; between two steps a handler acts on the row it read    *)
(* (its locals), which may have become stale.                              *)
(***************************************************************************)
EXTENDS OrbitSlurm, FiniteSets

CONSTANTS Names, NoName,   \* task names
          MaxRow,          \* bound on the AUTOINCREMENT ids of instances
          Threads,         \* bound on handlers and workers that run at once
          Ticker,          \* the expiry thread
          Ops,             \* the operations users (and the expiry thread) perform
          AutoSave         \* AUTO_SAVE_ON_EXPIRE

AllOps == {"apply", "restart", "stop", "delete", "reconcile", "save",
           "expire", "register", "release"}

ASSUME InstancesAssumption ==
    /\ NoName \notin Names
    /\ MaxRow \in Nat
    /\ Ticker \notin Threads
    /\ Ops \subseteq AllOps
    /\ AutoSave \in BOOLEAN

NoRow == 0
RowIds == 1 .. MaxRow
Workers == Threads \cup {Ticker}

VARIABLES row,      \* instances: id -> record; state "absent" when there is none
          lastRow,  \* the last id given out, never used again
          lease,    \* user_ports: port -> the user who holds it
          thread,   \* what each thread is doing, with its locals
          todo      \* the rows the expiry scan has listed and not yet handled

vars == <<slurmVars, row, lastRow, lease, thread, todo>>

Steps == {"idle", "alloc", "submit", "insert", "update", "rollback", "unlease",
          "kill", "stopped", "rmlog", "query", "write_live", "write_ended",
          "mark", "flag", "export", "unflag", "expired", "release", "unport",
          "claim", "flag_expired", "start"}

Instance == [state   : {"absent"} \cup StateCN,
             owner   : Users \cup {NoUser},
             name    : Names \cup {NoName},
             job     : 0 .. MaxJob,
             port    : Ports \cup {NoPort},
             clock   : {"unset", "started", "due"},
             claimed : BOOLEAN,
             saving  : BOOLEAN]

(* The locals of a thread: the row it works on and its owner, the job id   *)
(* it read from that row (old), the job it submitted itself (new), the     *)
(* port it leased and whether that lease still exists, whether the row it  *)
(* read had no started_at (fresh), and the state to write (seen).          *)
Locals == [op     : AllOps \cup {"none"},
           step   : Steps,
           row    : 0 .. MaxRow,
           user   : Users \cup {NoUser},
           name   : Names \cup {NoName},
           old    : 0 .. MaxJob,
           new    : 0 .. MaxJob,
           port   : Ports \cup {NoPort},
           leased : BOOLEAN,
           fresh  : BOOLEAN,
           seen   : StateCN]

Listed == [row : RowIds, job : 0 .. MaxJob]

TypeOK ==
    /\ SlurmTypeOK
    /\ row \in [RowIds -> Instance]
    /\ lastRow \in 0 .. MaxRow
    /\ lease \in [Ports -> Users \cup {NoUser}]
    /\ thread \in [Workers -> Locals]
    /\ todo \subseteq Listed

NoInstance == [state |-> "absent", owner |-> NoUser, name |-> NoName,
               job |-> NoJob, port |-> NoPort, clock |-> "unset",
               claimed |-> FALSE, saving |-> FALSE]

Idle == [op |-> "none", step |-> "idle", row |-> NoRow, user |-> NoUser,
         name |-> NoName, old |-> NoJob, new |-> NoJob, port |-> NoPort,
         leased |-> FALSE, fresh |-> FALSE, seen |-> "UNKNOWN"]

Init ==
    /\ SlurmInit
    /\ row = [i \in RowIds |-> NoInstance]
    /\ lastRow = 0
    /\ lease = [p \in Ports |-> NoUser]
    /\ thread = [t \in Workers |-> Idle]
    /\ todo = {}

-----------------------------------------------------------------------------
Present(i) == row[i].state # "absent"
Active(i) == row[i].state \in ActiveStates
Terminal(i) == Present(i) /\ ~Active(i)

At(t, s) == thread[t].step = s
Become(t, l) == thread' = [thread EXCEPT ![t] = l]
Goto(t, s) == Become(t, [thread[t] EXCEPT !.step = s])
Finish(t) == Become(t, Idle)

(* An UPDATE ... WHERE id=? changes nothing when the row has been deleted. *)
Update(i, r) == row' = IF Present(i) THEN [row EXCEPT ![i] = r] ELSE row
SetState(i, s) == Update(i, [row[i] EXCEPT !.state = s])
SetSaving(i, b) == Update(i, [row[i] EXCEPT !.saving = b])

(* A handler starts in a free thread by reading row i.                     *)
Begin(t, o, i, s) ==
    /\ o \in Ops
    /\ At(t, "idle")
    /\ Become(t, [Idle EXCEPT !.op = o, !.step = s, !.row = i,
                     !.user = row[i].owner, !.old = row[i].job,
                     !.fresh = (o = "reconcile" /\ row[i].clock = "unset")])
    /\ UNCHANGED <<slurmVars, row, lastRow, lease, todo>>

-----------------------------------------------------------------------------
(* Port leases: alloc_port, del_port, the unique indexes                   *)

(* Variant: the ports of active instances are looked at, the leases are not. *)
FreePortIgnoringLeases(p) == \A i \in RowIds : Active(i) => row[i].port # p

(* A port no row of user_ports and no active instance has.                 *)
FreePort(p) == lease[p] = NoUser /\ \A i \in RowIds : Active(i) => row[i].port # p

AllocPort(t) ==
    /\ At(t, "alloc")
    /\ \E p \in Ports :
        /\ FreePort(p)
        /\ lease' = [lease EXCEPT ![p] = thread[t].user]
        /\ Become(t, [thread[t] EXCEPT !.step = "submit", !.port = p, !.leased = TRUE])
    /\ UNCHANGED <<slurmVars, row, lastRow, todo>>

NoPortLeft(t) ==
    /\ At(t, "alloc")
    /\ \A p \in Ports : ~FreePort(p)
    /\ Finish(t)
    /\ UNCHANGED <<slurmVars, row, lastRow, lease, todo>>

(* del_port names the lease by its id, which is never given out again: if  *)
(* the lease is gone already nothing happens, and whoever else knows the   *)
(* id of a lease that goes now holds nothing any more.                     *)
DelPort(t) ==
    LET me == thread[t]
        Forget(l) == IF me.leased /\ l.port = me.port
                     THEN [l EXCEPT !.leased = FALSE] ELSE l IN
    /\ lease' = IF me.leased THEN [lease EXCEPT ![me.port] = NoUser] ELSE lease
    /\ thread' = [x \in Workers |-> IF x = t THEN Idle ELSE Forget(thread[x])]

(* Variant: the lease is deleted by port number instead of by its id.      *)
UnleaseByPort(t) ==
    /\ At(t, "unlease")
    /\ lease' = [lease EXCEPT ![thread[t].port] = NoUser]
    /\ Finish(t)
    /\ UNCHANGED <<slurmVars, row, lastRow, todo>>

Unlease(t) ==
    /\ At(t, "unlease")
    /\ DelPort(t)
    /\ UNCHANGED <<slurmVars, row, lastRow, todo>>

(* Unique indexes of instances: (user, name), and (node, port) among the   *)
(* active rows (the node is not modelled: equal ports may or may not meet  *)
(* on one node).                                                           *)
NameTaken(u, n) == \E i \in RowIds : Present(i) /\ row[i].owner = u /\ row[i].name = n
PortClash(i, p) == \E k \in RowIds \ {i} : Active(k) /\ row[k].port = p

-----------------------------------------------------------------------------
(* apply_submit and instance_restart: lease a port, submit, record the job *)

Applying == {t \in Threads : thread[t].op = "apply"}

BeginApply(t) ==
    /\ "apply" \in Ops
    /\ At(t, "idle")
    /\ lastRow + Cardinality(Applying) < MaxRow      \* the bound on row ids
    /\ \E u \in Users, n \in Names :
        /\ ~NameTaken(u, n)
        /\ Become(t, [Idle EXCEPT !.op = "apply", !.step = "alloc",
                         !.user = u, !.name = n])
    /\ UNCHANGED <<slurmVars, row, lastRow, lease, todo>>

(* Variant: restart does not look at the state of the resource.            *)
BeginRestartUnguarded(t, i) ==
    /\ Present(i)
    /\ ~row[i].saving
    /\ Begin(t, "restart", i, "alloc")

BeginRestart(t, i) ==
    /\ Terminal(i)
    /\ ~row[i].saving
    /\ Begin(t, "restart", i, "alloc")

SubmitOk(t) ==
    /\ At(t, "submit")
    /\ Sbatch(thread[t].user, thread[t].port)
    /\ Become(t, [thread[t] EXCEPT !.new = NewJob,
                     !.step = IF thread[t].op = "apply" THEN "insert" ELSE "update"])
    /\ UNCHANGED <<row, lastRow, lease, todo>>

SubmitFails(t) ==
    /\ At(t, "submit")
    /\ Goto(t, "unlease")
    /\ UNCHANGED <<slurmVars, row, lastRow, lease, todo>>

(* sbatch queued the job, but ctl.run gave up waiting for the helper.      *)
SubmitLost(t) ==
    /\ "lost_reply" \in Faults
    /\ At(t, "submit")
    /\ Sbatch(thread[t].user, thread[t].port)
    /\ Goto(t, "unlease")
    /\ UNCHANGED <<row, lastRow, lease, todo>>

(* Variant: ids as SQLite gives them out without AUTOINCREMENT.            *)
NewRowReused == 1 + CHOOSE n \in 0 .. MaxRow :
                        /\ n = 0 \/ Present(n)
                        /\ \A i \in RowIds : Present(i) => i <= n

NewRow == lastRow + 1

InsertOk(t) ==
    LET me == thread[t] IN
    /\ At(t, "insert")
    /\ ~NameTaken(me.user, me.name)
    /\ NewRow \in RowIds
    /\ lastRow' = NewRow
    /\ row' = [row EXCEPT ![NewRow] = [NoInstance EXCEPT !.state = "PENDING",
                  !.owner = me.user, !.name = me.name, !.job = me.new,
                  !.port = me.port]]
    /\ Finish(t)
    /\ UNCHANGED <<slurmVars, lease, todo>>

(* Variant: the lease is released, the job is not rolled back.             *)
InsertConflictsWithoutRollback(t) ==
    LET me == thread[t] IN
    /\ At(t, "insert")
    /\ NameTaken(me.user, me.name) \/ PortClash(NoRow, me.port)
    /\ Goto(t, "unlease")
    /\ UNCHANGED <<slurmVars, row, lastRow, lease, todo>>

InsertConflicts(t) ==
    LET me == thread[t] IN
    /\ At(t, "insert")
    /\ NameTaken(me.user, me.name) \/ PortClash(NoRow, me.port)
    /\ Goto(t, "rollback")
    /\ UNCHANGED <<slurmVars, row, lastRow, lease, todo>>

(* rollback_submit: whatever kill answers, the lease goes next.            *)
Rollback(t) ==
    LET me == thread[t] IN
    /\ At(t, "rollback")
    /\ \/ Scancel(me.user, me.new)
       \/ (MissedInQueue(me.new) \/ KillRefused(me.user, me.new)) /\ UNCHANGED slurmVars
    /\ Become(t, [me EXCEPT !.step = "unlease", !.new = NoJob])
    /\ UNCHANGED <<row, lastRow, lease, todo>>

(* Variant: the UPDATE of a restart without its WHERE id=?.                *)
RestartUpdateEverywhere(t) ==
    LET me == thread[t] IN
    /\ At(t, "update")
    /\ row' = [i \in RowIds |->
                  IF Present(i)
                  THEN [row[i] EXCEPT !.state = "PENDING", !.job = me.new,
                           !.port = me.port, !.clock = "unset", !.claimed = FALSE]
                  ELSE row[i]]
    /\ Finish(t)
    /\ UNCHANGED <<slurmVars, lastRow, lease, todo>>

(* The UPDATE of a restart, on the row id alone; it leaves saving alone.   *)
RestartUpdate(t) ==
    LET me == thread[t] IN
    /\ At(t, "update")
    /\ Update(me.row, [row[me.row] EXCEPT !.state = "PENDING", !.job = me.new,
                          !.port = me.port, !.clock = "unset", !.claimed = FALSE])
    /\ Finish(t)
    /\ UNCHANGED <<slurmVars, lastRow, lease, todo>>

(* Its IntegrityError is not caught: the request ends with an error.       *)
RestartConflicts(t) ==
    /\ At(t, "update")
    /\ Present(thread[t].row)
    /\ PortClash(thread[t].row, thread[t].port)
    /\ Finish(t)
    /\ UNCHANGED <<slurmVars, row, lastRow, lease, todo>>

-----------------------------------------------------------------------------
(* instance_stop, and the kill at the end of an expired resource           *)

BeginStop(t, i) ==
    /\ Active(i)
    /\ ~row[i].saving
    /\ Begin(t, "stop", i, "kill")

AfterKill(t) == IF thread[t].op = "stop" THEN "stopped" ELSE "expired"

(* ctl.kill on the job the thread has read.                                *)
Kill(t) ==
    LET me == thread[t] IN
    /\ At(t, "kill")
    /\ Scancel(me.user, me.old)
    /\ Become(t, [me EXCEPT !.step = AfterKill(t), !.seen = "CANCELLED"])
    /\ UNCHANGED <<row, lastRow, lease, todo>>

KillFindsEnded(t) ==
    LET me == thread[t] IN
    /\ At(t, "kill")
    /\ MissedInQueue(me.old)
    /\ \E s \in AlreadyEndedReplies(me.old) :
          Become(t, [me EXCEPT !.step = AfterKill(t), !.seen = s])
    /\ UNCHANGED <<slurmVars, row, lastRow, lease, todo>>

(* Variant: the expiry gives up on a CtlError as a stop does.              *)
AfterCtlErrorGivingUp(t) == Finish(t)

(* CtlError: a stop gives up; an expired resource is recorded all the same.*)
AfterCtlError(t) ==
    IF thread[t].op = "stop"
    THEN Finish(t)
    ELSE Become(t, [thread[t] EXCEPT !.step = "expired", !.seen = "CANCELLED"])

KillFails(t) ==
    /\ At(t, "kill")
    /\ KillRefused(thread[t].user, thread[t].old)
    /\ AfterCtlError(t)
    /\ UNCHANGED <<slurmVars, row, lastRow, lease, todo>>

(* scancel took effect, but ctl.run gave up waiting for the helper.        *)
KillLost(t) ==
    /\ "lost_reply" \in Faults
    /\ At(t, "kill")
    /\ Scancel(thread[t].user, thread[t].old)
    /\ AfterCtlError(t)
    /\ UNCHANGED <<row, lastRow, lease, todo>>

StopWrite(t) ==
    /\ At(t, "stopped")
    /\ SetState(thread[t].row, thread[t].seen)
    /\ Finish(t)
    /\ UNCHANGED <<slurmVars, lastRow, lease, todo>>

-----------------------------------------------------------------------------
(* instance_delete: read and checked, the log removed, then deleted        *)

(* Variant: delete does not look at the state of the resource.             *)
BeginDeleteUnguarded(t, i) ==
    /\ Present(i)
    /\ ~row[i].saving
    /\ Begin(t, "delete", i, "rmlog")

BeginDelete(t, i) ==
    /\ Terminal(i)
    /\ ~row[i].saving
    /\ Begin(t, "delete", i, "rmlog")

DeleteRow(t) ==
    /\ At(t, "rmlog")
    /\ row' = [row EXCEPT ![thread[t].row] = NoInstance]
    /\ Finish(t)
    /\ UNCHANGED <<slurmVars, lastRow, lease, todo>>

-----------------------------------------------------------------------------
(* _reconcile_instance, on every view of the resources page                *)

BeginReconcile(t, i) ==
    /\ Active(i)
    /\ Begin(t, "reconcile", i, "query")

Query(t) ==
    LET j == thread[t].old IN
    /\ At(t, "query")
    /\ \/ /\ SeenInQueue(j)
          /\ Become(t, [thread[t] EXCEPT !.step = "write_live", !.seen = LiveReply(j)])
       \/ /\ MissedInQueue(j)
          /\ \E s \in EndedReplies(j) :
                Become(t, [thread[t] EXCEPT !.step = "write_ended", !.seen = s])
    /\ UNCHANGED <<slurmVars, row, lastRow, lease, todo>>

(* CtlError: only last_error is written.                                   *)
QueryFails(t) ==
    /\ "query" \in Faults
    /\ At(t, "query")
    /\ Finish(t)
    /\ UNCHANGED <<slurmVars, row, lastRow, lease, todo>>

(* Variant: the live answer is written whatever the row says by now.       *)
ReconcileLiveUnconditionally(t) ==
    LET me == thread[t] IN
    /\ At(t, "write_live")
    /\ SetState(me.row, me.seen)
    /\ IF me.seen = "RUNNING" /\ me.fresh THEN Goto(t, "mark") ELSE Finish(t)
    /\ UNCHANGED <<slurmVars, lastRow, lease, todo>>

(* set_instance_state_if_active: a compare-and-set on the state alone.     *)
ReconcileLive(t) ==
    LET me == thread[t] IN
    /\ At(t, "write_live")
    /\ IF Active(me.row)
       THEN /\ SetState(me.row, me.seen)
            /\ IF me.seen = "RUNNING" /\ me.fresh THEN Goto(t, "mark") ELSE Finish(t)
       ELSE Finish(t) /\ UNCHANGED row
    /\ UNCHANGED <<slurmVars, lastRow, lease, todo>>

(* mark_started: only while started_at is empty.                           *)
MarkStarted(t) ==
    LET i == thread[t].row IN
    /\ At(t, "mark")
    /\ IF row[i].clock = "unset"
       THEN Update(i, [row[i] EXCEPT !.clock = "started"])
       ELSE UNCHANGED row
    /\ Finish(t)
    /\ UNCHANGED <<slurmVars, lastRow, lease, todo>>

(* set_instance_state: unconditional.                                      *)
ReconcileEnded(t) ==
    /\ At(t, "write_ended")
    /\ SetState(thread[t].row, thread[t].seen)
    /\ Finish(t)
    /\ UNCHANGED <<slurmVars, lastRow, lease, todo>>

-----------------------------------------------------------------------------
(* instance_save_image and _save_worker                                    *)

BeginSave(t, i) ==
    /\ row[i].state = "RUNNING"
    /\ ~row[i].saving
    /\ Begin(t, "save", i, "flag")

(* The flag is set and the worker started.                                 *)
FlagSaving(t) ==
    /\ At(t, "flag")
    /\ SetSaving(thread[t].row, TRUE)
    /\ Goto(t, "export")
    /\ UNCHANGED <<slurmVars, lastRow, lease, todo>>

(* The export ends, well or with a CtlError: both lead to the same next    *)
(* statement.                                                              *)
ExportEnds(t) ==
    /\ At(t, "export")
    /\ Goto(t, "unflag")
    /\ UNCHANGED <<slurmVars, row, lastRow, lease, todo>>

UnflagSaving(t) ==
    /\ At(t, "unflag")
    /\ SetSaving(thread[t].row, FALSE)
    /\ IF thread[t].op = "save" THEN Finish(t) ELSE Goto(t, "kill")
    /\ UNCHANGED <<slurmVars, lastRow, lease, todo>>

(* A _save_worker thread, and not the scan, is between its first and its   *)
(* last statement.                                                         *)
InWorker(t) ==
    /\ t # Ticker
    /\ thread[t].op \in {"save", "expire"}
    /\ thread[t].step \in {"export", "unflag", "kill", "expired", "release"}

(* Variant: an unforeseen exception just ends the worker.                  *)
WorkerExceptionKeepingFlag(t) ==
    /\ "exception" \in Faults
    /\ InWorker(t)
    /\ Finish(t)
    /\ UNCHANGED <<slurmVars, row, lastRow, lease, todo>>

(* Any exception but a CtlError, at any statement of the worker, resets    *)
(* the flag and ends it, so an expired resource may not be stopped.        *)
WorkerException(t) ==
    /\ "exception" \in Faults
    /\ InWorker(t)
    /\ SetSaving(thread[t].row, FALSE)
    /\ Finish(t)
    /\ UNCHANGED <<slurmVars, lastRow, lease, todo>>

-----------------------------------------------------------------------------
(* expiry_tick and _stop_after_expiry                                      *)

(* Time passes: the resource has used the hours it asked for.              *)
BecomesDue(i) ==
    /\ row[i].clock = "started"
    /\ row' = [row EXCEPT ![i].clock = "due"]
    /\ UNCHANGED <<slurmVars, lastRow, lease, thread, todo>>

(* running_unauto_saved, then the end of each listed row is compared.      *)
Expired(i) ==
    /\ row[i].state = "RUNNING"
    /\ ~row[i].saving
    /\ ~row[i].claimed
    /\ row[i].clock = "due"

NextInScan == [Idle EXCEPT !.op = "expire", !.step = "claim"]

Scan ==
    /\ "expire" \in Ops
    /\ At(Ticker, "idle")
    /\ todo' = {[row |-> i, job |-> row[i].job] : i \in {k \in RowIds : Expired(k)}}
    /\ todo' # {}
    /\ Become(Ticker, NextInScan)
    /\ UNCHANGED <<slurmVars, row, lastRow, lease>>

ScanEnds ==
    /\ At(Ticker, "claim")
    /\ todo = {}
    /\ Finish(Ticker)
    /\ UNCHANGED <<slurmVars, row, lastRow, lease, todo>>

(* Variant: the resource is handled without being claimed.                 *)
ClaimWithoutMark(x) ==
    /\ At(Ticker, "claim")
    /\ todo' = todo \ {x}
    /\ IF Present(x.row)
       THEN Become(Ticker, [NextInScan EXCEPT !.step = "flag_expired",
                               !.row = x.row, !.old = x.job, !.user = row[x.row].owner])
       ELSE UNCHANGED thread
    /\ UNCHANGED <<slurmVars, row, lastRow, lease>>

(* claim_auto_save: a compare-and-set on auto_saved_at.                    *)
Claim(x) ==
    /\ At(Ticker, "claim")
    /\ todo' = todo \ {x}
    /\ IF Present(x.row) /\ ~row[x.row].claimed
       THEN /\ row' = [row EXCEPT ![x.row].claimed = TRUE]
            /\ Become(Ticker, [NextInScan EXCEPT !.step = "flag_expired",
                                 !.row = x.row, !.old = x.job, !.user = row[x.row].owner])
       ELSE UNCHANGED <<row, thread>>
    /\ UNCHANGED <<slurmVars, lastRow, lease>>

(* The flag is set; with AUTO_SAVE_ON_EXPIRE off the scan itself stops the *)
(* resource, otherwise it starts a worker that saves and then stops it.    *)
FlagExpired ==
    /\ At(Ticker, "flag_expired")
    /\ SetSaving(thread[Ticker].row, TRUE)
    /\ Goto(Ticker, IF AutoSave THEN "start" ELSE "kill")
    /\ UNCHANGED <<slurmVars, lastRow, lease, todo>>

StartWorker(t) ==
    /\ At(Ticker, "start")
    /\ At(t, "idle")
    /\ thread' = [thread EXCEPT
                     ![t] = [thread[Ticker] EXCEPT !.step = "export"],
                     ![Ticker] = NextInScan]
    /\ UNCHANGED <<slurmVars, row, lastRow, lease, todo>>

(* An exception in the scan (a locked database) ends the scan; what it had *)
(* claimed and flagged stays claimed and flagged.                          *)
ScanException ==
    /\ "scan" \in Faults
    /\ ~At(Ticker, "idle")
    /\ todo' = {}
    /\ Finish(Ticker)
    /\ UNCHANGED <<slurmVars, row, lastRow, lease>>

(* _stop_after_expiry: the state is written whatever the kill did, ...     *)
ExpiredWrite(t) ==
    /\ At(t, "expired")
    /\ SetState(thread[t].row, thread[t].seen)
    /\ Goto(t, "release")
    /\ UNCHANGED <<slurmVars, lastRow, lease, todo>>

(* Variant: the flag stays set after the resource was stopped.             *)
ExpiredReleaseKeepingFlag(t) ==
    /\ At(t, "release")
    /\ Become(t, IF t = Ticker THEN NextInScan ELSE Idle)
    /\ UNCHANGED <<slurmVars, row, lastRow, lease, todo>>

(* ... and the flag reset; the scan goes on with its next row.             *)
ExpiredRelease(t) ==
    /\ At(t, "release")
    /\ SetSaving(thread[t].row, FALSE)
    /\ Become(t, IF t = Ticker THEN NextInScan ELSE Idle)
    /\ UNCHANGED <<slurmVars, lastRow, lease, todo>>

-----------------------------------------------------------------------------
(* profile_port_add and profile_port_del                                   *)

RegisterPort(u, p) ==
    /\ "register" \in Ops
    /\ lease[p] = NoUser
    /\ lease' = [lease EXCEPT ![p] = u]
    /\ UNCHANGED <<slurmVars, row, lastRow, thread, todo>>

(* Variant: a port is released without asking whether a resource uses it.  *)
BeginReleaseUnguarded(t, p) ==
    /\ "release" \in Ops
    /\ At(t, "idle")
    /\ lease[p] \in Users
    /\ Become(t, [Idle EXCEPT !.op = "release", !.step = "unport",
                     !.user = lease[p], !.port = p, !.leased = TRUE])
    /\ UNCHANGED <<slurmVars, row, lastRow, lease, todo>>

BeginRelease(t, p) ==
    /\ "release" \in Ops
    /\ At(t, "idle")
    /\ lease[p] \in Users
    /\ \A i \in RowIds : ~(Active(i) /\ row[i].owner = lease[p] /\ row[i].port = p)
    /\ Become(t, [Idle EXCEPT !.op = "release", !.step = "unport",
                     !.user = lease[p], !.port = p, !.leased = TRUE])
    /\ UNCHANGED <<slurmVars, row, lastRow, lease, todo>>

ReleasePort(t) ==
    /\ At(t, "unport")
    /\ DelPort(t)
    /\ UNCHANGED <<slurmVars, row, lastRow, todo>>

-----------------------------------------------------------------------------
(* The portal process dies and is started again: threads and scan are      *)
(* gone, the database and the jobs remain, and init_db resets nothing.     *)
Crash ==
    /\ "crash" \in Faults
    /\ \E t \in Workers : thread[t] # Idle
    /\ thread' = [t \in Workers |-> Idle]
    /\ todo' = {}
    /\ UNCHANGED <<slurmVars, row, lastRow, lease>>

Request(t) ==
    \/ BeginApply(t)
    \/ \E i \in RowIds : BeginRestart(t, i) \/ BeginStop(t, i) \/ BeginDelete(t, i)
                         \/ BeginReconcile(t, i) \/ BeginSave(t, i)
    \/ \E p \in Ports : BeginRelease(t, p)

Submission(t) ==
    \/ AllocPort(t) \/ NoPortLeft(t) \/ Unlease(t)
    \/ SubmitOk(t) \/ SubmitFails(t) \/ SubmitLost(t)
    \/ InsertOk(t) \/ InsertConflicts(t) \/ Rollback(t)
    \/ RestartUpdate(t) \/ RestartConflicts(t)

Handling(t) ==
    \/ Kill(t) \/ KillFindsEnded(t) \/ KillFails(t) \/ KillLost(t) \/ StopWrite(t)
    \/ DeleteRow(t)
    \/ Query(t) \/ QueryFails(t) \/ ReconcileLive(t) \/ MarkStarted(t) \/ ReconcileEnded(t)
    \/ FlagSaving(t) \/ ExportEnds(t) \/ UnflagSaving(t) \/ WorkerException(t)
    \/ ExpiredWrite(t) \/ ExpiredRelease(t)
    \/ ReleasePort(t)

Ticking ==
    \/ Scan \/ ScanEnds \/ FlagExpired \/ ScanException
    \/ \E x \in todo : Claim(x)
    \/ \E t \in Threads : StartWorker(t)

Next ==
    \/ \E t \in Threads : Request(t)
    \/ \E t \in Workers : Submission(t) \/ Handling(t)
    \/ Ticking
    \/ \E u \in Users, p \in Ports : RegisterPort(u, p)
    \/ \E i \in RowIds : BecomesDue(i)
    \/ Crash
    \/ SlurmStep /\ UNCHANGED <<row, lastRow, lease, thread, todo>>

Spec == Init /\ [][Next]_vars

(* What the scheduler owes: a handler or worker that has begun goes on     *)
(* (waitress and the daemon threads run, every helper call has a timeout), *)
(* and the expiry loop wakes up every EXPIRY_POLL_S.  Starting a worker    *)
(* waits for nothing in the code, so requests that keep the model's few    *)
(* threads busy do not hold it off for ever (strong fairness).  Nobody     *)
(* owes a request, a lucky outcome of a call, or a step of Slurm.          *)
Fairness ==
    /\ \A t \in Workers : WF_vars(Submission(t)) /\ WF_vars(Handling(t))
    /\ WF_vars(Scan \/ ScanEnds \/ FlagExpired \/ \E x \in todo : Claim(x))
    /\ SF_vars(\E t \in Threads : StartWorker(t))

FairSpec == Spec /\ Fairness

-----------------------------------------------------------------------------
(* A submission that has its job id and has not recorded it yet.           *)
Carrying(t) == thread[t].step \in {"insert", "update", "rollback"}

(* No orphan: a job that holds or will hold resources is the job of an     *)
(* active row, or is about to be recorded or rolled back.  Otherwise it    *)
(* runs to its time limit and no page of the portal shows it.              *)
NoOrphan ==
    \A j \in JobIds : job[j].phase \in Up =>
        \/ \E i \in RowIds : Active(i) /\ row[i].job = j
        \/ \E t \in Workers : Carrying(t) /\ thread[t].new = j

(* However stale, the job a thread is about to cancel was never given to a *)
(* resource other than the one it works on; and a job that is still being  *)
(* recorded belongs to nobody else.                                        *)
NoForeignJob ==
    \A t \in Workers, i \in RowIds : Present(i) =>
        /\ thread[t].old # NoJob /\ i # thread[t].row => row[i].job # thread[t].old
        /\ Carrying(t) => row[i].job # thread[t].new

(* Row ids are never given out twice (AUTOINCREMENT): a handler whose row  *)
(* was deleted meanwhile never writes to the resource of somebody else.    *)
OwnRowOnly ==
    \A t \in Workers : LET i == thread[t].row IN
        i # NoRow /\ Present(i) => row[i].owner = thread[t].user

(* Why it holds: a job id is linked to a row when the row has it, when a   *)
(* thread read it there, or when the expiry scan listed it there; it is    *)
(* never linked to two rows, nor to any row before it is recorded.         *)
Linked(j, i) ==
    \/ Present(i) /\ row[i].job = j
    \/ \E t \in Workers : thread[t].row = i /\ thread[t].old = j
    \/ \E x \in todo : x.row = i /\ x.job = j

LinkedGiven == \A j \in JobIds, i \in RowIds : Linked(j, i) => j <= lastJob
LinkedOnce  == \A j \in JobIds, i, k \in RowIds : Linked(j, i) /\ Linked(j, k) => i = k
CarriedGiven == \A t \in Workers : Carrying(t) => thread[t].new \in 1 .. lastJob
CarriedUnlinked == \A t \in Workers, i \in RowIds :
                       Carrying(t) => ~Linked(thread[t].new, i)
CarriedOnce == \A s, t \in Workers : s # t /\ Carrying(s) /\ Carrying(t)
                                       => thread[s].new # thread[t].new
OldHasRow   == \A t \in Workers : thread[t].old # NoJob => thread[t].row # NoRow

OneHome == /\ LinkedGiven /\ LinkedOnce /\ OldHasRow
           /\ CarriedGiven /\ CarriedUnlinked /\ CarriedOnce

(* Two jobs that are up never listen on the same port (alloc_port and the  *)
(* leases, across submissions that fail, are rolled back or overlap).      *)
UpPortsDistinct ==
    \A j, k \in JobIds :
        j # k /\ job[j].phase \in Up /\ job[k].phase \in Up => job[j].port # job[k].port

(* The port of an active row is leased to the owner of the row, whatever   *)
(* ports users register and release meanwhile.                             *)
ActivePortLeased ==
    \A i \in RowIds : Active(i) => lease[row[i].port] = row[i].owner

(* A lease is taken away only by a handler of the user who holds it: a     *)
(* submission that fails late does not delete the lease that somebody has  *)
(* taken on its port after its own was released in the profile.            *)
LeaseTakenByHolder ==
    [][\A p \in Ports : lease[p] \in Users /\ lease'[p] # lease[p] =>
          \E t \in Workers : /\ thread[t].user = lease[p] /\ thread[t].port = p
                             /\ At(t, "unlease") \/ At(t, "unport")]_vars

(* The saving flag blocks stop, restart and delete, so somebody must be    *)
(* left who will reset it.                                                 *)
SavingHasWorker ==
    \A i \in RowIds : row[i].saving =>
        \E t \in Workers : /\ thread[t].row = i
                           /\ thread[t].op \in {"save", "expire"}
                           /\ thread[t].step \in {"start", "export", "unflag",
                                                  "kill", "expired", "release"}

(* claim_auto_save: at no time do two threads handle the expiry of one job.*)
OneExpiryPerJob ==
    \A s, t \in Workers :
        s # t /\ thread[s].op = "expire" /\ thread[t].op = "expire"
        /\ thread[s].old # NoJob => thread[s].old # thread[t].old

(* A row that has reached a terminal state becomes active again only by a  *)
(* restart: the CAS of set_instance_state_if_active keeps a late answer of *)
(* Slurm from bringing it back.                                            *)
NoResurrection ==
    [][\A i \in RowIds : Terminal(i) /\ Active(i)' =>
          \E t \in Workers : At(t, "update") /\ thread[t].row = i]_vars

(* A reconciliation does not show a resource as running again that has     *)
(* been cancelled while it waited for Slurm's answer: what the compare-    *)
(* and-set is there for.                                                   *)
StaysCancelled ==
    [][\A t \in Workers : thread[t].op = "reconcile" /\ thread'[t] # thread[t] =>
          LET i == thread[t].row
          IN  ~(row[i].state = "CANCELLED" /\ row'[i].state = "RUNNING")]_vars

(* A row lets go of a job (restart takes another one, delete forgets it)   *)
(* only when that job is no longer up.                                     *)
ForgetsOnlyEndedJobs ==
    [][\A i \in RowIds : Present(i) /\ row'[i].job # row[i].job =>
          job[row[i].job].phase \notin Up]_vars

(* The expiry stops resources whose own hours are used up: when it makes   *)
(* an active row terminal, that row (not an earlier run of it) is due.     *)
ExpiryStopsDueOnly ==
    [][\A t \in Workers : At(t, "expired") /\ thread'[t].step = "release" =>
          LET i == thread[t].row IN Active(i) => row[i].clock = "due"]_vars

(* The flag of a finished or failed save is eventually reset.              *)
SavingEnds == \A i \in RowIds : row[i].saving ~> ~row[i].saving

(* A running resource that has used up its hours is eventually stopped (or *)
(* restarted, or gone), even when nobody looks at it and scancel fails;    *)
(* only a manual save holds the scan off.                                  *)
Due(i) == row[i].state = "RUNNING" /\ row[i].clock = "due"
ManualSave(i) == \E t \in Workers : thread[t].op = "save" /\ thread[t].row = i

DueStops == \A i \in RowIds : Due(i) ~> ~Due(i) \/ ManualSave(i)
=============================================================================
