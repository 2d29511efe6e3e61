-------------------------- MODULE OrbitOrphanProofs --------------------------
(***************************************************************************)
(* What a handler may still believe when it writes: an answer that a job   *)
(* is over never brings a resource back to life, a resource lets go of a   *)
(* job only when that job is over, and no job that is up is left without a *)
(* resource that shows it.                                                 *)
(***************************************************************************)
EXTENDS OrbitPortsProofs

-----------------------------------------------------------------------------
(* The steps a handler of each kind goes through                           *)

SubmissionSteps == {"alloc", "submit", "insert", "update", "rollback", "unlease"}

(* The steps at which a handler has been told that its job is over.        *)
ToldEnded == {"stopped", "expired", "write_ended"}

(* A submission is an apply or a restart, and only a restart updates a row *)
(* and never conflicts with a name; what is about to be written for a job  *)
(* that has ended is no active state, and for a live one it is.            *)
InOrder(l) ==
    /\ l.step \in SubmissionSteps => l.op \in {"apply", "restart"}
    /\ l.op = "restart" => /\ "restart" \in Ops
                           /\ l.step \in {"alloc", "submit", "update", "unlease"}
    /\ l.op = "apply" => l.step \in SubmissionSteps \ {"update"}
    /\ "squeue" \notin Faults /\ l.step \in ToldEnded => l.seen \notin ActiveStates
    /\ "configuring" \notin Faults /\ l.step = "write_live" => l.seen \in ActiveStates

(* The expiry thread does nothing but scan.                                *)
TickerScans == /\ \/ thread[Ticker] = Idle
                  \/ "expire" \in Ops /\ thread[Ticker].op = "expire"
               /\ "expire" \in Ops \/ todo = {}

NoneConfigures ==
    "configuring" \notin Faults => \A j \in JobIds : job[j].phase # "CONFIGURING"

StepsInv == TickerScans /\ NoneConfigures /\ \A t \in Workers : InOrder(thread[t])

LEMMA IdleInOrder == InOrder(Idle) /\ InOrder(NextInScan)
  BY DEF InOrder, Idle, NextInScan, SubmissionSteps, ToldEnded

LEMMA StepsBecome ==
    ASSUME TypeOK, StepsInv, NoneConfigures', todo' \subseteq todo,
           NEW t \in Workers, NEW l, Become(t, l),
           InOrder(l) \/ l \in {Idle, NextInScan},
           t = Ticker => l = Idle \/ ("expire" \in Ops /\ l.op = "expire")
    PROVE  StepsInv'
  <1>1. thread' = [thread EXCEPT ![t] = l] /\ thread \in [Workers -> Locals] /\ InOrder(l)
    BY IdleInOrder DEF Become, TypeOK
  <1>2. \A w \in Workers : InOrder(thread'[w])
    BY <1>1 DEF StepsInv
  <1>3. TickerScans'
    BY <1>1 DEF StepsInv, TickerScans, Workers
  <1>4. QED
    BY <1>2, <1>3 DEF StepsInv, InOrder

LEMMA StepsFinish ==
    ASSUME TypeOK, StepsInv, NoneConfigures', todo' \subseteq todo,
           NEW t \in Workers, Finish(t)
    PROVE  StepsInv'
  BY StepsBecome DEF Finish

(* A thread that is not idle goes on with its operation.                   *)
LEMMA StepsGoOn ==
    ASSUME TypeOK, StepsInv, NoneConfigures', todo' \subseteq todo,
           NEW t \in Workers, ~At(t, "idle"), NEW l, Become(t, l), InOrder(l),
           l.op = thread[t].op
    PROVE  StepsInv'
  <1>1. Idle.step = "idle"
    BY DEF Idle
  <1>2. QED
    BY <1>1, StepsBecome DEF StepsInv, TickerScans, At

LEMMA StepsGoto ==
    ASSUME TypeOK, StepsInv, NoneConfigures', todo' \subseteq todo,
           NEW t \in Workers, ~At(t, "idle"), NEW s, Goto(t, s),
           s \notin ToldEnded \cup {"write_live"},
           \/ s \notin SubmissionSteps /\ thread[t].step \notin SubmissionSteps
           \/ thread[t].step = "submit" /\ s = "unlease"
           \/ thread[t].step = "insert" /\ s = "rollback"
    PROVE  StepsInv'
  <1>1. PICK m \in Locals : m = thread[t]
    BY DEF TypeOK
  <1>2. PICK l : l = [m EXCEPT !.step = s]
    OBVIOUS
  <1>3. Become(t, l) /\ l.step = s /\ l.op = m.op /\ l.seen = m.seen
    BY <1>1, <1>2 DEF Goto, Locals
  <1>4. InOrder(l)
    BY <1>1, <1>3 DEF StepsInv, InOrder, SubmissionSteps
  <1>5. QED
    BY <1>1, <1>3, <1>4, StepsGoOn

LEMMA SameConfigures ==
    ASSUME StepsInv, UNCHANGED slurmVars PROVE NoneConfigures'
  BY DEF StepsInv, NoneConfigures, slurmVars

LEMMA SbatchConfigures ==
    ASSUME TypeOK, StepsInv, NEW u, NEW p, Sbatch(u, p) PROVE NoneConfigures'
  BY DEF StepsInv, NoneConfigures, Sbatch, TypeOK, SlurmTypeOK

LEMMA PhaseConfigures ==
    ASSUME TypeOK, StepsInv, NEW j, NEW s, SetPhase(j, s),
           "configuring" \notin Faults => s # "CONFIGURING"
    PROVE  NoneConfigures'
  <1>1. \A k \in JobIds : \/ job'[k] = job[k]
                          \/ k = j /\ job'[k] = [job[k] EXCEPT !.phase = s]
    BY DEF SetPhase, TypeOK, SlurmTypeOK
  <1>2. ASSUME NEW k \in JobIds, "configuring" \notin Faults, job'[k].phase = "CONFIGURING"
        PROVE  FALSE
    <2>1. PICK r \in Job : r = job[k]
      BY DEF TypeOK, SlurmTypeOK
    <2>2. [r EXCEPT !.phase = s].phase = s
      BY DEF Job
    <2>3. QED
      BY <1>1, <1>2, <2>1, <2>2 DEF StepsInv, NoneConfigures
  <1>3. QED
    BY <1>2 DEF NoneConfigures

LEMMA ScancelConfigures ==
    ASSUME TypeOK, StepsInv, NEW u, NEW j, Scancel(u, j) PROVE NoneConfigures'
  <1>1. PICK c : c = Cancelled(job[j].phase)
    OBVIOUS
  <1>2. SetPhase(j, c)
    BY <1>1 DEF Scancel, SetPhase
  <1>3. c = "CONFIGURING" => j \notin JobIds \/ c = job[j].phase
    BY <1>1 DEF Cancelled
  <1>4. CASE j \in JobIds
    BY <1>1, <1>2, <1>3, <1>4, PhaseConfigures DEF StepsInv, NoneConfigures
  <1>5. CASE j \notin JobIds
    BY <1>2, <1>5 DEF SetPhase, TypeOK, SlurmTypeOK, StepsInv, NoneConfigures
  <1>6. QED
    BY <1>4, <1>5

LEMMA SlurmStepConfigures ==
    ASSUME TypeOK, StepsInv, SlurmStep PROVE NoneConfigures'
  <1>1. PICK j \in JobIds : \/ JobConfigures(j) \/ JobStarts(j) \/ JobEnds(j)
                            \/ JobCancelCompletes(j) \/ JobRequeues(j)
    BY DEF SlurmStep
  <1>2. "CONFIGURING" \notin EndStates
    BY SlurmAssumption
  <1>3. CASE JobEnds(j)
    BY <1>2, <1>3, PhaseConfigures DEF JobEnds
  <1>4. CASE JobConfigures(j)
    BY <1>4, PhaseConfigures DEF JobConfigures
  <1>5. CASE JobStarts(j) \/ JobCancelCompletes(j) \/ JobRequeues(j)
    BY <1>5, PhaseConfigures DEF JobStarts, JobCancelCompletes, JobRequeues
  <1>6. QED
    BY <1>1, <1>3, <1>4, <1>5
LEMMA RequestSteps ==
    ASSUME TypeOK, StepsInv, NEW t \in Threads, Request(t)
    PROVE  StepsInv'
  <1>1. t \in Workers /\ t # Ticker
    BY InstancesAssumption DEF Workers
  <1>2. NoneConfigures' /\ todo' = todo
    BY SameConfigures
       DEF Request, BeginApply, BeginRestart, BeginStop, BeginDelete, BeginReconcile,
           BeginSave, BeginRelease, Begin
  <1>3. CASE BeginApply(t)
    <2>1. PICK u \in Users, n \in Names :
              Become(t, [Idle EXCEPT !.op = "apply", !.step = "alloc",
                                     !.user = u, !.name = n])
      BY <1>3 DEF BeginApply
    <2>2. PICK l : l = [Idle EXCEPT !.op = "apply", !.step = "alloc",
                                    !.user = u, !.name = n]
      OBVIOUS
    <2>3. Become(t, l) /\ l.step = "alloc" /\ l.op = "apply"
      BY <2>1, <2>2 DEF Idle
    <2>4. InOrder(l)
      BY <2>3 DEF InOrder, SubmissionSteps, ToldEnded
    <2>5. QED
      BY <1>1, <1>2, <2>3, <2>4, StepsBecome
  <1>4. ASSUME NEW i \in RowIds,
               BeginRestart(t, i) \/ BeginStop(t, i) \/ BeginDelete(t, i)
               \/ BeginReconcile(t, i) \/ BeginSave(t, i)
        PROVE  StepsInv'
    <2>1. PICK o, s : /\ Begin(t, o, i, s)
                      /\ \/ o = "restart" /\ s = "alloc"
                         \/ /\ o \in {"stop", "delete", "reconcile", "save"}
                            /\ s \in {"kill", "rmlog", "query", "flag"}
      BY <1>4 DEF BeginRestart, BeginStop, BeginDelete, BeginReconcile, BeginSave
    <2>2. PICK u, j, f : u = row[i].owner /\ j = row[i].job
                         /\ f = (o = "reconcile" /\ row[i].clock = "unset")
      OBVIOUS
    <2>3. PICK l : l = [Idle EXCEPT !.op = o, !.step = s, !.row = i, !.user = u,
                                    !.old = j, !.fresh = f]
      OBVIOUS
    <2>4. Become(t, l) /\ l.step = s /\ l.op = o /\ o \in Ops
      BY <2>1, <2>2, <2>3 DEF Begin, Idle
    <2>5. InOrder(l)
      BY <2>1, <2>4 DEF InOrder, SubmissionSteps, ToldEnded
    <2>6. QED
      BY <1>1, <1>2, <2>4, <2>5, StepsBecome
  <1>5. ASSUME NEW p \in Ports, BeginRelease(t, p) PROVE StepsInv'
    <2>1. PICK u \in Users : u = lease[p]
      BY <1>5 DEF BeginRelease
    <2>2. PICK l : l = [Idle EXCEPT !.op = "release", !.step = "unport", !.user = u,
                                    !.port = p, !.leased = TRUE]
      OBVIOUS
    <2>3. Become(t, l) /\ l.step = "unport" /\ l.op = "release"
      BY <1>5, <2>1, <2>2 DEF BeginRelease, Idle
    <2>4. InOrder(l)
      BY <2>3 DEF InOrder, SubmissionSteps, ToldEnded
    <2>5. QED
      BY <1>1, <1>2, <2>3, <2>4, StepsBecome
  <1>6. QED
    BY <1>3, <1>4, <1>5 DEF Request

LEMMA StepsDelPort ==
    ASSUME TypeOK, StepsInv, NEW t \in Workers, DelPort(t),
           UNCHANGED <<slurmVars, row, lastRow, todo>>
    PROVE  StepsInv'
  <1>1. thread \in [Workers -> Locals] /\ Ticker \in Workers
    BY DEF TypeOK, Workers
  <1>2. ASSUME NEW w \in Workers
        PROVE  /\ InOrder(thread'[w])
               /\ thread'[w].op = thread[w].op \/ thread'[w] = Idle
               /\ thread[w] = Idle => thread'[w] = Idle
    <2>1. PICK m \in Locals : m = thread[w]
      BY <1>1
    <2>2. PICK l : l = [m EXCEPT !.leased = FALSE]
      OBVIOUS
    <2>3. thread'[w] \in {Idle, m, l}
      BY <2>1, <2>2 DEF DelPort
    <2>4. l.op = m.op /\ l.step = m.step /\ l.seen = m.seen
      BY <2>2 DEF Locals
    <2>5. InOrder(l) /\ InOrder(m)
      BY <2>1, <2>4 DEF StepsInv, InOrder
    <2>6. m = Idle => l = Idle
      <3>1. m.leased = FALSE => l = m
        BY <2>2 DEF Locals
      <3>2. QED
        BY <3>1 DEF Idle
    <2>7. QED
      BY <2>1, <2>3, <2>4, <2>5, <2>6, IdleInOrder
  <1>3. TickerScans'
    BY <1>1, <1>2 DEF StepsInv, TickerScans
  <1>4. QED
    BY <1>2, <1>3, SameConfigures DEF StepsInv, InOrder

LEMMA SubmissionInOrder ==
    ASSUME TypeOK, StepsInv, NEW t \in Workers, Submission(t)
    PROVE  StepsInv'
  <1>1. PICK m \in Locals : m = thread[t]
    BY DEF TypeOK
  <1>2. InOrder(m)
    BY <1>1 DEF StepsInv
  <1> USE DEF At
  <1>3. CASE AllocPort(t)
    <2>1. PICK p \in Ports :
              Become(t, [m EXCEPT !.step = "submit", !.port = p, !.leased = TRUE])
      BY <1>1, <1>3 DEF AllocPort
    <2>2. PICK l : l = [m EXCEPT !.step = "submit", !.port = p, !.leased = TRUE]
      OBVIOUS
    <2>3. Become(t, l) /\ l.step = "submit" /\ l.op = m.op
      BY <2>1, <2>2 DEF Locals
    <2>4. InOrder(l)
      BY <1>1, <1>2, <1>3, <2>3 DEF AllocPort, InOrder, SubmissionSteps, ToldEnded
    <2>5. QED
      BY <1>1, <1>3, <2>3, <2>4, SameConfigures, StepsGoOn DEF AllocPort
  <1>4. CASE Unlease(t)
    BY <1>4, StepsDelPort DEF Unlease
  <1>5. CASE NoPortLeft(t) \/ RestartConflicts(t) \/ InsertOk(t) \/ RestartUpdate(t)
    BY <1>5, SameConfigures, StepsFinish
       DEF NoPortLeft, RestartConflicts, InsertOk, RestartUpdate
  <1>6. CASE SubmitFails(t)
    BY <1>6, SameConfigures, StepsGoto DEF SubmitFails, ToldEnded
  <1>7. CASE InsertConflicts(t)
    BY <1>7, SameConfigures, StepsGoto DEF InsertConflicts, ToldEnded
  <1>8. CASE SubmitLost(t)
    BY <1>8, SbatchConfigures, StepsGoto DEF SubmitLost, ToldEnded
  <1>9. CASE SubmitOk(t)
    <2>1. PICK s : s = IF m.op = "apply" THEN "insert" ELSE "update"
      OBVIOUS
    <2>2. PICK n : n = NewJob
      OBVIOUS
    <2>3. PICK l : l = [m EXCEPT !.new = n, !.step = s]
      OBVIOUS
    <2>4. Become(t, l)
      BY <1>1, <1>9, <2>1, <2>2, <2>3 DEF SubmitOk
    <2>5. l.step = s /\ l.op = m.op
      BY <2>3 DEF Locals
    <2>6. InOrder(l)
      BY <1>1, <1>2, <1>9, <2>1, <2>5 DEF SubmitOk, InOrder, SubmissionSteps, ToldEnded
    <2>7. QED
      BY <1>1, <1>9, <2>4, <2>5, <2>6, SbatchConfigures, StepsGoOn DEF SubmitOk
  <1>10. CASE Rollback(t)
    <2>1. PICK l : l = [m EXCEPT !.step = "unlease", !.new = NoJob]
      OBVIOUS
    <2>2. Become(t, l)
      BY <1>1, <1>10, <2>1 DEF Rollback
    <2>3. l.step = "unlease" /\ l.op = m.op
      BY <2>1 DEF Locals
    <2>4. InOrder(l)
      BY <1>1, <1>2, <1>10, <2>3 DEF Rollback, InOrder, SubmissionSteps, ToldEnded
    <2>5. QED
      BY <1>1, <1>10, <2>2, <2>3, <2>4, SameConfigures, ScancelConfigures, StepsGoOn
         DEF Rollback
  <1>11. QED
    BY <1>3, <1>4, <1>5, <1>6, <1>7, <1>8, <1>9, <1>10 DEF Submission
(* The steps of a handler that asks Slurm, and the steps that come after   *)
(* one that does not.                                                      *)
AsksSlurm(t) == Kill(t) \/ KillFindsEnded(t) \/ KillFails(t) \/ KillLost(t) \/ Query(t)
PlainSteps == {"mark", "export", "unflag", "kill", "release"}

LEMMA HandlingGoes ==
    ASSUME NEW t \in Workers, Handling(t), ~ReleasePort(t), ~AsksSlurm(t)
    PROVE  /\ \/ Finish(t) \/ (t = Ticker /\ Become(t, NextInScan))
              \/ \E s \in PlainSteps : Goto(t, s)
           /\ UNCHANGED slurmVars
  BY DEF Handling, AsksSlurm, StopWrite, DeleteRow, QueryFails, ReconcileLive, MarkStarted,
         ReconcileEnded, FlagSaving, ExportEnds, UnflagSaving, WorkerException,
         ExpiredWrite, ExpiredRelease, Finish, PlainSteps

(* A job that is over is not in an active state.                           *)
LEMMA EndedReplyInactive ==
    ASSUME NEW j, MissedInQueue(j), "squeue" \notin Faults,
           NEW s \in EndedReplies(j) \cup AlreadyEndedReplies(j)
    PROVE  s \notin ActiveStates
  <1>1. job[j].phase \in Ended /\ Ended \cap ActiveStates = {}
    BY SlurmAssumption DEF MissedInQueue, Ended, ActiveStates
  <1>2. {"CANCELLED by uid", "UNKNOWN"} \cap ActiveStates = {}
    BY DEF ActiveStates
  <1>3. QED
    BY <1>1, <1>2 DEF EndedReplies, AlreadyEndedReplies, History, Mapped

(* A job in the queue is in an active state, unless it is CONFIGURING.     *)
LEMMA LiveReplyActive ==
    ASSUME NEW j, SeenInQueue(j), job[j].phase # "CONFIGURING"
    PROVE  LiveReply(j) \in ActiveStates
  BY DEF SeenInQueue, Queued, Up, LiveReply, Mapped, StateCN, ActiveStates

LEMMA AskingInOrder ==
    ASSUME TypeOK, JobOwnersInv, StepsInv, NEW t \in Workers, AsksSlurm(t)
    PROVE  StepsInv'
  <1>1. PICK m \in Locals : m = thread[t]
    BY DEF TypeOK
  <1>2. InOrder(m)
    BY <1>1 DEF StepsInv
  <1>3. /\ todo' = todo /\ m.step \in {"kill", "query"}
        /\ NoneConfigures'
    BY <1>1, SameConfigures, ScancelConfigures
       DEF AsksSlurm, Kill, KillFindsEnded, KillFails, KillLost, Query, At
  <1>4. "CANCELLED" \notin ActiveStates /\ m.op \notin {"apply", "restart"}
    BY <1>2, <1>3 DEF ActiveStates, InOrder, SubmissionSteps
  <1>5. ASSUME NEW s \in {"stopped", "expired", "write_live", "write_ended"}, NEW v,
               Become(t, [m EXCEPT !.step = s, !.seen = v]),
               s = "write_live" /\ "configuring" \notin Faults => v \in ActiveStates,
               s # "write_live" /\ "squeue" \notin Faults => v \notin ActiveStates
        PROVE  StepsInv'
    <2>1. PICK l : l = [m EXCEPT !.step = s, !.seen = v]
      OBVIOUS
    <2>2. Become(t, l) /\ l.step = s /\ l.op = m.op /\ l.seen = v
      BY <1>5, <2>1 DEF Locals
    <2>3. InOrder(l)
      BY <1>4, <1>5, <2>2 DEF InOrder, SubmissionSteps, ToldEnded
    <2>4. QED
      BY <1>1, <1>3, <2>2, <2>3, StepsGoOn DEF At
  <1>6. AfterKill(t) \in {"stopped", "expired"}
    BY DEF AfterKill
  <1>7. CASE Kill(t)
    BY <1>1, <1>4, <1>5, <1>6, <1>7 DEF Kill
  <1>8. CASE KillFindsEnded(t)
    BY <1>1, <1>5, <1>6, <1>8, EndedReplyInactive DEF KillFindsEnded
  <1>9. CASE KillFails(t) \/ KillLost(t)
    <2>1. Finish(t) \/ Become(t, [m EXCEPT !.step = "expired", !.seen = "CANCELLED"])
      BY <1>1, <1>9 DEF KillFails, KillLost, AfterCtlError
    <2>2. QED
      BY <1>3, <1>4, <1>5, <2>1, StepsFinish
  <1>10. CASE Query(t)
    <2>1. CASE /\ SeenInQueue(m.old)
               /\ Become(t, [m EXCEPT !.step = "write_live", !.seen = LiveReply(m.old)])
      <3>1. m.old \in JobIds
        <4>1. m.old \in 1 .. lastJob
          BY <1>1, <1>10 DEF Query, At, JobOwnersInv, OwnsJobs, ActingSteps, RowSteps
        <4>2. lastJob \in 0 .. MaxJob /\ MaxJob \in Nat
          BY SlurmAssumption DEF TypeOK, SlurmTypeOK
        <4>3. QED
          BY <4>1, <4>2 DEF JobIds
      <3>2. "configuring" \notin Faults => LiveReply(m.old) \in ActiveStates
        BY <2>1, <3>1, LiveReplyActive DEF StepsInv, NoneConfigures
      <3>3. QED
        BY <1>5, <2>1, <3>2
    <2>2. CASE /\ MissedInQueue(m.old)
               /\ \E v \in EndedReplies(m.old) :
                     Become(t, [m EXCEPT !.step = "write_ended", !.seen = v])
      BY <1>5, <2>2, EndedReplyInactive
    <2>3. QED
      BY <1>1, <1>10, <2>1, <2>2 DEF Query
  <1>11. QED
    BY <1>7, <1>8, <1>9, <1>10 DEF AsksSlurm

LEMMA HandlingInOrder ==
    ASSUME TypeOK, JobOwnersInv, StepsInv, NEW t \in Workers, Handling(t)
    PROVE  StepsInv'
  <1>1. CASE ReleasePort(t)
    BY <1>1, StepsDelPort DEF ReleasePort
  <1>2. CASE AsksSlurm(t)
    BY <1>2, AskingInOrder
  <1>3. CASE ~ReleasePort(t) /\ ~AsksSlurm(t)
    <2>1. /\ \/ Finish(t) \/ (t = Ticker /\ Become(t, NextInScan))
             \/ \E s \in PlainSteps : Goto(t, s)
          /\ UNCHANGED <<slurmVars, todo>>
          /\ thread[t].step \in RowSteps
      BY <1>3, HandlingGoes, HandlingShape
    <2>2. thread[t].step \notin SubmissionSteps /\ ~At(t, "idle")
      BY <2>1 DEF RowSteps, SubmissionSteps, At
    <2>3. NextInScan.op = "expire" /\ Idle.step = "idle"
      BY DEF NextInScan, Idle
    <2>4. CASE t = Ticker /\ Become(t, NextInScan)
      BY <2>1, <2>2, <2>3, <2>4, SameConfigures, StepsBecome
         DEF StepsInv, TickerScans, At
    <2>5. CASE \E s \in PlainSteps : Goto(t, s)
      BY <2>1, <2>2, <2>5, SameConfigures, StepsGoto DEF PlainSteps, SubmissionSteps, ToldEnded
    <2>6. QED
      BY <2>1, <2>4, <2>5, SameConfigures, StepsFinish
  <1>4. QED
    BY <1>1, <1>2, <1>3

LEMMA TickingInOrder ==
    ASSUME TypeOK, StepsInv, Ticking
    PROVE  StepsInv'
  <1>1. /\ Ticker \in Workers /\ Threads \subseteq Workers /\ Ticker \notin Threads
        /\ thread \in [Workers -> Locals]
        /\ NextInScan.op = "expire" /\ Idle.step = "idle"
    BY InstancesAssumption DEF Workers, TypeOK, NextInScan, Idle
  <1>2. NoneConfigures'
    BY SameConfigures
       DEF Ticking, Scan, ScanEnds, FlagExpired, ScanException, Claim, StartWorker
  <1>3. CASE Scan
    <2>1. \A w \in Workers : InOrder(thread'[w])
      BY <1>1, <1>3, IdleInOrder DEF Scan, Become, StepsInv
    <2>2. TickerScans'
      BY <1>1, <1>3 DEF Scan, Become, TickerScans
    <2>3. QED
      BY <1>2, <2>1, <2>2 DEF StepsInv, InOrder
  <1>4. CASE ScanEnds
    BY <1>1, <1>2, <1>4, StepsFinish DEF ScanEnds
  <1>5. CASE ScanException
    BY <1>1, <1>2, <1>5, StepsFinish DEF ScanException
  <1>6. CASE FlagExpired
    BY <1>1, <1>2, <1>6, StepsGoto DEF FlagExpired, At, SubmissionSteps, ToldEnded
  <1>7. ASSUME NEW x \in todo, Claim(x) PROVE StepsInv'
    <2>1. CASE thread' = thread
      BY <1>2, <1>7, <2>1 DEF StepsInv, TickerScans, InOrder, Claim
    <2>2. CASE thread' # thread
      <3>1. PICK u : u = row[x.row].owner
        OBVIOUS
      <3>2. PICK l : l = [NextInScan EXCEPT !.step = "flag_expired", !.row = x.row,
                                            !.old = x.job, !.user = u]
        OBVIOUS
      <3>3. Become(Ticker, l) /\ l.step = "flag_expired" /\ l.op = "expire"
        BY <1>7, <2>2, <3>1, <3>2 DEF Claim, NextInScan, Idle
      <3>4. InOrder(l) /\ "expire" \in Ops
        BY <3>3 DEF InOrder, SubmissionSteps, ToldEnded, StepsInv, TickerScans
      <3>5. todo' \subseteq todo
        BY <1>7 DEF Claim
      <3>6. QED
        BY <1>1, <1>2, <3>3, <3>4, <3>5, StepsBecome
    <2>3. QED
      BY <2>1, <2>2
  <1>8. ASSUME NEW t \in Threads, StartWorker(t) PROVE StepsInv'
    <2>1. PICK m \in Locals : m = thread[Ticker]
      BY <1>1
    <2>2. PICK l : l = [m EXCEPT !.step = "export"]
      OBVIOUS
    <2>3. /\ l.step = "export" /\ l.op = m.op /\ thread'[Ticker] = NextInScan
          /\ \A w \in Workers : thread'[w] \in {thread[w], l, NextInScan}
          /\ todo' = todo
      BY <1>1, <1>8, <2>1, <2>2 DEF StartWorker, Locals
    <2>4. m.op = "expire" /\ "expire" \in Ops
      BY <1>1, <1>8, <2>1 DEF StartWorker, At, StepsInv, TickerScans
    <2>5. InOrder(l)
      BY <2>3, <2>4 DEF InOrder, SubmissionSteps, ToldEnded
    <2>6. \A w \in Workers : InOrder(thread'[w])
      BY <2>3, <2>5, IdleInOrder DEF StepsInv
    <2>7. TickerScans'
      BY <1>1, <2>3, <2>4 DEF TickerScans
    <2>8. QED
      BY <1>2, <2>6, <2>7 DEF StepsInv, InOrder
  <1>9. QED
    BY <1>3, <1>4, <1>5, <1>6, <1>7, <1>8 DEF Ticking

LEMMA ElsewhereInOrder ==
    ASSUME TypeOK, StepsInv, Elsewhere
    PROVE  StepsInv'
  <1>1. CASE Crash
    <2>1. todo' = {} /\ \A w \in Workers : thread'[w] = Idle
      BY <1>1 DEF Crash
    <2>2. TickerScans'
      BY <2>1 DEF TickerScans, Workers
    <2>3. QED
      BY <1>1, <2>1, <2>2, IdleInOrder, SameConfigures DEF Crash, StepsInv, InOrder
  <1>2. CASE thread' = thread /\ todo' = todo
    <2>1. NoneConfigures'
      BY <1>2, SameConfigures, SlurmStepConfigures
         DEF Elsewhere, RegisterPort, BecomesDue, Crash, vars
    <2>2. QED
      BY <1>2, <2>1 DEF StepsInv, TickerScans, InOrder
  <1>3. QED
    BY <1>1, <1>2 DEF Elsewhere, RegisterPort, BecomesDue, vars

LEMMA StepsCorrect == Spec => []StepsInv
  <1>1. Init => StepsInv
    <2> SUFFICES ASSUME Init PROVE StepsInv
      OBVIOUS
    <2>1. \A w \in Workers : thread[w] = Idle
      BY DEF Init
    <2>2. TickerScans
      BY <2>1 DEF Init, TickerScans, Workers
    <2>3. NoneConfigures
      BY DEF Init, SlurmInit, NoneConfigures
    <2>4. QED
      BY <2>1, <2>2, <2>3, IdleInOrder DEF StepsInv
  <1>2. TypeOK /\ JobOwnersInv /\ StepsInv /\ [Next]_vars => StepsInv'
    <2> SUFFICES ASSUME TypeOK, JobOwnersInv, StepsInv, [Next]_vars PROVE StepsInv'
      OBVIOUS
    <2>1. CASE \E t \in Threads : Request(t)
      BY <2>1, RequestSteps
    <2>2. CASE \E t \in Workers : Submission(t)
      BY <2>2, SubmissionInOrder
    <2>3. CASE \E t \in Workers : Handling(t)
      BY <2>3, HandlingInOrder
    <2>4. CASE Ticking
      BY <2>4, TickingInOrder
    <2>5. CASE Elsewhere
      BY <2>5, ElsewhereInOrder
    <2>6. QED
      BY <2>1, <2>2, <2>3, <2>4, <2>5 DEF Next, Elsewhere
  <1>3. QED
    BY <1>1, <1>2, TypeCorrect, JobOwnersCorrect, PTL DEF Spec
-----------------------------------------------------------------------------
(* Which steps change the state of a resource                              *)

StatesKept == \A k \in RowIds : row'[k].state = row[k].state

LEMMA SetStateChanges ==
    ASSUME NEW i, NEW s, row \in [RowIds -> Instance], SetState(i, s), NEW k \in RowIds
    PROVE  \/ row'[k].state = row[k].state
           \/ k = i /\ Present(k) /\ row'[k].state = s
  <1>1. PICK r \in Instance : r = row[k]
    OBVIOUS
  <1>2. [r EXCEPT !.state = s].state = s
    BY DEF Instance
  <1>3. QED
    BY <1>1, <1>2 DEF SetState, Update

LEMMA SetSavingStates ==
    ASSUME NEW i, NEW b, row \in [RowIds -> Instance], SetSaving(i, b)
    PROVE  StatesKept
  <1> SUFFICES ASSUME NEW k \in RowIds PROVE row'[k].state = row[k].state
    BY DEF StatesKept
  <1>1. PICK r \in Instance : r = row[k]
    OBVIOUS
  <1>2. [r EXCEPT !.saving = b].state = r.state
    BY DEF Instance
  <1>3. QED
    BY <1>1, <1>2 DEF SetSaving, Update

(* A handler writes the state it was told to its row, or deletes its row;  *)
(* the state of a live job it writes to an active row only.                *)
LEMMA HandlingStates ==
    ASSUME TypeOK, NEW t \in Workers, Handling(t), NEW k \in RowIds
    PROVE  \/ row'[k].state = row[k].state
           \/ /\ k = thread[t].row /\ Present(k) /\ row'[k].state = thread[t].seen
              /\ \/ thread[t].step \in ToldEnded
                 \/ thread[t].step = "write_live" /\ Active(k)
           \/ k = thread[t].row /\ At(t, "rmlog") /\ row'[k] = NoInstance
  <1>1. row \in [RowIds -> Instance]
    BY DEF TypeOK
  <1> USE DEF At
  <1>2. CASE StopWrite(t) \/ ReconcileEnded(t) \/ ExpiredWrite(t) \/ ReconcileLive(t)
    BY <1>1, <1>2, SetStateChanges
       DEF StopWrite, ReconcileEnded, ExpiredWrite, ReconcileLive, ToldEnded
  <1>3. CASE DeleteRow(t)
    BY <1>1, <1>3 DEF DeleteRow
  <1>4. CASE MarkStarted(t)
    BY <1>1, <1>4 DEF MarkStarted, Update, Instance
  <1>5. CASE FlagSaving(t) \/ UnflagSaving(t) \/ WorkerException(t) \/ ExpiredRelease(t)
    BY <1>1, <1>5, SetSavingStates
       DEF FlagSaving, UnflagSaving, WorkerException, ExpiredRelease, StatesKept
  <1>6. CASE AsksSlurm(t) \/ QueryFails(t) \/ ExportEnds(t) \/ ReleasePort(t)
    BY <1>6 DEF AsksSlurm, Kill, KillFindsEnded, KillFails, KillLost, Query, QueryFails,
                ExportEnds, ReleasePort
  <1>7. QED
    BY <1>2, <1>3, <1>4, <1>5, <1>6 DEF Handling, AsksSlurm

LEMMA OtherStates ==
    ASSUME TypeOK, (\E t \in Threads : Request(t)) \/ Ticking \/ Elsewhere
    PROVE  StatesKept
  <1>1. row \in [RowIds -> Instance]
    BY DEF TypeOK
  <1>2. row' = row => StatesKept
    BY DEF StatesKept
  <1>3. CASE \E t \in Threads : Request(t)
    BY <1>2, <1>3 DEF Request, BeginApply, BeginRestart, BeginStop, BeginDelete,
                      BeginReconcile, BeginSave, BeginRelease, Begin
  <1>4. ASSUME NEW x \in todo, Claim(x) PROVE StatesKept
    BY <1>1, <1>2, <1>4 DEF Claim, StatesKept, Instance
  <1>5. CASE FlagExpired
    BY <1>1, <1>5, SetSavingStates DEF FlagExpired
  <1>6. CASE Ticking
    BY <1>2, <1>4, <1>5, <1>6 DEF Ticking, Scan, ScanEnds, ScanException, StartWorker
  <1>7. ASSUME NEW i \in RowIds, BecomesDue(i) PROVE StatesKept
    BY <1>1, <1>7 DEF BecomesDue, StatesKept, Instance
  <1>8. CASE Elsewhere
    BY <1>2, <1>7, <1>8 DEF Elsewhere, RegisterPort, Crash, vars
  <1>9. QED
    BY <1>3, <1>6, <1>8

(* As long as squeue answers, a resource that has reached a terminal state *)
(* becomes active again only by a restart of that resource: an answer that *)
(* comes late is either inactive or written to an active row only.         *)
THEOREM NoResurrectionCorrect ==
    ASSUME "squeue" \notin Faults PROVE Spec => NoResurrection
  <1>1. TypeOK /\ OwnerInv /\ StepsInv /\ [Next]_vars =>
            [\A i \in RowIds : Terminal(i) /\ Active(i)' =>
                \E t \in Workers : At(t, "update") /\ thread[t].row = i]_vars
    <2> SUFFICES ASSUME TypeOK, OwnerInv, StepsInv, [Next]_vars, NEW i \in RowIds,
                        Terminal(i), Active(i)'
                 PROVE  \E t \in Workers : At(t, "update") /\ thread[t].row = i
      OBVIOUS
    <2>1. row'[i].state # row[i].state /\ Present(i) /\ ~Active(i)
      BY DEF Terminal, Active
    <2>2. PICK t \in Workers : Submission(t) \/ Handling(t)
      BY <2>1, OtherStates DEF Next, Elsewhere, StatesKept
    <2>3. ~Handling(t)
      <3> SUFFICES ASSUME Handling(t) PROVE FALSE
        OBVIOUS
      <3>1. CASE row'[i].state = thread[t].seen /\ thread[t].step \in ToldEnded
        BY <3>1 DEF StepsInv, InOrder, Active
      <3>2. CASE row'[i] = NoInstance
        BY <3>2 DEF NoInstance, Active, ActiveStates
      <3>3. QED
        BY <2>1, <3>1, <3>2, HandlingStates
    <2>4. CASE InsertOk(t) \/ RestartUpdate(t)
      <3>1. Active(i)' => Present(i)'
        BY DEF Active, Present, ActiveStates
      <3>2. (InsertOk(t) /\ i = NewRow) \/ i = thread[t].row
        BY <2>1, <2>4, <3>1, RecordShape
      <3>3. lastRow \in Nat /\ i <= lastRow
        BY <2>1 DEF TypeOK, OwnerInv, UnusedIds
      <3>4. i # NewRow
        BY <3>3 DEF NewRow
      <3>5. CASE RestartUpdate(t)
        BY <3>2, <3>4, <3>5 DEF RestartUpdate
      <3>6. CASE InsertOk(t)
        BY <2>1, <3>4, <3>6 DEF InsertOk, TypeOK
      <3>7. QED
        BY <2>4, <3>5, <3>6
    <2>5. CASE ~(InsertOk(t) \/ RestartUpdate(t))
      BY <2>1, <2>2, <2>3, <2>5
         DEF Submission, AllocPort, NoPortLeft, Unlease, SubmitOk, SubmitFails, SubmitLost,
             InsertConflicts, Rollback, RestartConflicts
    <2>6. QED
      BY <2>4, <2>5
  <1>2. QED
    BY <1>1, TypeCorrect, OwnersCorrect, StepsCorrect, PTL DEF Spec, NoResurrection
-----------------------------------------------------------------------------
(* No job that is up is without a resource that shows it                   *)

(* The faults that orphan a job are known and left out: the portal dies    *)
(* between sbatch and the row, an answer of sbatch or squeue is lost, a    *)
(* scancel fails, a job is seen CONFIGURING.                               *)
Answered ==
    Faults \cap {"crash", "lost_reply", "squeue", "scancel", "configuring"} = {}

(* So are the restarts that race with another handler (double_restart).    *)
RestartsAlone ==
    "restart" \in Ops => "expire" \notin Ops /\ \A s, t \in Threads : s = t

EndedSteps == ToldEnded \cup {"rmlog"}

(* A thread that acts on a row knows the job of the row; one that is about *)
(* to end, delete or restart the resource is right that its job is over; a *)
(* restart finds its row, and the port it has leased in no active row.     *)
Informed(l) ==
    /\ (l.step \in ActingSteps \/ l.op = "restart") /\ Present(l.row)
           => row[l.row].job = l.old
    /\ l.step \in EndedSteps \/ l.op = "restart" => ~IsUp(l.old)
    /\ l.op = "restart" => Present(l.row)
    /\ l.op = "restart" /\ l.step \in {"submit", "update"}
           => \A k \in RowIds : Active(k) => row[k].port # l.port

ListedJobs == \A x \in todo : Present(x.row) => row[x.row].job = x.job

OrphanInv == NoOrphan /\ ListedJobs /\ \A t \in Workers : Informed(thread[t])

(* What most steps leave as it is: no row gets another job or becomes      *)
(* active, and no job that was given out comes up.                         *)
NoneRevived == \A k \in RowIds : Active(k)' => Active(k)
JobsDown == \A j \in 1 .. lastJob : IsUp(j)' => IsUp(j)
RestartsFind == \A t \in Workers :
    thread[t].op = "restart" => row'[thread[t].row].state # "absent"

Steady == CoreKept /\ NoneRevived /\ JobsDown /\ RestartsFind

LEMMA IdleInformed == Informed(Idle)' /\ Informed(NextInScan)'
  BY DEF Informed, Idle, NextInScan, ActingSteps, RowSteps, EndedSteps, ToldEnded

LEMMA UpsDown ==
    ASSUME TypeOK, UpsKept PROVE JobsDown
  <1>1. 1 .. lastJob \subseteq JobIds
    BY SlurmAssumption DEF TypeOK, SlurmTypeOK, JobIds
  <1>2. QED
    BY <1>1 DEF JobsDown, UpsKept

(* A restart has the rows to itself.                                       *)
LEMMA RestartAlone ==
    ASSUME RestartsAlone, StepsInv, NEW s \in Workers, thread[s].op = "restart"
    PROVE  todo = {} /\ \A w \in Workers : w # s => thread[w] = Idle
  <1>1. "restart" \in Ops /\ "expire" \notin Ops /\ thread[Ticker] = Idle /\ todo = {}
    BY DEF RestartsAlone, StepsInv, InOrder, TickerScans
  <1>2. s # Ticker
    BY <1>1 DEF Idle
  <1>3. QED
    BY <1>1, <1>2 DEF RestartsAlone, Workers

(* What a thread knows stays true through a step that leaves the rest      *)
(* steady, and if it goes on, what it has yet to learn is about its job.   *)
LEMMA InformedMoves ==
    ASSUME TypeOK, OwnerInv, JobOwnersInv, OrphanInv, Steady, NEW t \in Workers, NEW l,
           l.op = thread[t].op, l.row = thread[t].row, l.old = thread[t].old,
           l.port = thread[t].port,
           l.step \in ActingSteps => thread[t].step \in ActingSteps,
           l.step \in EndedSteps => ~IsUp(l.old)',
           l.op = "restart" /\ l.step \in {"submit", "update"}
               => thread[t].step \in {"submit", "update"}
    PROVE  Informed(l)'
  <1>1. PICK m \in Locals : m = thread[t]
    BY DEF TypeOK
  <1>2. Informed(m) /\ OwnsJobs(m) /\ (m.op = "restart" => Present(m.row)')
    BY <1>1 DEF OrphanInv, JobOwnersInv, Steady, RestartsFind, Present
  <1>3. lastRow \in 0 .. MaxRow /\ MaxRow \in Nat
    BY InstancesAssumption DEF TypeOK
  <1>4. (l.step \in ActingSteps \/ l.op = "restart") /\ Present(l.row)'
            => row'[l.row].job = l.old
    BY <1>1, <1>2 DEF Informed, OwnsJobs, Steady, CoreKept
  <1>5. l.op = "restart" => ~IsUp(l.old)'
    BY <1>1, <1>2 DEF Informed, OwnsJobs, Steady, JobsDown
  <1>6. l.op = "restart" => Present(l.row)'
    BY <1>1, <1>2
  <1>7. ASSUME l.op = "restart", l.step \in {"submit", "update"}, NEW k \in RowIds, Active(k)'
        PROVE  row'[k].port # l.port
    <2>1. Active(k) /\ Present(k)' /\ row'[k].port = row[k].port
      BY <1>7 DEF Steady, NoneRevived, CoreKept, Active, Present, ActiveStates
    <2>2. QED
      BY <1>1, <1>2, <1>7, <2>1 DEF Informed
  <1>8. QED
    BY <1>4, <1>5, <1>6, <1>7 DEF Informed

(* A thread that does not move stays informed.                             *)
LEMMA InformedStays ==
    ASSUME TypeOK, OwnerInv, JobOwnersInv, OrphanInv, Steady, NEW t \in Workers
    PROVE  \A l : l = thread[t] => Informed(l)'
  <1> SUFFICES ASSUME NEW l, l = thread[t] PROVE Informed(l)'
    OBVIOUS
  <1>1. l.step \in EndedSteps => ~IsUp(l.old)'
    <2> SUFFICES ASSUME l.step \in EndedSteps PROVE ~IsUp(l.old)'
      OBVIOUS
    <2>1. ~IsUp(l.old)
      BY DEF OrphanInv, Informed
    <2>2. l.step \in ActingSteps
      BY DEF EndedSteps, ToldEnded, ActingSteps, RowSteps
    <2>3. l.old \in 1 .. lastJob
      BY <2>2 DEF JobOwnersInv, OwnsJobs
    <2>4. QED
      BY <2>1, <2>3 DEF Steady, JobsDown
  <1>2. QED
    BY <1>1, InformedMoves

LEMMA InformedBecome ==
    ASSUME TypeOK, OwnerInv, JobOwnersInv, OrphanInv, Steady, NEW t \in Workers, NEW l,
           Become(t, l), l \in {Idle, NextInScan} \/ Informed(l)'
    PROVE  \A w \in Workers : Informed(thread[w])'
  <1>1. thread' = [thread EXCEPT ![t] = l] /\ thread \in [Workers -> Locals]
    BY DEF Become, TypeOK
  <1> SUFFICES ASSUME NEW w \in Workers PROVE Informed(thread[w])'
    OBVIOUS
  <1>2. PICK n : n = thread'[w]
    OBVIOUS
  <1>3. Informed(n)'
    BY <1>1, <1>2, InformedStays, IdleInformed
  <1>4. QED
    BY <1>2, <1>3 DEF Informed

LEMMA SameInformed ==
    ASSUME TypeOK, OwnerInv, JobOwnersInv, OrphanInv, Steady, thread' = thread
    PROVE  \A w \in Workers : Informed(thread[w])'
  <1> SUFFICES ASSUME NEW w \in Workers PROVE Informed(thread[w])'
    OBVIOUS
  <1>1. PICK n : n = thread[w]
    OBVIOUS
  <1>2. Informed(n)'
    BY <1>1, InformedStays
  <1>3. QED
    BY <1>1, <1>2 DEF Informed

LEMMA ListedStay ==
    ASSUME TypeOK, OrphanInv, CoreKept, todo' \subseteq todo
    PROVE  ListedJobs'
  <1>1. \A x \in todo : x.row \in RowIds
    BY DEF TypeOK, Listed
  <1>2. QED
    BY <1>1 DEF OrphanInv, ListedJobs, CoreKept

(* The job of an active row stays shown unless it is over; a submission    *)
(* that goes on keeps its job.                                             *)
ShownKept == \A i \in RowIds : Active(i) /\ IsUp(row[i].job)
                                  => Active(i)' /\ row'[i].job = row[i].job
CarriersGoOn == \A w \in Workers :
    Carrying(w) => Carrying(w)' /\ thread'[w].new = thread[w].new

LEMMA NoOrphanKept ==
    ASSUME OrphanInv, UpsKept, ShownKept, CarriersGoOn
    PROVE  NoOrphan'
  <1> SUFFICES ASSUME NEW j \in JobIds, IsUp(j)'
               PROVE  \/ \E i \in RowIds : Active(i)' /\ row'[i].job = j
                      \/ \E t \in Workers : Carrying(t)' /\ thread'[t].new = j
    BY DEF NoOrphan, IsUp
  <1>1. IsUp(j)
    BY DEF UpsKept
  <1>2. \/ \E i \in RowIds : Active(i) /\ row[i].job = j
        \/ \E t \in Workers : Carrying(t) /\ thread[t].new = j
    BY <1>1 DEF OrphanInv, NoOrphan, IsUp
  <1>3. QED
    BY <1>1, <1>2 DEF ShownKept, CarriersGoOn

LEMMA CarriersBecome ==
    ASSUME TypeOK, NEW t \in Workers, NEW l, Become(t, l),
           Carrying(t) => l.step \in CarryingSteps /\ l.new = thread[t].new
    PROVE  CarriersGoOn
  BY DEF Become, TypeOK, CarriersGoOn, Carrying, CarryingSteps

(* The job of a terminal row is over: it has no other row that shows it.   *)
LEMMA TerminalEnded ==
    ASSUME TypeOK, OneHome, JobOwnersInv, OrphanInv, NEW i \in RowIds, Terminal(i)
    PROVE  ~IsUp(row[i].job)
  <1> SUFFICES ASSUME IsUp(row[i].job) PROVE FALSE
    OBVIOUS
  <1>1. lastJob \in 0 .. MaxJob /\ MaxJob \in Nat
    BY SlurmAssumption DEF TypeOK, SlurmTypeOK
  <1>2. PICK j : j = row[i].job
    OBVIOUS
  <1>3. j \in JobIds
    BY <1>1, <1>2 DEF JobOwnersInv, RowsOwned, Terminal, JobIds
  <1>4. Linked(j, i)
    BY <1>2 DEF Linked, Terminal
  <1>5. ASSUME NEW k \in RowIds, Active(k), row[k].job = j PROVE FALSE
    <2>1. Linked(j, k)
      BY <1>5 DEF Linked, Active, Present, ActiveStates
    <2>2. QED
      BY <1>3, <1>4, <1>5, <2>1 DEF OneHome, LinkedOnce, Terminal
  <1>6. ASSUME NEW t \in Workers, Carrying(t), thread[t].new = j PROVE FALSE
    BY <1>4, <1>6 DEF OneHome, CarriedUnlinked
  <1>7. QED
    BY <1>2, <1>3, <1>5, <1>6 DEF OrphanInv, NoOrphan, IsUp
LEMMA OtherCores ==
    ASSUME TypeOK, (\E t \in Threads : Request(t)) \/ Ticking \/ Elsewhere
    PROVE  CoreKept
  <1>1. row \in [RowIds -> Instance]
    BY DEF TypeOK
  <1>2. CASE \E t \in Threads : Request(t)
    BY <1>2, SameCore DEF Request, BeginApply, BeginRestart, BeginStop, BeginDelete,
                          BeginReconcile, BeginSave, BeginRelease, Begin
  <1>3. ASSUME NEW x \in todo, Claim(x) PROVE CoreKept
    BY <1>1, <1>3, SameCore DEF Claim, CoreKept, Present, Instance
  <1>4. CASE FlagExpired
    BY <1>1, <1>4, SetSavingKeepsCore DEF FlagExpired
  <1>5. CASE Ticking
    BY <1>3, <1>4, <1>5, SameCore DEF Ticking, Scan, ScanEnds, ScanException, StartWorker
  <1>6. ASSUME NEW i \in RowIds, BecomesDue(i) PROVE CoreKept
    BY <1>1, <1>6 DEF BecomesDue, CoreKept, Present, Instance
  <1>7. CASE Elsewhere
    BY <1>6, <1>7, SameCore DEF Elsewhere, RegisterPort, Crash, vars
  <1>8. QED
    BY <1>2, <1>5, <1>7

LEMMA SteadyStates ==
    ASSUME TypeOK, JobOwnersInv, OrphanInv, CoreKept, StatesKept, JobsDown
    PROVE  Steady /\ ShownKept
  <1>1. NoneRevived
    BY DEF NoneRevived, StatesKept, Active
  <1>2. RestartsFind
    BY DEF RestartsFind, StatesKept, OrphanInv, Informed, JobOwnersInv, OwnsJobs, Present
  <1>3. ShownKept
    BY DEF ShownKept, StatesKept, CoreKept, Active, Present, ActiveStates
  <1>4. QED
    BY <1>1, <1>2, <1>3 DEF Steady

LEMMA RequestOrphans ==
    ASSUME TypeOK, OwnerInv, JobOwnersInv, OneHome, OrphanInv, NEW t \in Threads, Request(t)
    PROVE  OrphanInv'
  <1>1. t \in Workers
    BY DEF Workers
  <1>2. /\ UNCHANGED <<slurmVars, row, todo>> /\ At(t, "idle")
        /\ UpsKept /\ JobsDown
    BY SameUps, UpsDown
       DEF Request, BeginApply, BeginRestart, BeginStop, BeginDelete, BeginReconcile,
           BeginSave, BeginRelease, Begin
  <1>3. Steady /\ ShownKept /\ ListedJobs'
    BY <1>2, OtherCores, OtherStates, SteadyStates, ListedStay
  <1>4. ~Carrying(t)
    BY <1>2 DEF At, Carrying
  <1>5. PICK l : Become(t, l) /\ Informed(l)'
    <2>1. CASE BeginApply(t)
      <3>1. PICK u \in Users, n \in Names :
                Become(t, [Idle EXCEPT !.op = "apply", !.step = "alloc",
                                       !.user = u, !.name = n])
        BY <2>1 DEF BeginApply
      <3>2. PICK l : l = [Idle EXCEPT !.op = "apply", !.step = "alloc",
                                      !.user = u, !.name = n]
        OBVIOUS
      <3>3. Become(t, l) /\ l.step = "alloc" /\ l.op = "apply"
        BY <3>1, <3>2 DEF Idle
      <3>4. Informed(l)'
        BY <3>3 DEF Informed, ActingSteps, RowSteps, EndedSteps, ToldEnded
      <3>5. QED
        BY <3>3, <3>4
    <2>2. ASSUME NEW i \in RowIds,
                 BeginRestart(t, i) \/ BeginStop(t, i) \/ BeginDelete(t, i)
                 \/ BeginReconcile(t, i) \/ BeginSave(t, i)
          PROVE  \E l : Become(t, l) /\ Informed(l)'
      <3>1. PICK o, s : /\ Begin(t, o, i, s)
                        /\ \/ o = "restart" /\ s = "alloc" /\ Terminal(i)
                           \/ o = "delete" /\ s = "rmlog" /\ Terminal(i)
                           \/ o \in {"stop", "reconcile", "save"}
                              /\ s \in {"kill", "query", "flag"}
        BY <2>2 DEF BeginRestart, BeginStop, BeginDelete, BeginReconcile, BeginSave
      <3>2. PICK u, j, f : u = row[i].owner /\ j = row[i].job
                           /\ f = (o = "reconcile" /\ row[i].clock = "unset")
        OBVIOUS
      <3>3. PICK l : l = [Idle EXCEPT !.op = o, !.step = s, !.row = i, !.user = u,
                                      !.old = j, !.fresh = f]
        OBVIOUS
      <3>4. Become(t, l) /\ l.step = s /\ l.op = o /\ l.row = i /\ l.old = row[i].job
        BY <3>1, <3>2, <3>3 DEF Begin, Idle
      <3>5. Terminal(i) => ~IsUp(l.old)' /\ Present(i)
        BY <1>2, <3>4, TerminalEnded DEF IsUp, slurmVars, Terminal
      <3>6. Informed(l)'
        BY <1>2, <3>1, <3>4, <3>5 DEF Informed, Present, EndedSteps, ToldEnded
      <3>7. QED
        BY <3>4, <3>6
    <2>3. ASSUME NEW p \in Ports, BeginRelease(t, p)
          PROVE  \E l : Become(t, l) /\ Informed(l)'
      <3>1. PICK u : u = lease[p]
        OBVIOUS
      <3>2. PICK l : l = [Idle EXCEPT !.op = "release", !.step = "unport", !.user = u,
                                      !.port = p, !.leased = TRUE]
        OBVIOUS
      <3>3. Become(t, l) /\ l.step = "unport" /\ l.op = "release"
        BY <2>3, <3>1, <3>2 DEF BeginRelease, Idle
      <3>4. Informed(l)'
        BY <3>3 DEF Informed, ActingSteps, RowSteps, EndedSteps, ToldEnded
      <3>5. QED
        BY <3>3, <3>4
    <2>4. QED
      BY <2>1, <2>2, <2>3 DEF Request
  <1>6. \A w \in Workers : Informed(thread[w])'
    BY <1>1, <1>3, <1>5, InformedBecome
  <1>7. CarriersGoOn
    BY <1>1, <1>4, <1>5, CarriersBecome
  <1>8. QED
    BY <1>2, <1>3, <1>6, <1>7, NoOrphanKept DEF OrphanInv

LEMMA ElsewhereOrphans ==
    ASSUME Answered, TypeOK, OwnerInv, JobOwnersInv, OrphanInv, Elsewhere
    PROVE  OrphanInv'
  <1>1. UpsKept /\ CoreKept /\ StatesKept /\ JobsDown
    BY StepUps, OtherCores, OtherStates, UpsDown
  <1>2. thread' = thread /\ todo' = todo
    BY DEF Answered, Elsewhere, RegisterPort, BecomesDue, Crash, vars
  <1>3. Steady /\ ShownKept /\ ListedJobs'
    BY <1>1, <1>2, SteadyStates, ListedStay
  <1>4. CarriersGoOn
    BY <1>2 DEF CarriersGoOn, Carrying
  <1>5. QED
    BY <1>1, <1>2, <1>3, <1>4, SameInformed, NoOrphanKept DEF OrphanInv

LEMMA TickingOrphans ==
    ASSUME TypeOK, OwnerInv, JobOwnersInv, StepsInv, OrphanInv, Ticking
    PROVE  OrphanInv'
  <1>1. UpsKept /\ CoreKept /\ StatesKept /\ JobsDown
    BY StepUps, OtherCores, OtherStates, UpsDown
  <1>2. Steady /\ ShownKept
    BY <1>1, SteadyStates
  <1>3. /\ Ticker \in Workers /\ Threads \subseteq Workers /\ Ticker \notin Threads
        /\ thread \in [Workers -> Locals]
        /\ NextInScan.step = "claim"
    BY InstancesAssumption DEF Workers, TypeOK, NextInScan, Idle
  <1>4. ~Carrying(Ticker)
    BY <1>3 DEF StepsInv, TickerScans, InOrder, SubmissionSteps, Carrying, Idle
  <1>5. ASSUME NEW l, Become(Ticker, l), l \in {Idle, NextInScan} \/ Informed(l)'
        PROVE  CarriersGoOn /\ \A w \in Workers : Informed(thread[w])'
    BY <1>2, <1>3, <1>4, <1>5, CarriersBecome, InformedBecome
  <1>6. CASE Scan
    <2>1. ListedJobs'
      BY <1>6 DEF Scan, ListedJobs, Present
    <2>2. QED
      BY <1>1, <1>2, <1>5, <1>6, <2>1, NoOrphanKept DEF Scan, OrphanInv
  <1>7. CASE ScanEnds \/ ScanException
    BY <1>1, <1>2, <1>5, <1>7, ListedStay, NoOrphanKept
       DEF ScanEnds, ScanException, Finish, OrphanInv
  <1>8. CASE FlagExpired
    <2>1. PICK m \in Locals : m = thread[Ticker]
      BY <1>3
    <2>2. PICK s \in {"start", "kill"} : Become(Ticker, [m EXCEPT !.step = s])
      BY <1>8, <2>1 DEF FlagExpired, Goto
    <2>3. PICK l : l = [m EXCEPT !.step = s]
      OBVIOUS
    <2>4. /\ Become(Ticker, l) /\ l.op = m.op /\ l.row = m.row /\ l.old = m.old
          /\ l.port = m.port /\ l.step = s
      BY <2>2, <2>3 DEF Locals
    <2>5. thread[Ticker].step \in ActingSteps /\ l.step \notin EndedSteps
          /\ l.step \notin {"submit", "update"}
      BY <1>8, <2>2, <2>4
         DEF FlagExpired, At, ActingSteps, EndedSteps, ToldEnded
    <2>6. Informed(l)'
      BY <1>2, <1>3, <2>1, <2>4, <2>5, InformedMoves
    <2>7. QED
      BY <1>1, <1>2, <1>5, <1>8, <2>4, <2>6, ListedStay, NoOrphanKept
         DEF FlagExpired, OrphanInv
  <1>9. ASSUME NEW x \in todo, Claim(x) PROVE OrphanInv'
    <2>1. todo' \subseteq todo /\ UNCHANGED slurmVars /\ x.row \in RowIds
      BY <1>9 DEF Claim, TypeOK, Listed
    <2>2. CASE thread' = thread
      <3>1. CarriersGoOn
        BY <2>2 DEF CarriersGoOn, Carrying
      <3>2. QED
        BY <1>1, <1>2, <2>1, <2>2, <3>1, SameInformed, ListedStay, NoOrphanKept
           DEF OrphanInv
    <2>3. CASE thread' # thread
      <3>1. PICK u : u = row[x.row].owner
        OBVIOUS
      <3>2. PICK l : l = [NextInScan EXCEPT !.step = "flag_expired", !.row = x.row,
                                            !.old = x.job, !.user = u]
        OBVIOUS
      <3>3. Become(Ticker, l) /\ l.step = "flag_expired" /\ l.op = "expire"
            /\ l.row = x.row /\ l.old = x.job
        BY <1>9, <2>3, <3>1, <3>2 DEF Claim, NextInScan, Idle
      <3>4. Present(x.row)' => row'[x.row].job = x.job
        BY <1>1, <2>1 DEF OrphanInv, ListedJobs, CoreKept
      <3>5. Informed(l)'
        BY <3>3, <3>4 DEF Informed, EndedSteps, ToldEnded
      <3>6. QED
        BY <1>1, <1>2, <1>5, <2>1, <3>3, <3>5, ListedStay, NoOrphanKept DEF OrphanInv
    <2>4. QED
      BY <2>2, <2>3
  <1>10. ASSUME NEW t \in Threads, StartWorker(t) PROVE OrphanInv'
    <2>1. PICK m \in Locals : m = thread[Ticker]
      BY <1>3
    <2>2. PICK l : l = [m EXCEPT !.step = "export"]
      OBVIOUS
    <2>3. /\ l.step = "export" /\ l.op = m.op /\ l.row = m.row /\ l.old = m.old
          /\ l.port = m.port /\ m.step = "start"
          /\ \A w \in Workers : \/ thread'[w] = thread[w]
                                \/ w \in {t, Ticker} /\ thread'[w] \in {l, NextInScan}
          /\ todo' = todo
      BY <1>3, <1>10, <2>1, <2>2 DEF StartWorker, At, Locals
    <2>4. Informed(l)'
      <3>1. thread[Ticker].step \in ActingSteps /\ l.step \notin EndedSteps
            /\ l.step \notin {"submit", "update"}
        BY <2>1, <2>3 DEF ActingSteps, EndedSteps, ToldEnded
      <3>2. QED
        BY <1>2, <1>3, <2>1, <2>3, <3>1, InformedMoves
    <2>5. \A w \in Workers : Informed(thread[w])'
      <3> SUFFICES ASSUME NEW w \in Workers PROVE Informed(thread[w])'
        OBVIOUS
      <3>1. PICK n : n = thread'[w]
        OBVIOUS
      <3>2. Informed(n)'
        BY <1>2, <2>3, <2>4, <3>1, InformedStays, IdleInformed
      <3>3. QED
        BY <3>1, <3>2 DEF Informed
    <2>6. CarriersGoOn
      <3>1. ~Carrying(t)
        BY <1>10 DEF StartWorker, At, Carrying
      <3>2. QED
        BY <1>4, <2>3, <3>1 DEF CarriersGoOn, Carrying
    <2>7. QED
      BY <1>1, <1>2, <2>3, <2>5, <2>6, ListedStay, NoOrphanKept DEF OrphanInv
  <1>11. QED
    BY <1>6, <1>7, <1>8, <1>9, <1>10 DEF Ticking
LEMMA DelPortOrphans ==
    ASSUME TypeOK, OwnerInv, JobOwnersInv, OrphanInv, NEW t \in Workers, DelPort(t),
           ~Carrying(t), UNCHANGED <<slurmVars, row, lastRow, todo>>
    PROVE  OrphanInv'
  <1>1. /\ UpsKept /\ CoreKept /\ StatesKept /\ JobsDown
        /\ thread \in [Workers -> Locals]
    BY SameUps, SameCore, UpsDown DEF StatesKept, TypeOK
  <1>2. Steady /\ ShownKept /\ ListedJobs'
    BY <1>1, SteadyStates, ListedStay
  <1>3. ASSUME NEW w \in Workers
        PROVE  /\ Informed(thread[w])'
               /\ w # t => /\ thread'[w].step = thread[w].step
                           /\ thread'[w].new = thread[w].new
    <2>1. PICK m \in Locals : m = thread[w]
      BY <1>1
    <2>2. PICK l : l = [m EXCEPT !.leased = FALSE]
      OBVIOUS
    <2>3. PICK n : n = thread'[w]
      OBVIOUS
    <2>4. n \in {Idle, m, l} /\ (w # t => n \in {m, l})
      BY <2>1, <2>2, <2>3 DEF DelPort
    <2>5. /\ l.op = m.op /\ l.step = m.step /\ l.row = m.row /\ l.old = m.old
          /\ l.port = m.port /\ l.new = m.new
      BY <2>2 DEF Locals
    <2>6. Informed(m)'
      BY <1>2, <2>1, InformedStays
    <2>7. Informed(l)'
      BY <2>5, <2>6 DEF Informed
    <2>8. Informed(n)'
      BY <2>4, <2>6, <2>7, IdleInformed
    <2>9. Informed(thread[w])'
      BY <2>3, <2>8 DEF Informed
    <2>10. QED
      BY <2>1, <2>3, <2>4, <2>5, <2>9
  <1>4. CarriersGoOn
    BY <1>3 DEF CarriersGoOn, Carrying
  <1>5. QED
    BY <1>1, <1>2, <1>3, <1>4, NoOrphanKept DEF OrphanInv

(* A submission that leaves rows alone goes on with locals l.              *)
LEMMA SubmissionGoesOn ==
    ASSUME TypeOK, OwnerInv, JobOwnersInv, StepsInv, OrphanInv, JobsDown,
           NEW t \in Workers, thread[t].step \in SubmissionSteps,
           UNCHANGED <<row, todo>>, NEW l, Become(t, l), l.step \in SubmissionSteps,
           l.op = thread[t].op, l.row = thread[t].row, l.old = thread[t].old,
           l.port = thread[t].port,
           l.op = "restart" /\ l.step \in {"submit", "update"}
               => thread[t].step \in {"submit", "update"}
    PROVE  ListedJobs' /\ ShownKept /\ \A w \in Workers : Informed(thread[w])'
  <1>1. CoreKept /\ StatesKept
    BY SameCore DEF StatesKept
  <1>2. Steady /\ ShownKept /\ ListedJobs'
    BY <1>1, SteadyStates, ListedStay
  <1>3. l.step \notin ActingSteps /\ l.step \notin EndedSteps
    BY DEF SubmissionSteps, ActingSteps, RowSteps, EndedSteps, ToldEnded
  <1>4. Informed(l)'
    BY <1>2, <1>3, InformedMoves
  <1>5. QED
    BY <1>2, <1>4, InformedBecome

LEMMA SbatchDown ==
    ASSUME TypeOK, NEW u, NEW p, Sbatch(u, p)
    PROVE  /\ JobsDown /\ NewJob \in JobIds
           /\ \A j \in JobIds : j # NewJob => job'[j] = job[j]
  <1>1. lastJob \in 0 .. MaxJob /\ MaxJob \in Nat
    BY SlurmAssumption DEF TypeOK, SlurmTypeOK
  <1>2. NewJob \in JobIds /\ \A j \in JobIds : j # NewJob => job'[j] = job[j]
    BY DEF Sbatch, TypeOK, SlurmTypeOK
  <1>3. \A j \in 1 .. lastJob : j \in JobIds /\ j # NewJob
    BY <1>1 DEF NewJob, JobIds
  <1>4. QED
    BY <1>2, <1>3 DEF JobsDown, IsUp

(* The submitted job is carried until it is recorded.                      *)
LEMMA SubmitOrphans ==
    ASSUME TypeOK, OwnerInv, JobOwnersInv, StepsInv, OrphanInv, NEW t \in Workers, SubmitOk(t)
    PROVE  OrphanInv'
  <1>1. PICK m \in Locals : m = thread[t]
    BY DEF TypeOK
  <1>2. PICK s \in {"insert", "update"} : s = IF m.op = "apply" THEN "insert" ELSE "update"
    OBVIOUS
  <1>3. PICK n : n = NewJob
    OBVIOUS
  <1>4. PICK l : l = [m EXCEPT !.new = n, !.step = s]
    OBVIOUS
  <1>5. Become(t, l)
    BY <1>1, <1>2, <1>3, <1>4 DEF SubmitOk
  <1>6. /\ l.op = m.op /\ l.row = m.row /\ l.old = m.old /\ l.port = m.port
        /\ l.new = n /\ l.step = s
    BY <1>4 DEF Locals
  <1>7. /\ JobsDown /\ n \in JobIds
        /\ \A j \in JobIds : j # n => job'[j] = job[j]
        /\ UNCHANGED <<row, todo>> /\ thread[t].step = "submit"
    BY <1>3, SbatchDown DEF SubmitOk, At
  <1>8. ListedJobs' /\ \A w \in Workers : Informed(thread[w])'
    <2>1. thread[t].step \in SubmissionSteps /\ l.step \in SubmissionSteps
      BY <1>2, <1>6, <1>7 DEF SubmissionSteps
    <2>2. QED
      BY <1>1, <1>5, <1>6, <1>7, <2>1, SubmissionGoesOn
  <1>9. \A w \in Workers : \/ w = t /\ thread'[w] = l
                           \/ w # t /\ thread'[w] = thread[w]
    BY <1>5 DEF Become, TypeOK
  <1>10. NoOrphan'
    <2> SUFFICES ASSUME NEW j \in JobIds, IsUp(j)'
                 PROVE  \/ \E i \in RowIds : Active(i)' /\ row'[i].job = j
                        \/ \E w \in Workers : Carrying(w)' /\ thread'[w].new = j
      BY DEF NoOrphan, IsUp
    <2>1. CASE j = n
      BY <1>2, <1>6, <1>9, <2>1 DEF Carrying
    <2>2. CASE j # n
      <3>1. \/ \E i \in RowIds : Active(i) /\ row[i].job = j
            \/ \E w \in Workers : Carrying(w) /\ thread[w].new = j
        BY <1>7, <2>2 DEF OrphanInv, NoOrphan, IsUp
      <3>2. ~Carrying(t)
        BY <1>7 DEF Carrying
      <3>3. QED
        BY <1>7, <1>9, <3>1, <3>2 DEF Active, Carrying
    <2>3. QED
      BY <2>1, <2>2
  <1>11. QED
    BY <1>8, <1>10 DEF OrphanInv

LEMMA RollbackOrphans ==
    ASSUME Answered, TypeOK, OwnerInv, JobOwnersInv, StepsInv, OrphanInv,
           NEW t \in Workers, Rollback(t)
    PROVE  OrphanInv'
  <1>1. PICK m \in Locals : m = thread[t]
    BY DEF TypeOK
  <1>2. PICK l : l = [m EXCEPT !.step = "unlease", !.new = NoJob]
    OBVIOUS
  <1>3. Become(t, l)
    BY <1>1, <1>2 DEF Rollback
  <1>4. /\ l.op = m.op /\ l.row = m.row /\ l.old = m.old /\ l.port = m.port
        /\ l.step = "unlease"
    BY <1>2 DEF Locals
  <1>5. /\ UpsKept /\ job'[m.new].phase \notin Up /\ JobsDown
        /\ UNCHANGED <<row, todo>> /\ thread[t].step = "rollback"
    BY <1>1, RollbackEnds, UpsDown DEF Answered, Rollback, At
  <1>6. ListedJobs' /\ ShownKept /\ \A w \in Workers : Informed(thread[w])'
    <2>1. thread[t].step \in SubmissionSteps /\ l.step \in SubmissionSteps
      BY <1>4, <1>5 DEF SubmissionSteps
    <2>2. QED
      BY <1>1, <1>3, <1>4, <1>5, <2>1, SubmissionGoesOn
  <1>7. \A w \in Workers : w # t => thread'[w] = thread[w]
    BY <1>3 DEF Become, TypeOK
  <1>8. NoOrphan'
    <2> SUFFICES ASSUME NEW j \in JobIds, IsUp(j)'
                 PROVE  \/ \E i \in RowIds : Active(i)' /\ row'[i].job = j
                        \/ \E w \in Workers : Carrying(w)' /\ thread'[w].new = j
      BY DEF NoOrphan, IsUp
    <2>1. IsUp(j) /\ j # m.new
      BY <1>5 DEF UpsKept, IsUp
    <2>2. \/ \E i \in RowIds : Active(i) /\ row[i].job = j
          \/ \E w \in Workers : w # t /\ Carrying(w) /\ thread[w].new = j
      BY <1>1, <2>1 DEF OrphanInv, NoOrphan, IsUp
    <2>3. QED
      BY <1>5, <1>7, <2>2 DEF Active, Carrying
  <1>9. QED
    BY <1>6, <1>8 DEF OrphanInv
(* A new resource takes over the job its submission carried; its id is the *)
(* id of no row that anybody works on or has listed.                       *)
LEMMA InsertOrphans ==
    ASSUME RestartsAlone, TypeOK, OwnerInv, JobOwnersInv, StepsInv, OrphanInv,
           NEW t \in Workers, InsertOk(t)
    PROVE  OrphanInv'
  <1>1. PICK m \in Locals : m = thread[t]
    BY DEF TypeOK
  <1>2. /\ m.step = "insert" /\ UNCHANGED <<slurmVars, todo>>
        /\ NewRow \in RowIds
        /\ row'[NewRow].state = "PENDING" /\ row'[NewRow].job = m.new
        /\ \A k \in RowIds : k # NewRow => row'[k] = row[k]
    BY <1>1 DEF InsertOk, At, TypeOK, NoInstance
  <1>3. \A w \in Workers : \/ w = t /\ thread'[w] = Idle
                           \/ w # t /\ thread'[w] = thread[w]
    BY DEF InsertOk, Finish, Become, TypeOK
  <1>4. /\ lastRow \in Nat
        /\ \A w \in Workers : thread[w].row # NewRow
        /\ \A x \in todo : x.row # NewRow /\ x.row \in RowIds
        /\ ~Present(NewRow)
    <2>1. lastRow \in Nat /\ NewRow = lastRow + 1
      BY DEF TypeOK, NewRow
    <2>2. \A w \in Workers : thread[w].row \in 0 .. MaxRow /\ thread[w].row <= lastRow
      BY DEF TypeOK, Locals, OwnerInv, ServesUser
    <2>3. \A x \in todo : x.row \in RowIds /\ x.row <= lastRow
      BY DEF TypeOK, Listed, OwnerInv, ListedIds
    <2>4. Present(NewRow) => NewRow <= lastRow
      BY <1>2 DEF OwnerInv, UnusedIds
    <2>5. MaxRow \in Nat
      BY InstancesAssumption
    <2>6. QED
      BY <2>1, <2>2, <2>3, <2>4, <2>5 DEF RowIds
  <1>5. \A w \in Workers : thread[w].op # "restart"
    <2>1. thread[t].op = "apply"
      BY <1>1, <1>2 DEF StepsInv, InOrder, SubmissionSteps
    <2>2. thread[t] # Idle
      BY <1>1, <1>2 DEF Idle
    <2>3. QED
      BY <2>1, <2>2, RestartAlone
  <1>6. ASSUME NEW w \in Workers PROVE Informed(thread[w])'
    <2>1. PICK n : n = thread'[w]
      OBVIOUS
    <2>2. CASE n = Idle
      BY <2>1, <2>2, IdleInformed DEF Informed
    <2>3. CASE w # t /\ n = thread[w]
      <3>1. Informed(n) /\ OwnsJobs(n) /\ n.op # "restart" /\ n.row # NewRow
        BY <1>4, <1>5, <2>3 DEF OrphanInv, JobOwnersInv
      <3>2. n.step \in ActingSteps => row'[n.row] = row[n.row]
        BY <1>2, <3>1 DEF OwnsJobs
      <3>3. Informed(n)'
        BY <1>2, <3>1, <3>2 DEF Informed, Present, IsUp, slurmVars
      <3>4. QED
        BY <2>1, <3>3 DEF Informed
    <2>4. QED
      BY <1>3, <2>1, <2>2, <2>3
  <1>7. ListedJobs'
    BY <1>2, <1>4 DEF OrphanInv, ListedJobs, Present
  <1>8. NoOrphan'
    <2> SUFFICES ASSUME NEW j \in JobIds, IsUp(j)'
                 PROVE  \/ \E i \in RowIds : Active(i)' /\ row'[i].job = j
                        \/ \E w \in Workers : Carrying(w)' /\ thread'[w].new = j
      BY DEF NoOrphan, IsUp
    <2>1. \/ \E i \in RowIds : Active(i) /\ row[i].job = j
          \/ \E w \in Workers : Carrying(w) /\ thread[w].new = j
      BY <1>2 DEF OrphanInv, NoOrphan, IsUp, slurmVars
    <2>2. ASSUME NEW i \in RowIds, Active(i), row[i].job = j
          PROVE  Active(i)' /\ row'[i].job = j
      <3>1. i # NewRow
        BY <1>4, <2>2 DEF Active, Present, ActiveStates
      <3>2. QED
        BY <1>2, <2>2, <3>1 DEF Active
    <2>3. CASE m.new = j
      BY <1>2, <2>3 DEF Active, ActiveStates
    <2>4. ASSUME NEW w \in Workers, w # t, Carrying(w), thread[w].new = j
          PROVE  Carrying(w)' /\ thread'[w].new = j
      BY <1>3, <2>4 DEF Carrying
    <2>5. QED
      BY <1>1, <2>1, <2>2, <2>3, <2>4
  <1>9. QED
    BY <1>6, <1>7, <1>8 DEF OrphanInv

(* A restart lets go of a job that is over; nobody else is at work.        *)
LEMMA RestartOrphans ==
    ASSUME RestartsAlone, TypeOK, JobOwnersInv, StepsInv, OrphanInv,
           NEW t \in Workers, RestartUpdate(t)
    PROVE  OrphanInv'
  <1>1. PICK m \in Locals : m = thread[t]
    BY DEF TypeOK
  <1>2. /\ m.step = "update" /\ UNCHANGED <<slurmVars, todo>> /\ Finish(t)
        /\ Informed(m) /\ OwnsJobs(m)
    BY <1>1 DEF RestartUpdate, At, OrphanInv, JobOwnersInv
  <1>3. m.op = "restart"
    BY <1>1, <1>2 DEF StepsInv, InOrder, SubmissionSteps
  <1>4. todo = {} /\ \A w \in Workers : w # t => thread[w] = Idle
    BY <1>1, <1>3, RestartAlone
  <1>5. \A w \in Workers : thread'[w] = Idle
    BY <1>2, <1>4 DEF Finish, Become, TypeOK
  <1>6. Present(m.row) /\ m.row \in RowIds /\ ~IsUp(m.old) /\ row[m.row].job = m.old
    BY <1>2, <1>3 DEF Informed, OwnsJobs
  <1>7. /\ row'[m.row].state = "PENDING" /\ row'[m.row].job = m.new
        /\ \A k \in RowIds : k # m.row => row'[k] = row[k]
    <2>1. PICK r \in Instance : r = row[m.row]
      BY <1>6 DEF TypeOK
    <2>2. PICK n, p : n = m.new /\ p = m.port
      OBVIOUS
    <2>3. PICK q : q = [r EXCEPT !.state = "PENDING", !.job = n, !.port = p,
                                 !.clock = "unset", !.claimed = FALSE]
      OBVIOUS
    <2>4. row' = [row EXCEPT ![m.row] = q]
      BY <1>1, <1>6, <2>1, <2>2, <2>3 DEF RestartUpdate, Update
    <2>5. q.state = "PENDING" /\ q.job = n
      BY <2>3 DEF Instance
    <2>6. QED
      BY <1>6, <2>2, <2>4, <2>5 DEF TypeOK
  <1>8. ASSUME NEW w \in Workers PROVE Informed(thread[w])'
    BY <1>5, IdleInformed DEF Informed
  <1>9. ListedJobs'
    BY <1>2, <1>4 DEF ListedJobs
  <1>10. NoOrphan'
    <2> SUFFICES ASSUME NEW j \in JobIds, IsUp(j)'
                 PROVE  \E i \in RowIds : Active(i)' /\ row'[i].job = j
      BY DEF NoOrphan, IsUp
    <2>1. IsUp(j)
      BY <1>2 DEF IsUp, slurmVars
    <2>2. \/ \E i \in RowIds : Active(i) /\ row[i].job = j
          \/ m.new = j
      BY <1>1, <1>4, <2>1 DEF OrphanInv, NoOrphan, IsUp, Carrying, Idle
    <2>3. CASE m.new = j
      BY <1>6, <1>7, <2>3 DEF Active, ActiveStates
    <2>4. ASSUME NEW i \in RowIds, Active(i), row[i].job = j
          PROVE  Active(i)' /\ row'[i].job = j
      BY <1>6, <1>7, <2>1, <2>4 DEF Active
    <2>5. QED
      BY <2>2, <2>3, <2>4
  <1>11. QED
    BY <1>8, <1>9, <1>10 DEF OrphanInv

LEMMA SubmissionOrphans ==
    ASSUME Answered, RestartsAlone, TypeOK, OwnerInv, JobOwnersInv, StepsInv, OrphanInv,
           NEW t \in Workers, Submission(t)
    PROVE  OrphanInv'
  <1>1. PICK m \in Locals : m = thread[t]
    BY DEF TypeOK
  <1>2. Informed(m) /\ InOrder(m)
    BY <1>1 DEF OrphanInv, StepsInv
  <1> USE DEF At
  <1>3. CASE SubmitOk(t) \/ Rollback(t) \/ InsertOk(t) \/ RestartUpdate(t)
    BY <1>3, SubmitOrphans, RollbackOrphans, InsertOrphans, RestartOrphans
  <1>4. CASE Unlease(t)
    BY <1>4, DelPortOrphans DEF Unlease, Carrying
  <1>5. CASE AllocPort(t)
    <2>1. PICK p \in Ports :
            /\ FreePort(p)
            /\ Become(t, [m EXCEPT !.step = "submit", !.port = p, !.leased = TRUE])
      BY <1>1, <1>5 DEF AllocPort
    <2>2. PICK l : l = [m EXCEPT !.step = "submit", !.port = p, !.leased = TRUE]
      OBVIOUS
    <2>3. /\ Become(t, l) /\ l.op = m.op /\ l.row = m.row /\ l.old = m.old
          /\ l.port = p /\ l.step = "submit"
      BY <2>1, <2>2 DEF Locals
    <2>4. /\ UNCHANGED <<slurmVars, row, todo>> /\ m.step = "alloc"
          /\ UpsKept /\ CoreKept /\ StatesKept /\ JobsDown
      BY <1>1, <1>5, SameUps, SameCore, UpsDown DEF AllocPort, StatesKept
    <2>5. Steady /\ ShownKept /\ ListedJobs'
      BY <2>4, SteadyStates, ListedStay
    <2>6. Informed(l)'
      BY <1>2, <2>1, <2>3, <2>4
         DEF Informed, FreePort, Active, Present, IsUp, slurmVars, ActingSteps, RowSteps,
             EndedSteps, ToldEnded
    <2>7. CarriersGoOn
      BY <1>1, <2>3, <2>4, CarriersBecome DEF Carrying
    <2>8. QED
      BY <2>3, <2>4, <2>5, <2>6, <2>7, InformedBecome, NoOrphanKept DEF OrphanInv
  <1>6. CASE NoPortLeft(t)
    <2>1. /\ UNCHANGED <<slurmVars, row, todo>> /\ m.step = "alloc" /\ Become(t, Idle)
          /\ UpsKept /\ CoreKept /\ StatesKept /\ JobsDown
      BY <1>1, <1>6, SameUps, SameCore, UpsDown DEF NoPortLeft, StatesKept, Finish
    <2>2. Steady /\ ShownKept /\ ListedJobs'
      BY <2>1, SteadyStates, ListedStay
    <2>3. CarriersGoOn
      BY <1>1, <2>1, CarriersBecome DEF Carrying
    <2>4. QED
      BY <2>1, <2>2, <2>3, InformedBecome, NoOrphanKept DEF OrphanInv
  <1>7. CASE SubmitFails(t) \/ InsertConflicts(t)
    <2>1. PICK s : /\ Goto(t, s)
                   /\ \/ s = "unlease" /\ m.step = "submit"
                      \/ s = "rollback" /\ m.step = "insert"
      BY <1>1, <1>7 DEF SubmitFails, InsertConflicts
    <2>2. PICK l : l = [m EXCEPT !.step = s]
      OBVIOUS
    <2>3. /\ Become(t, l) /\ l.op = m.op /\ l.row = m.row /\ l.old = m.old
          /\ l.port = m.port /\ l.new = m.new /\ l.step = s
      BY <1>1, <2>1, <2>2 DEF Goto, Locals
    <2>4. /\ UNCHANGED <<slurmVars, row, todo>> /\ UpsKept /\ JobsDown
      BY <1>7, SameUps, UpsDown DEF SubmitFails, InsertConflicts
    <2>5. {m.step, s} \subseteq SubmissionSteps /\ s \notin {"submit", "update"}
      BY <2>1 DEF SubmissionSteps
    <2>6. ListedJobs' /\ ShownKept /\ \A w \in Workers : Informed(thread[w])'
      BY <1>1, <2>3, <2>4, <2>5, SubmissionGoesOn
    <2>7. CarriersGoOn
      BY <1>1, <2>1, <2>3, CarriersBecome DEF Carrying, CarryingSteps
    <2>8. QED
      BY <2>4, <2>6, <2>7, NoOrphanKept DEF OrphanInv
  <1>8. ~RestartConflicts(t)
    <2> SUFFICES ASSUME RestartConflicts(t) PROVE FALSE
      OBVIOUS
    <2>1. m.step = "update" /\ PortClash(m.row, m.port)
      BY <1>1 DEF RestartConflicts
    <2>2. m.op = "restart"
      BY <1>2, <2>1 DEF InOrder, SubmissionSteps
    <2>3. QED
      BY <1>2, <2>1, <2>2 DEF Informed, PortClash
  <1>9. ~SubmitLost(t)
    BY DEF SubmitLost, Answered
  <1>10. QED
    BY <1>3, <1>4, <1>5, <1>6, <1>7, <1>8, <1>9 DEF Submission

(* What a handler is told about its job is true: a job it has cancelled or *)
(* that Slurm no longer lists is over.                                     *)
LEMMA AskingEnds ==
    ASSUME Answered, TypeOK, JobOwnersInv, NEW t \in Workers, AsksSlurm(t)
    PROVE  \/ Finish(t)
           \/ \E s \in RowSteps, v \in StateCN :
                 /\ Become(t, [thread[t] EXCEPT !.step = s, !.seen = v])
                 /\ s \in EndedSteps => job'[thread[t].old].phase \notin Up
  <1>1. PICK m \in Locals : m = thread[t]
    BY DEF TypeOK
  <1>2. Ended \cap Up = {} /\ "CANCELLED" \in StateCN
    BY SlurmAssumption DEF Ended, Up, StateCN
  <1>3. AfterKill(t) \in RowSteps /\ {"write_live", "write_ended"} \subseteq RowSteps
    BY DEF AfterKill, RowSteps
  <1>4. MissedInQueue(m.old) => job[m.old].phase \notin Up
    BY <1>2 DEF MissedInQueue, Answered
  <1>5. CASE Kill(t)
    <2>1. m.old \in JobIds /\ Scancel(m.user, m.old)
      BY <1>1, <1>5, KilledGiven DEF Kill
    <2>2. job'[m.old].phase \notin Up
      BY <2>1, ScancelUps DEF IsUp
    <2>3. QED
      BY <1>1, <1>2, <1>3, <1>5, <2>2 DEF Kill
  <1>6. CASE KillFindsEnded(t)
    <2>1. \E v \in StateCN : Become(t, [m EXCEPT !.step = AfterKill(t), !.seen = v])
      BY <1>1, <1>6, HistoryType DEF KillFindsEnded, AlreadyEndedReplies
    <2>2. job'[m.old].phase \notin Up
      BY <1>1, <1>4, <1>6 DEF KillFindsEnded, slurmVars
    <2>3. QED
      BY <1>1, <1>3, <2>1, <2>2
  <1>7. ~KillFails(t) /\ ~KillLost(t)
    BY KilledGiven DEF KillFails, KillLost, KillRefused, Answered
  <1>8. CASE Query(t)
    <2>1. CASE SeenInQueue(m.old) /\ Become(t, [m EXCEPT !.step = "write_live",
                                                         !.seen = LiveReply(m.old)])
      BY <1>1, <1>3, <2>1, MappedType DEF LiveReply, EndedSteps, ToldEnded
    <2>2. CASE MissedInQueue(m.old) /\ \E v \in EndedReplies(m.old) :
                  Become(t, [m EXCEPT !.step = "write_ended", !.seen = v])
      <3>1. \E v \in StateCN : Become(t, [m EXCEPT !.step = "write_ended", !.seen = v])
        BY <2>2, HistoryType DEF EndedReplies
      <3>2. job'[m.old].phase \notin Up
        BY <1>4, <1>8, <2>2 DEF Query, slurmVars
      <3>3. QED
        BY <1>1, <1>3, <3>1, <3>2
    <2>3. QED
      BY <1>1, <1>8, <2>1, <2>2 DEF Query
  <1>9. QED
    BY <1>5, <1>6, <1>7, <1>8 DEF AsksSlurm
(* A handler takes a row out of the active states, or deletes it, only     *)
(* when the job of the row is over.                                        *)
LEMMA HandlingRows ==
    ASSUME Answered, TypeOK, StepsInv, OrphanInv, NEW t \in Workers, Handling(t),
           NEW k \in RowIds, Present(k)
    PROVE  \/ Present(k)' /\ (Active(k)' <=> Active(k))
           \/ k = thread[t].row /\ thread[t].step \in EndedSteps /\ ~Active(k)'
              /\ row[k].job = thread[t].old /\ ~IsUp(thread[t].old)
  <1>1. PICK m \in Locals : m = thread[t]
    BY DEF TypeOK
  <1>2. InOrder(m) /\ Informed(m) /\ "squeue" \notin Faults /\ "configuring" \notin Faults
    BY <1>1 DEF StepsInv, OrphanInv, Answered
  <1>3. EndedSteps \subseteq ActingSteps /\ "rmlog" \in EndedSteps /\ ToldEnded \subseteq EndedSteps
    BY DEF EndedSteps, ToldEnded, ActingSteps, RowSteps
  <1>4. CASE row'[k].state = row[k].state
    BY <1>4 DEF Present, Active
  <1>5. CASE k = m.row /\ row'[k].state = m.seen /\ m.step \in ToldEnded
    BY <1>1, <1>2, <1>3, <1>5 DEF InOrder, Informed, Active
  <1>6. CASE row'[k].state = m.seen /\ m.step = "write_live" /\ Active(k)
    BY <1>2, <1>6 DEF InOrder, Active, Present, ActiveStates
  <1>7. CASE k = m.row /\ m.step = "rmlog" /\ row'[k] = NoInstance
    BY <1>1, <1>2, <1>3, <1>7 DEF Informed, Active, ActiveStates, NoInstance
  <1>8. QED
    BY <1>1, <1>4, <1>5, <1>6, <1>7, HandlingStates DEF At

LEMMA HandlingOrphans ==
    ASSUME Answered, RestartsAlone, TypeOK, OwnerInv, JobOwnersInv, StepsInv, OrphanInv,
           NEW t \in Workers, Handling(t)
    PROVE  OrphanInv'
  <1>1. CASE ReleasePort(t)
    BY <1>1, DelPortOrphans DEF ReleasePort, At, Carrying
  <1> SUFFICES ASSUME ~ReleasePort(t) PROVE OrphanInv'
    BY <1>1
  <1>2. PICK m \in Locals : m = thread[t]
    BY DEF TypeOK
  <1>3. m.step \in RowSteps /\ CoreKept /\ todo' = todo
    BY <1>2, HandlingShape
  <1>4. UpsKept /\ JobsDown
    BY HandlingUps, UpsDown
  <1>5. ~Carrying(t) /\ m # Idle /\ m.op # "restart" /\ m.step \in ActingSteps
    BY <1>2, <1>3 DEF RowSteps, Carrying, Idle, StepsInv, InOrder, ActingSteps
  <1>6. \A w \in Workers : thread[w].op # "restart"
    BY <1>2, <1>5, RestartAlone
  <1>7. NoneRevived
    <2> SUFFICES ASSUME NEW k \in RowIds, Active(k)' PROVE Active(k)
      BY DEF NoneRevived
    <2>1. Present(k)
      BY <1>3 DEF CoreKept, Active, Present, ActiveStates
    <2>2. QED
      BY <2>1, HandlingRows
  <1>8. Steady
    BY <1>3, <1>4, <1>6, <1>7 DEF Steady, RestartsFind
  <1>9. ShownKept
    <2> SUFFICES ASSUME NEW i \in RowIds, Active(i), IsUp(row[i].job)
                 PROVE  Active(i)' /\ row'[i].job = row[i].job
      BY DEF ShownKept
    <2>1. Present(i)
      BY DEF Active, Present, ActiveStates
    <2>2. Present(i)' /\ Active(i)'
      BY <2>1, HandlingRows
    <2>3. QED
      BY <1>3, <2>2 DEF CoreKept
  <1>10. PICK l : Become(t, l) /\ (l \in {Idle, NextInScan} \/ Informed(l)')
    <2>1. CASE Finish(t) \/ Become(t, NextInScan)
      BY <2>1 DEF Finish
    <2>2. ASSUME NEW s \in RowSteps, NEW v,
                 Become(t, [m EXCEPT !.step = s, !.seen = v]),
                 s \in EndedSteps => job'[m.old].phase \notin Up
          PROVE  \E l : Become(t, l) /\ Informed(l)'
      <3>1. PICK l : l = [m EXCEPT !.step = s, !.seen = v]
        OBVIOUS
      <3>2. /\ Become(t, l) /\ l.op = m.op /\ l.row = m.row /\ l.old = m.old
            /\ l.port = m.port /\ l.step = s
        BY <2>2, <3>1 DEF Locals
      <3>3. l.step \in EndedSteps => ~IsUp(l.old)'
        BY <2>2, <3>2 DEF IsUp
      <3>4. Informed(l)'
        BY <1>2, <1>5, <1>8, <3>2, <3>3, InformedMoves
      <3>5. QED
        BY <3>2, <3>4
    <2>3. CASE AsksSlurm(t)
      BY <1>2, <2>1, <2>2, <2>3, AskingEnds
    <2>4. CASE ~AsksSlurm(t)
      <3>1. CASE \E s \in PlainSteps : Goto(t, s)
        <4>1. PICK s \in PlainSteps : Goto(t, s)
          BY <3>1
        <4>2. s \in RowSteps /\ s \notin EndedSteps
          BY DEF PlainSteps, RowSteps, EndedSteps, ToldEnded
        <4>3. [m EXCEPT !.step = s] = [m EXCEPT !.step = s, !.seen = m.seen]
          BY DEF Locals
        <4>4. QED
          BY <1>2, <2>2, <4>1, <4>2, <4>3 DEF Goto
      <3>2. QED
        BY <2>1, <2>4, <3>1, HandlingGoes
    <2>5. QED
      BY <2>3, <2>4
  <1>11. \A w \in Workers : Informed(thread[w])'
    BY <1>8, <1>10, InformedBecome
  <1>12. CarriersGoOn
    BY <1>5, <1>10, CarriersBecome
  <1>13. QED
    BY <1>3, <1>4, <1>9, <1>11, <1>12, ListedStay, NoOrphanKept DEF OrphanInv

LEMMA OrphansCorrect ==
    ASSUME Answered, RestartsAlone PROVE Spec => []OrphanInv
  <1>1. Init => OrphanInv
    <2> SUFFICES ASSUME Init PROVE OrphanInv
      OBVIOUS
    <2>1. NoOrphan
      BY DEF Init, SlurmInit, NoOrphan, Up
    <2>2. ListedJobs
      BY DEF Init, ListedJobs
    <2>3. Informed(Idle)
      BY DEF Informed, Idle, ActingSteps, RowSteps, EndedSteps, ToldEnded
    <2>4. QED
      BY <2>1, <2>2, <2>3 DEF Init, OrphanInv
  <1>2. TypeOK /\ OwnerInv /\ JobOwnersInv /\ OneHome /\ StepsInv /\ OrphanInv /\ [Next]_vars
            => OrphanInv'
    <2> SUFFICES ASSUME TypeOK, OwnerInv, JobOwnersInv, OneHome, StepsInv, OrphanInv,
                        [Next]_vars
                 PROVE  OrphanInv'
      OBVIOUS
    <2>1. CASE \E t \in Threads : Request(t)
      BY <2>1, RequestOrphans
    <2>2. CASE \E t \in Workers : Submission(t)
      BY <2>2, SubmissionOrphans
    <2>3. CASE \E t \in Workers : Handling(t)
      BY <2>3, HandlingOrphans
    <2>4. CASE Ticking
      BY <2>4, TickingOrphans
    <2>5. CASE Elsewhere
      BY <2>5, ElsewhereOrphans
    <2>6. QED
      BY <2>1, <2>2, <2>3, <2>4, <2>5 DEF Next, Elsewhere
  <1>3. QED
    BY <1>1, <1>2, TypeCorrect, OwnersCorrect, JobOwnersCorrect, HomesCorrect, StepsCorrect,
       PTL DEF Spec

(* No orphan: as long as the portal lives, the cluster answers and         *)
(* restarts do not race, a job that is up is the job of an active resource *)
(* or is about to be recorded or rolled back, through every interleaving   *)
(* of submissions, stops, deletes, saves, views and the expiry scan.       *)
THEOREM NoOrphanCorrect ==
    ASSUME Answered, RestartsAlone PROVE Spec => []NoOrphan
  <1>1. OrphanInv => NoOrphan
    BY DEF OrphanInv
  <1>2. QED
    BY <1>1, OrphansCorrect, PTL

(* Under the same assumptions a resource lets go of its job, in a restart  *)
(* or a delete, only when that job is over.                                *)
THEOREM ForgetsOnlyEndedCorrect ==
    ASSUME Answered, RestartsAlone PROVE Spec => ForgetsOnlyEndedJobs
  <1>1. TypeOK /\ OwnerInv /\ StepsInv /\ OrphanInv /\ [Next]_vars =>
            [\A i \in RowIds : Present(i) /\ row'[i].job # row[i].job =>
                job[row[i].job].phase \notin Up]_vars
    <2> SUFFICES ASSUME TypeOK, OwnerInv, StepsInv, OrphanInv, [Next]_vars,
                        NEW i \in RowIds, Present(i), row'[i].job # row[i].job
                 PROVE  ~IsUp(row[i].job)
      BY DEF IsUp
    <2>1. ~(CoreKept /\ Present(i)')
      BY DEF CoreKept
    <2>2. PICK t \in Workers : Submission(t) \/ Handling(t)
      <3>1. StatesKept => Present(i)'
        BY DEF StatesKept, Present
      <3>2. QED
        BY <2>1, <3>1, OtherCores, OtherStates DEF Next, Elsewhere
    <2>3. CASE Handling(t)
      <3>1. CASE ReleasePort(t)
        BY <3>1 DEF ReleasePort
      <3>2. CASE ~ReleasePort(t)
        BY <2>1, <2>3, <3>2, HandlingRows, HandlingShape
      <3>3. QED
        BY <3>1, <3>2
    <2>4. CASE InsertOk(t)
      <3>1. lastRow \in Nat /\ i <= lastRow
        BY DEF TypeOK, OwnerInv, UnusedIds
      <3>2. i # NewRow
        BY <3>1 DEF NewRow
      <3>3. QED
        BY <2>4, <3>2 DEF InsertOk, TypeOK
    <2>5. CASE RestartUpdate(t)
      <3>1. i = thread[t].row /\ thread[t].step = "update"
        BY <2>5 DEF RestartUpdate, At, Update, TypeOK
      <3>2. thread[t].op = "restart"
        BY <3>1 DEF StepsInv, InOrder, SubmissionSteps
      <3>3. QED
        BY <3>1, <3>2 DEF OrphanInv, Informed
    <2>6. CASE Submission(t) /\ ~InsertOk(t) /\ ~RestartUpdate(t)
      BY <2>6 DEF Submission, AllocPort, NoPortLeft, Unlease, SubmitOk, SubmitFails,
         SubmitLost, InsertConflicts, Rollback, RestartConflicts
    <2>7. QED
      BY <2>2, <2>3, <2>4, <2>5, <2>6
  <1>2. QED
    BY <1>1, TypeCorrect, OwnersCorrect, StepsCorrect, OrphansCorrect, PTL
       DEF Spec, ForgetsOnlyEndedJobs
-----------------------------------------------------------------------------
(* The port of an active resource when ports are released too              *)

(* A handler that took a lease, or is about to delete one.                 *)
HasPort(t) == Holds(t) \/ At(t, "unport")

ActiveLeased == \A i \in RowIds :
    Active(i) => row[i].port \in Ports /\ lease[row[i].port] = row[i].owner

(* Such a handler serves a request, still has the lease if it is a         *)
(* submission, and no active row has its port.                             *)
PortApart == \A t \in Workers : HasPort(t) =>
    /\ t \in Threads
    /\ Holds(t) => thread[t].leased
    /\ \A i \in RowIds : Active(i) => row[i].port # thread[t].port

ReleaseInv == ActiveLeased /\ PortApart

OneByOne == \A s, t \in Threads : s = t

(* No handler comes to a port in this step, and none loses its lease.      *)
NoNewPorts == \A w \in Workers :
    HasPort(w)' => /\ HasPort(w) /\ (Holds(w)' => Holds(w))
                   /\ thread'[w].port = thread[w].port
                   /\ thread'[w].leased = thread[w].leased

LEMMA ReleaseKept ==
    ASSUME TypeOK, OwnerInv, ReleaseInv, CoreKept, NoneRevived, LeasesKept, NoNewPorts
    PROVE  ReleaseInv'
  <1>1. ASSUME NEW i \in RowIds, Active(i)'
        PROVE  /\ Active(i) /\ row'[i].port = row[i].port /\ row'[i].owner = row[i].owner
               /\ row[i].owner \in Users
    BY <1>1 DEF NoneRevived, CoreKept, Active, Present, ActiveStates, OwnerInv, UnusedIds
  <1>2. ActiveLeased'
    BY <1>1 DEF ReleaseInv, ActiveLeased, LeasesKept
  <1>3. PortApart'
    BY <1>1 DEF ReleaseInv, PortApart, NoNewPorts
  <1>4. QED
    BY <1>2, <1>3 DEF ReleaseInv

LEMMA NoNewPortsBecome ==
    ASSUME TypeOK, NEW t \in Workers, NEW l, Become(t, l), l.step # "unport",
           l.step \in HoldingSteps =>
               Holds(t) /\ l.port = thread[t].port /\ l.leased = thread[t].leased
    PROVE  NoNewPorts
  BY DEF TypeOK, Become, NoNewPorts, HasPort, Holds, At

LEMMA NoNewPortsFinish ==
    ASSUME TypeOK, NEW t \in Workers, Finish(t)
    PROVE  NoNewPorts
  <1>1. Idle.step = "idle"
    BY DEF Idle
  <1>2. QED
    BY <1>1, NoNewPortsBecome DEF Finish, HoldingSteps

LEMMA NoNewPortsGoto ==
    ASSUME TypeOK, NEW t \in Workers, NEW s, Goto(t, s), s # "unport",
           s \in HoldingSteps => Holds(t)
    PROVE  NoNewPorts
  <1>1. PICK m \in Locals : m = thread[t]
    BY DEF TypeOK
  <1>2. PICK l : l = [m EXCEPT !.step = s]
    OBVIOUS
  <1>3. Become(t, l) /\ l.step = s /\ l.port = m.port /\ l.leased = m.leased
    BY <1>1, <1>2 DEF Goto, Locals
  <1>4. QED
    BY <1>1, <1>3, NoNewPortsBecome

(* When requests come one at a time, no other handler has a port.          *)
LEMMA AloneWithPort ==
    ASSUME OneByOne, ReleaseInv, NEW t \in Threads, NEW w \in Workers, HasPort(w)
    PROVE  w = t
  BY DEF OneByOne, ReleaseInv, PortApart

LEMMA SameRowsKept ==
    ASSUME TypeOK, UNCHANGED row
    PROVE  CoreKept /\ NoneRevived
  BY SameCore DEF NoneRevived, Active

LEMMA DelPortReleases ==
    ASSUME OneByOne, TypeOK, OwnerInv, ReleaseInv, NEW t \in Workers, HasPort(t),
           DelPort(t), row' = row
    PROVE  ReleaseInv'
  <1>1. t \in Threads /\ thread \in [Workers -> Locals]
        /\ lease \in [Ports -> Users \cup {NoUser}]
    BY DEF ReleaseInv, PortApart, TypeOK
  <1>2. ASSUME NEW w \in Workers PROVE ~HasPort(w)'
    <2>1. PICK m \in Locals : m = thread[w]
      BY <1>1
    <2>2. /\ w = t => thread'[w] = Idle
          /\ w # t => thread'[w] \in {m, [m EXCEPT !.leased = FALSE]}
      BY <2>1 DEF DelPort
    <2>3. [m EXCEPT !.leased = FALSE].step = m.step /\ Idle.step = "idle"
      BY DEF Locals, Idle
    <2>4. w # t => m.step \notin HoldingSteps \cup {"unport"}
      BY <1>1, <2>1, AloneWithPort DEF HasPort, Holds, At
    <2>5. thread'[w].step \notin HoldingSteps \cup {"unport"}
      BY <2>2, <2>3, <2>4 DEF HoldingSteps
    <2>6. QED
      BY <2>5 DEF HasPort, Holds, At
  <1>3. \A q \in Ports : q # thread[t].port => lease'[q] = lease[q]
    BY <1>1 DEF DelPort
  <1>4. ActiveLeased'
    BY <1>3 DEF ReleaseInv, ActiveLeased, PortApart, Active
  <1>5. QED
    BY <1>2, <1>4 DEF ReleaseInv, PortApart

LEMMA RequestReleases ==
    ASSUME OneByOne, TypeOK, OwnerInv, ReleaseInv, NEW t \in Threads, Request(t)
    PROVE  ReleaseInv'
  <1>1. t \in Workers
    BY DEF Workers
  <1>2. UNCHANGED <<row, lease>>
    BY DEF Request, BeginApply, BeginRestart, BeginStop, BeginDelete, BeginReconcile,
           BeginSave, BeginRelease, Begin
  <1>3. CASE BeginApply(t)
    <2>1. PICK u \in Users, n \in Names :
              Become(t, [Idle EXCEPT !.op = "apply", !.step = "alloc",
                                     !.user = u, !.name = n])
      BY <1>3 DEF BeginApply
    <2>2. PICK l : l = [Idle EXCEPT !.op = "apply", !.step = "alloc",
                                    !.user = u, !.name = n]
      OBVIOUS
    <2>3. Become(t, l) /\ l.step = "alloc"
      BY <2>1, <2>2 DEF Idle
    <2>4. NoNewPorts
      BY <1>1, <2>3, NoNewPortsBecome DEF HoldingSteps
    <2>5. QED
      BY <1>2, <2>4, SameRowsKept, SameLeases, ReleaseKept
  <1>4. ASSUME NEW i \in RowIds,
               BeginRestart(t, i) \/ BeginStop(t, i) \/ BeginDelete(t, i)
               \/ BeginReconcile(t, i) \/ BeginSave(t, i)
        PROVE  ReleaseInv'
    <2>1. PICK o \in AllOps, s \in {"alloc", "kill", "rmlog", "query", "flag"} :
              Begin(t, o, i, s)
      BY <1>4 DEF BeginRestart, BeginStop, BeginDelete, BeginReconcile, BeginSave, AllOps
    <2>2. PICK u, j, f : u = row[i].owner /\ j = row[i].job
                         /\ f = (o = "reconcile" /\ row[i].clock = "unset")
      OBVIOUS
    <2>3. PICK l : l = [Idle EXCEPT !.op = o, !.step = s, !.row = i, !.user = u,
                                    !.old = j, !.fresh = f]
      OBVIOUS
    <2>4. Become(t, l) /\ l.step = s
      BY <2>1, <2>2, <2>3 DEF Begin, Idle
    <2>5. NoNewPorts
      BY <1>1, <2>4, NoNewPortsBecome DEF HoldingSteps
    <2>6. QED
      BY <1>2, <2>5, SameRowsKept, SameLeases, ReleaseKept
  <1>5. ASSUME NEW p \in Ports, BeginRelease(t, p) PROVE ReleaseInv'
    <2>1. PICK u \in Users : u = lease[p]
      BY <1>5 DEF BeginRelease
    <2>2. PICK l : l = [Idle EXCEPT !.op = "release", !.step = "unport", !.user = u,
                                    !.port = p, !.leased = TRUE]
      OBVIOUS
    <2>3. /\ l.step = "unport" /\ l.port = p
          /\ \A w \in Workers : \/ w = t /\ thread'[w] = l
                                \/ w # t /\ thread'[w] = thread[w]
      BY <1>5, <2>1, <2>2 DEF BeginRelease, Become, Idle, TypeOK
    <2>4. At(t, "idle")
      BY <1>5 DEF BeginRelease
    <2>5. \A w \in Workers : w # t => ~HasPort(w)
      BY AloneWithPort
    <2>6. \A i \in RowIds : Active(i) => row[i].port # p
      BY <1>5 DEF BeginRelease, ReleaseInv, ActiveLeased
    <2>7. PortApart'
      BY <1>2, <2>3, <2>5, <2>6
         DEF PortApart, HasPort, Holds, HoldingSteps, At, Active
    <2>8. ActiveLeased'
      BY <1>2 DEF ReleaseInv, ActiveLeased, Active
    <2>9. QED
      BY <2>7, <2>8 DEF ReleaseInv
  <1>6. QED
    BY <1>3, <1>4, <1>5 DEF Request

LEMMA AllocReleases ==
    ASSUME OneByOne, TypeOK, StepsInv, ReleaseInv, OwnerInv, NEW t \in Workers, AllocPort(t)
    PROVE  ReleaseInv'
  <1>1. PICK m \in Locals : m = thread[t]
    BY DEF TypeOK
  <1>2. PICK p \in Ports :
          /\ FreePort(p)
          /\ lease' = [lease EXCEPT ![p] = m.user]
          /\ Become(t, [m EXCEPT !.step = "submit", !.port = p, !.leased = TRUE])
    BY <1>1 DEF AllocPort
  <1>3. PICK l : l = [m EXCEPT !.step = "submit", !.port = p, !.leased = TRUE]
    OBVIOUS
  <1>4. l.step = "submit" /\ l.port = p /\ l.leased = TRUE
    BY <1>3 DEF Locals
  <1>5. \A w \in Workers : \/ w = t /\ thread'[w] = l
                           \/ w # t /\ thread'[w] = thread[w]
    BY <1>2, <1>3 DEF Become, TypeOK
  <1>6. t \in Threads
    <2>1. m.step = "alloc"
      BY <1>1 DEF AllocPort, At
    <2>2. m.op \in {"apply", "restart"}
      BY <1>1, <2>1 DEF StepsInv, InOrder, SubmissionSteps
    <2>3. QED
      BY <1>1, <2>2 DEF StepsInv, TickerScans, Workers, Idle
  <1>7. row' = row /\ \A i \in RowIds : Active(i) => row[i].port # p
    BY <1>2 DEF AllocPort, FreePort
  <1>8. \A q \in Ports : q # p => lease'[q] = lease[q]
    BY <1>2 DEF TypeOK
  <1>9. \A w \in Workers : w # t => ~HasPort(w)
    BY <1>6, AloneWithPort
  <1>10. ActiveLeased'
    BY <1>7, <1>8 DEF ReleaseInv, ActiveLeased, Active
  <1>11. PortApart'
    BY <1>4, <1>5, <1>6, <1>7, <1>9 DEF PortApart, HasPort, Holds, At, Active
  <1>12. QED
    BY <1>10, <1>11 DEF ReleaseInv

LEMMA RecordReleases ==
    ASSUME OneByOne, TypeOK, OwnerInv, ReleaseInv, NEW t \in Workers,
           InsertOk(t) \/ RestartUpdate(t)
    PROVE  ReleaseInv'
  <1>1. /\ Carrying(t) /\ Finish(t) /\ lease' = lease
        /\ \A k \in RowIds : Present(k)' =>
              \/ Present(k) /\ row'[k] = row[k]
              \/ row'[k].port = thread[t].port /\ row'[k].owner = thread[t].user
    BY RecordShape
  <1>2. HasPort(t)
    BY <1>1 DEF HasPort, Holds, HoldingSteps, Carrying
  <1>3. t \in Threads /\ thread[t].leased
    BY <1>1, <1>2 DEF ReleaseInv, PortApart, Holds, HoldingSteps, Carrying
  <1>4. thread[t].port \in Ports /\ lease[thread[t].port] = thread[t].user
    BY <1>3 DEF OwnerInv, ServesUser
  <1>5. ActiveLeased'
    <2> SUFFICES ASSUME NEW k \in RowIds, Active(k)'
                 PROVE  row'[k].port \in Ports /\ lease'[row'[k].port] = row'[k].owner
      BY DEF ActiveLeased
    <2>1. Present(k)'
      BY DEF Active, Present, ActiveStates
    <2>2. QED
      BY <1>1, <1>4, <2>1 DEF ReleaseInv, ActiveLeased, Active
  <1>6. \A w \in Workers : w # t => ~HasPort(w)
    BY <1>3, AloneWithPort
  <1>7. PortApart'
    BY <1>1, <1>6 DEF Finish, Become, TypeOK, PortApart, HasPort, Holds, HoldingSteps, At, Idle
  <1>8. QED
    BY <1>5, <1>7 DEF ReleaseInv

LEMMA SubmissionReleases ==
    ASSUME OneByOne, TypeOK, OwnerInv, StepsInv, ReleaseInv, NEW t \in Workers, Submission(t)
    PROVE  ReleaseInv'
  <1>1. PICK m \in Locals : m = thread[t]
    BY DEF TypeOK
  <1> USE DEF At
  <1>2. CASE AllocPort(t) \/ InsertOk(t) \/ RestartUpdate(t)
    BY <1>2, AllocReleases, RecordReleases
  <1>3. CASE Unlease(t)
    BY <1>3, DelPortReleases DEF Unlease, HasPort, Holds, HoldingSteps
  <1>4. CASE NoPortLeft(t) \/ RestartConflicts(t)
    BY <1>4, SameRowsKept, SameLeases, NoNewPortsFinish, ReleaseKept
       DEF NoPortLeft, RestartConflicts
  <1>5. CASE SubmitFails(t) \/ SubmitLost(t) \/ InsertConflicts(t)
    <2>1. Holds(t) /\ (Goto(t, "unlease") \/ Goto(t, "rollback"))
      BY <1>5 DEF SubmitFails, SubmitLost, InsertConflicts, Holds, HoldingSteps
    <2>2. NoNewPorts
      BY <2>1, NoNewPortsGoto
    <2>3. QED
      BY <1>5, <2>2, SameRowsKept, SameLeases, ReleaseKept
         DEF SubmitFails, SubmitLost, InsertConflicts
  <1>6. CASE SubmitOk(t)
    <2>1. PICK s \in {"insert", "update"} : s = IF m.op = "apply" THEN "insert" ELSE "update"
      OBVIOUS
    <2>2. PICK n : n = NewJob
      OBVIOUS
    <2>3. PICK l : l = [m EXCEPT !.new = n, !.step = s]
      OBVIOUS
    <2>4. Become(t, l)
      BY <1>1, <1>6, <2>1, <2>2, <2>3 DEF SubmitOk
    <2>5. l.step # "unport" /\ l.port = m.port /\ l.leased = m.leased
      BY <2>1, <2>3 DEF Locals
    <2>6. Holds(t)
      BY <1>6 DEF SubmitOk, Holds, HoldingSteps
    <2>7. NoNewPorts
      BY <1>1, <2>4, <2>5, <2>6, NoNewPortsBecome
    <2>8. QED
      BY <1>6, <2>7, SameRowsKept, SameLeases, ReleaseKept DEF SubmitOk
  <1>7. CASE Rollback(t)
    <2>1. PICK l : l = [m EXCEPT !.step = "unlease", !.new = NoJob]
      OBVIOUS
    <2>2. Become(t, l)
      BY <1>1, <1>7, <2>1 DEF Rollback
    <2>3. l.step # "unport" /\ l.port = m.port /\ l.leased = m.leased
      BY <2>1 DEF Locals
    <2>4. Holds(t)
      BY <1>7 DEF Rollback, Holds, HoldingSteps
    <2>5. NoNewPorts
      BY <1>1, <2>2, <2>3, <2>4, NoNewPortsBecome
    <2>6. QED
      BY <1>7, <2>5, SameRowsKept, SameLeases, ReleaseKept DEF Rollback
  <1>8. QED
    BY <1>2, <1>3, <1>4, <1>5, <1>6, <1>7 DEF Submission

LEMMA HandlingReleases ==
    ASSUME OneByOne, "squeue" \notin Faults, TypeOK, OwnerInv, StepsInv, ReleaseInv,
           NEW t \in Workers, Handling(t)
    PROVE  ReleaseInv'
  <1>1. CASE ReleasePort(t)
    BY <1>1, DelPortReleases DEF ReleasePort, HasPort
  <1>2. CASE ~ReleasePort(t)
    <2>1. /\ Finish(t) \/ (t = Ticker /\ Become(t, NextInScan)) \/ GoesOn(t)
          /\ CoreKept /\ LeasesKept
      BY <1>2, HandlingShape, SameLeases
    <2>2. NoneRevived
      <3> SUFFICES ASSUME NEW k \in RowIds, Active(k)', ~Active(k) PROVE FALSE
        BY DEF NoneRevived
      <3>1. row'[k].state = thread[t].seen /\ thread[t].step \in ToldEnded
        BY HandlingStates DEF Active, NoInstance, ActiveStates
      <3>2. QED
        BY <3>1 DEF StepsInv, InOrder, Active
    <2>3. NoNewPorts
      <3>1. CASE Finish(t)
        BY <3>1, NoNewPortsFinish
      <3>2. CASE Become(t, NextInScan)
        <4>1. NextInScan.step = "claim"
          BY DEF NextInScan, Idle
        <4>2. QED
          BY <3>2, <4>1, NoNewPortsBecome DEF HoldingSteps
      <3>3. CASE GoesOn(t)
        <4>1. PICK s \in RowSteps, v \in StateCN :
                  Become(t, [thread[t] EXCEPT !.step = s, !.seen = v])
          BY <3>3 DEF GoesOn
        <4>2. PICK m \in Locals : m = thread[t]
          BY DEF TypeOK
        <4>3. PICK l : l = [m EXCEPT !.step = s, !.seen = v]
          OBVIOUS
        <4>4. Become(t, l) /\ l.step = s
          BY <4>1, <4>2, <4>3 DEF Locals
        <4>5. l.step \notin HoldingSteps /\ l.step # "unport"
          BY <4>4 DEF RowSteps, HoldingSteps
        <4>6. QED
          BY <4>4, <4>5, NoNewPortsBecome
      <3>4. QED
        BY <2>1, <3>1, <3>2, <3>3
    <2>4. QED
      BY <2>1, <2>2, <2>3, ReleaseKept
  <1>3. QED
    BY <1>1, <1>2

LEMMA OtherReleases ==
    ASSUME TypeOK, OwnerInv, ReleaseInv, Ticking \/ Elsewhere
    PROVE  ReleaseInv'
  <1>1. CoreKept /\ StatesKept
    BY OtherCores, OtherStates
  <1>2. NoneRevived
    BY <1>1 DEF NoneRevived, StatesKept, Active
  <1>3. LeasesKept
    BY SlurmAssumption
       DEF LeasesKept, Ticking, Scan, ScanEnds, FlagExpired, ScanException, Claim,
           StartWorker, Elsewhere, RegisterPort, BecomesDue, Crash, vars, TypeOK
  <1>4. thread' = thread => NoNewPorts
    BY DEF NoNewPorts, HasPort, Holds, At
  <1>5. /\ Ticker \in Workers /\ Threads \subseteq Workers
        /\ thread \in [Workers -> Locals]
        /\ NextInScan.step = "claim"
    BY DEF Workers, TypeOK, NextInScan, Idle
  <1>6. CASE Scan
    BY <1>1, <1>2, <1>3, <1>5, <1>6, NoNewPortsBecome, ReleaseKept DEF Scan, HoldingSteps
  <1>7. CASE ScanEnds \/ ScanException
    BY <1>1, <1>2, <1>3, <1>5, <1>7, NoNewPortsFinish, ReleaseKept
       DEF ScanEnds, ScanException
  <1>8. CASE FlagExpired
    BY <1>1, <1>2, <1>3, <1>5, <1>8, NoNewPortsGoto, ReleaseKept
       DEF FlagExpired, HoldingSteps
  <1>9. ASSUME NEW x \in todo, Claim(x), thread' # thread PROVE NoNewPorts
    <2>1. PICK u : u = row[x.row].owner
      OBVIOUS
    <2>2. PICK l : l = [NextInScan EXCEPT !.step = "flag_expired", !.row = x.row,
                                          !.old = x.job, !.user = u]
      OBVIOUS
    <2>3. Become(Ticker, l) /\ l.step = "flag_expired"
      BY <1>9, <2>1, <2>2 DEF Claim, NextInScan, Idle
    <2>4. QED
      BY <1>5, <2>3, NoNewPortsBecome DEF HoldingSteps
  <1>10. ASSUME NEW t \in Threads, StartWorker(t) PROVE NoNewPorts
    <2>1. \A w \in Workers : \/ thread'[w] = thread[w]
                             \/ thread'[w].step \in {"export", "claim"}
      BY <1>5, <1>10 DEF StartWorker, Locals
    <2>2. QED
      BY <2>1 DEF NoNewPorts, HasPort, Holds, HoldingSteps, At
  <1>11. CASE Crash
    <2>1. NoNewPorts
      BY <1>11 DEF Crash, NoNewPorts, HasPort, Holds, HoldingSteps, At, Idle
    <2>2. QED
      BY <1>1, <1>2, <1>3, <2>1, ReleaseKept
  <1>12. QED
    BY <1>1, <1>2, <1>3, <1>4, <1>6, <1>7, <1>8, <1>9, <1>10, <1>11, ReleaseKept
       DEF Ticking, Elsewhere, RegisterPort, BecomesDue, vars

(* When requests come one at a time and squeue answers, users may also     *)
(* release their ports: the port of an active resource stays leased to its *)
(* owner, whatever the expiry thread does and whenever the portal dies.    *)
THEOREM ActivePortReleaseCorrect ==
    ASSUME OneByOne, "squeue" \notin Faults PROVE Spec => []ActivePortLeased
  <1>1. Init => ReleaseInv
    BY DEF Init, ReleaseInv, ActiveLeased, PortApart, HasPort, Holds, HoldingSteps, At,
           Active, ActiveStates, NoInstance, Idle
  <1>2. TypeOK /\ OwnerInv /\ StepsInv /\ ReleaseInv /\ [Next]_vars => ReleaseInv'
    <2> SUFFICES ASSUME TypeOK, OwnerInv, StepsInv, ReleaseInv, [Next]_vars
                 PROVE  ReleaseInv'
      OBVIOUS
    <2>1. CASE \E t \in Threads : Request(t)
      BY <2>1, RequestReleases
    <2>2. CASE \E t \in Workers : Submission(t)
      BY <2>2, SubmissionReleases
    <2>3. CASE \E t \in Workers : Handling(t)
      BY <2>3, HandlingReleases
    <2>4. CASE Ticking \/ Elsewhere
      BY <2>4, OtherReleases
    <2>5. QED
      BY <2>1, <2>2, <2>3, <2>4 DEF Next, Elsewhere
  <1>3. ReleaseInv => ActivePortLeased
    BY DEF ReleaseInv, ActiveLeased, ActivePortLeased
  <1>4. QED
    BY <1>1, <1>2, <1>3, TypeCorrect, OwnersCorrect, StepsCorrect, PTL DEF Spec
=============================================================================
