------------------------ MODULE OrbitInstancesProofs ------------------------
(***************************************************************************)
(* Theorems about OrbitInstances, for every number of users, ports, jobs,  *)
(* rows and threads, every set of enabled operations and every fault.      *)
(***************************************************************************)
EXTENDS OrbitInstances, TLAPS

-----------------------------------------------------------------------------
(* Type correctness                                                        *)

(* What the portal stores of a Slurm state is a word of its vocabulary.    *)
LEMMA MappedType ==
    ASSUME NEW s PROVE Mapped(s) \in StateCN
  BY DEF Mapped, StateCN

LEMMA HistoryType ==
    ASSUME NEW s PROVE History(s) \subseteq StateCN
  BY MappedType DEF History, StateCN

(* scancel moves a job between the phases of a job.                        *)
LEMMA CancelledType ==
    ASSUME NEW s \in Phases PROVE Cancelled(s) \in Phases
  BY DEF Cancelled, Phases, Queued, Up, Ended

(* An UPDATE of one row by a well-formed row keeps the table well-formed.  *)
LEMMA UpdateType ==
    ASSUME NEW i, NEW r, row \in [RowIds -> Instance],
           i \in RowIds => r \in Instance, Update(i, r)
    PROVE  row' \in [RowIds -> Instance]
  BY DEF Update

LEMMA SetStateType ==
    ASSUME NEW i, NEW s \in StateCN, row \in [RowIds -> Instance], SetState(i, s)
    PROVE  row' \in [RowIds -> Instance]
  <1>1. i \in RowIds => [row[i] EXCEPT !.state = s] \in Instance
    BY DEF Instance
  <1>2. QED
    BY <1>1, UpdateType DEF SetState

LEMMA SetSavingType ==
    ASSUME NEW i, NEW b \in BOOLEAN, row \in [RowIds -> Instance], SetSaving(i, b)
    PROVE  row' \in [RowIds -> Instance]
  <1>1. i \in RowIds => [row[i] EXCEPT !.saving = b] \in Instance
    BY DEF Instance
  <1>2. QED
    BY <1>1, UpdateType DEF SetSaving

LEMMA BecomeType ==
    ASSUME NEW t, NEW l, thread \in [Workers -> Locals],
           t \in Workers => l \in Locals, Become(t, l)
    PROVE  thread' \in [Workers -> Locals]
  BY DEF Become

LEMMA GotoType ==
    ASSUME NEW t, NEW s \in Steps, thread \in [Workers -> Locals], Goto(t, s)
    PROVE  thread' \in [Workers -> Locals]
  <1>1. t \in Workers => [thread[t] EXCEPT !.step = s] \in Locals
    BY DEF Locals
  <1>2. QED
    BY <1>1, BecomeType DEF Goto

LEMMA IdleType == Idle \in Locals
  BY SlurmAssumption, InstancesAssumption
     DEF Idle, Locals, NoRow, NoJob, Steps, StateCN, ActiveStates

LEMMA NoInstanceType == NoInstance \in Instance
  BY SlurmAssumption DEF NoInstance, Instance, NoJob

LEMMA FinishType ==
    ASSUME NEW t, thread \in [Workers -> Locals], Finish(t)
    PROVE  thread' \in [Workers -> Locals]
  BY IdleType, BecomeType DEF Finish

LEMMA SbatchType ==
    ASSUME SlurmTypeOK, NEW u \in Users \cup {NoUser},
           NEW p \in Ports \cup {NoPort}, Sbatch(u, p)
    PROVE  SlurmTypeOK' /\ NewJob \in 0 .. MaxJob
  BY DEF SlurmTypeOK, Sbatch, NewJob, JobIds, Job, Phases, Queued, Up

LEMMA ScancelType ==
    ASSUME SlurmTypeOK, NEW u, NEW j, Scancel(u, j)
    PROVE  SlurmTypeOK'
  <1>1. j \in JobIds => Cancelled(job[j].phase) \in Phases
    BY CancelledType DEF SlurmTypeOK, Job
  <1>2. QED
    BY <1>1 DEF SlurmTypeOK, Scancel, Job

LEMMA SlurmStepType ==
    ASSUME SlurmTypeOK, SlurmStep
    PROVE  SlurmTypeOK'
  BY DEF SlurmTypeOK, SlurmStep, JobConfigures, JobStarts, JobEnds,
         JobCancelCompletes, JobRequeues, SetPhase, Job, Phases, Queued, Up, Ended

LEMMA NextInScanType == NextInScan \in Locals
  <1>1. Idle \in Locals
    BY IdleType
  <1>2. QED
    BY <1>1 DEF NextInScan, Locals, Steps, AllOps

(* Reading a row in a free thread.                                         *)
LEMMA BeginType ==
    ASSUME TypeOK, NEW t \in Threads, NEW o \in AllOps, NEW i \in RowIds,
           NEW s \in Steps, Begin(t, o, i, s)
    PROVE  TypeOK'
  <1> DEFINE f == (o = "reconcile" /\ row[i].clock = "unset")
             l == [Idle EXCEPT !.op = o, !.step = s, !.row = i,
                     !.user = row[i].owner, !.old = row[i].job, !.fresh = f]
  <1>1. row[i] \in Instance
    BY DEF TypeOK
  <1>2. i \in 0 .. MaxRow
    BY InstancesAssumption DEF RowIds
  <1>4. Become(t, l)
    BY DEF Begin
  <1>f. f \in BOOLEAN
    OBVIOUS
  <1> HIDE DEF f
  <1>3. l \in Locals
    BY <1>1, <1>2, <1>f, IdleType DEF Locals, Instance
  <1>5. thread' \in [Workers -> Locals]
    BY <1>3, <1>4, BecomeType DEF TypeOK
  <1>6. QED
    BY <1>5 DEF TypeOK, Begin, slurmVars, SlurmTypeOK

LEMMA RequestType ==
    ASSUME TypeOK, NEW t \in Threads, Request(t)
    PROVE  TypeOK'
  <1>1. CASE BeginApply(t)
    <2>1. PICK u \in Users, n \in Names :
            Become(t, [Idle EXCEPT !.op = "apply", !.step = "alloc",
                         !.user = u, !.name = n])
      BY <1>1 DEF BeginApply
    <2>2. [Idle EXCEPT !.op = "apply", !.step = "alloc",
                       !.user = u, !.name = n] \in Locals
      BY IdleType DEF Locals, Steps, AllOps
    <2>3. thread' \in [Workers -> Locals]
      BY <2>1, <2>2, BecomeType DEF TypeOK
    <2>4. QED
      BY <1>1, <2>3 DEF TypeOK, BeginApply, slurmVars, SlurmTypeOK
  <1>2. CASE \E i \in RowIds : BeginRestart(t, i) \/ BeginStop(t, i) \/ BeginDelete(t, i)
                              \/ BeginReconcile(t, i) \/ BeginSave(t, i)
    BY <1>2, BeginType DEF BeginRestart, BeginStop, BeginDelete, BeginReconcile,
                           BeginSave, Steps, AllOps
  <1>3. CASE \E p \in Ports : BeginRelease(t, p)
    <2>1. PICK p \in Ports : BeginRelease(t, p)
      BY <1>3
    <2> DEFINE l == [Idle EXCEPT !.op = "release", !.step = "unport",
                       !.user = lease[p], !.port = p, !.leased = TRUE]
    <2>2. l \in Locals
      BY IdleType DEF TypeOK, Locals, Steps, AllOps
    <2>3. Become(t, l)
      BY <2>1 DEF BeginRelease
    <2>4. thread' \in [Workers -> Locals]
      BY <2>2, <2>3, BecomeType DEF TypeOK
    <2>5. QED
      BY <2>1, <2>4 DEF TypeOK, BeginRelease, slurmVars, SlurmTypeOK
  <1>4. QED
    BY <1>1, <1>2, <1>3 DEF Request

LEMMA DelPortType ==
    ASSUME TypeOK, NEW t \in Workers, DelPort(t)
    PROVE  /\ lease' \in [Ports -> Users \cup {NoUser}]
           /\ thread' \in [Workers -> Locals]
  <1>1. thread \in [Workers -> Locals] /\ lease \in [Ports -> Users \cup {NoUser}]
    BY DEF TypeOK
  <1>2. \A l \in Locals : [l EXCEPT !.leased = FALSE] \in Locals
    BY DEF Locals
  <1>3. \A x \in Workers : thread'[x] \in Locals
    BY <1>1, <1>2, IdleType DEF DelPort
  <1>4. QED
    BY <1>1, <1>3 DEF DelPort

LEMMA SubmissionType ==
    ASSUME TypeOK, NEW t \in Workers, Submission(t)
    PROVE  TypeOK'
  <1> DEFINE me == thread[t]
  <1> me \in Locals
    BY DEF TypeOK
  <1> NoJob \in 0 .. MaxJob
    BY SlurmAssumption DEF NoJob
  <1> USE DEF TypeOK, slurmVars, SlurmTypeOK
  <1>1. CASE AllocPort(t)
    <2>1. PICK p \in Ports :
            /\ lease' = [lease EXCEPT ![p] = me.user]
            /\ Become(t, [me EXCEPT !.step = "submit", !.port = p, !.leased = TRUE])
      BY <1>1 DEF AllocPort
    <2>2. [me EXCEPT !.step = "submit", !.port = p, !.leased = TRUE] \in Locals
      BY DEF Locals, Steps
    <2>3. thread' \in [Workers -> Locals]
      BY <2>1, <2>2, BecomeType
    <2>4. lease' \in [Ports -> Users \cup {NoUser}]
      BY <2>1 DEF Locals
    <2>5. QED
      BY <1>1, <2>3, <2>4 DEF AllocPort
  <1>2. CASE NoPortLeft(t)
    BY <1>2, FinishType DEF NoPortLeft
  <1>3. CASE Unlease(t)
    BY <1>3, DelPortType DEF Unlease
  <1>4. CASE SubmitOk(t)
    <2> DEFINE s == IF me.op = "apply" THEN "insert" ELSE "update"
               l == [me EXCEPT !.new = NewJob, !.step = s]
    <2>1. me.user \in Users \cup {NoUser} /\ me.port \in Ports \cup {NoPort}
      BY DEF Locals
    <2>2. SlurmTypeOK' /\ NewJob \in 0 .. MaxJob
      BY <1>4, <2>1, SbatchType DEF SubmitOk
    <2>3. Become(t, l)
      BY <1>4 DEF SubmitOk
    <2>4. thread' \in [Workers -> Locals]
      <3>1. s \in Steps
        BY DEF Steps
      <3> HIDE DEF s
      <3>2. l \in Locals
        BY <2>2, <3>1 DEF Locals
      <3>3. QED
        BY <2>3, <3>2, BecomeType
    <2>5. QED
      BY <1>4, <2>2, <2>4 DEF SubmitOk
  <1>5. CASE SubmitFails(t)
    BY <1>5, GotoType DEF SubmitFails, Steps
  <1>6. CASE SubmitLost(t)
    <2>1. me.user \in Users \cup {NoUser} /\ me.port \in Ports \cup {NoPort}
      BY DEF Locals
    <2>2. SlurmTypeOK'
      BY <1>6, <2>1, SbatchType DEF SubmitLost
    <2>3. thread' \in [Workers -> Locals]
      BY <1>6, GotoType DEF SubmitLost, Steps
    <2>4. QED
      BY <1>6, <2>2, <2>3 DEF SubmitLost
  <1>7. CASE InsertOk(t)
    <2>1. [NoInstance EXCEPT !.state = "PENDING", !.owner = me.user, !.name = me.name,
                             !.job = me.new, !.port = me.port] \in Instance
      BY NoInstanceType DEF Instance, Locals, StateCN, ActiveStates
    <2>2. row' \in [RowIds -> Instance]
      BY <1>7, <2>1 DEF InsertOk
    <2>3. lastRow' \in 0 .. MaxRow
      BY <1>7, InstancesAssumption DEF InsertOk, NewRow, RowIds
    <2>4. thread' \in [Workers -> Locals]
      BY <1>7, FinishType DEF InsertOk
    <2>5. QED
      BY <1>7, <2>2, <2>3, <2>4 DEF InsertOk
  <1>8. CASE InsertConflicts(t)
    BY <1>8, GotoType DEF InsertConflicts, Steps
  <1>9. CASE Rollback(t)
    <2>1. SlurmTypeOK'
      BY <1>9, ScancelType DEF Rollback
    <2>2. [me EXCEPT !.step = "unlease", !.new = NoJob] \in Locals
      BY DEF Locals, Steps
    <2>3. thread' \in [Workers -> Locals]
      BY <1>9, <2>2, BecomeType DEF Rollback
    <2>4. QED
      BY <1>9, <2>1, <2>3 DEF Rollback
  <1>10. CASE RestartUpdate(t)
    <2> DEFINE r == [row[me.row] EXCEPT !.state = "PENDING", !.job = me.new,
                       !.port = me.port, !.clock = "unset", !.claimed = FALSE]
    <2>0. me.new \in 0 .. MaxJob /\ me.port \in Ports \cup {NoPort}
          /\ "PENDING" \in StateCN
      BY DEF Locals, StateCN, ActiveStates
    <2>1. me.row \in RowIds => r \in Instance
      <3>1. SUFFICES ASSUME me.row \in RowIds PROVE r \in Instance
        OBVIOUS
      <3>2. row[me.row] \in Instance
        BY <3>1
      <3>3. QED
        BY <2>0, <3>2 DEF Instance
    <2>2. Update(me.row, r)
      BY <1>10 DEF RestartUpdate
    <2>3. row' \in [RowIds -> Instance]
      BY <2>1, <2>2, UpdateType
    <2>4. thread' \in [Workers -> Locals]
      BY <1>10, FinishType DEF RestartUpdate
    <2>5. QED
      BY <1>10, <2>3, <2>4 DEF RestartUpdate
  <1>11. CASE RestartConflicts(t)
    BY <1>11, FinishType DEF RestartConflicts
  <1>12. QED
    BY <1>1, <1>2, <1>3, <1>4, <1>5, <1>6, <1>7, <1>8, <1>9, <1>10, <1>11
       DEF Submission

LEMMA HandlingType ==
    ASSUME TypeOK, NEW t \in Workers, Handling(t)
    PROVE  TypeOK'
  <1> DEFINE me == thread[t]
  <1> me \in Locals
    BY DEF TypeOK
  <1> USE DEF TypeOK, slurmVars, SlurmTypeOK
  <1>1. AfterKill(t) \in Steps /\ "CANCELLED" \in StateCN
    BY DEF AfterKill, Steps, StateCN
  <1>2. CASE Kill(t)
    <2>1. SlurmTypeOK'
      BY <1>2, ScancelType DEF Kill
    <2>2. [me EXCEPT !.step = AfterKill(t), !.seen = "CANCELLED"] \in Locals
      BY <1>1 DEF Locals
    <2>3. thread' \in [Workers -> Locals]
      BY <1>2, <2>2, BecomeType DEF Kill
    <2>4. QED
      BY <1>2, <2>1, <2>3 DEF Kill
  <1>3. CASE KillFindsEnded(t)
    <2>1. PICK s \in StateCN : Become(t, [me EXCEPT !.step = AfterKill(t), !.seen = s])
      BY <1>3, HistoryType DEF KillFindsEnded, AlreadyEndedReplies
    <2>2. [me EXCEPT !.step = AfterKill(t), !.seen = s] \in Locals
      BY <1>1 DEF Locals
    <2>3. thread' \in [Workers -> Locals]
      BY <2>1, <2>2, BecomeType
    <2>4. QED
      BY <1>3, <2>3 DEF KillFindsEnded
  <1>4. CASE KillFails(t) \/ KillLost(t)
    <2>1. [me EXCEPT !.step = "expired", !.seen = "CANCELLED"] \in Locals
      BY <1>1 DEF Locals, Steps
    <2>2. thread' \in [Workers -> Locals]
      BY <1>4, <2>1, BecomeType, FinishType DEF KillFails, KillLost, AfterCtlError
    <2>3. SlurmTypeOK'
      BY <1>4, ScancelType DEF KillFails, KillLost
    <2>4. QED
      BY <1>4, <2>2, <2>3 DEF KillFails, KillLost
  <1>5. CASE StopWrite(t)
    BY <1>5, SetStateType, FinishType DEF StopWrite, Locals
  <1>6. CASE DeleteRow(t)
    BY <1>6, NoInstanceType, FinishType DEF DeleteRow
  <1>7. CASE Query(t)
    <2>1. PICK s \in {"write_live", "write_ended"}, r \in StateCN :
            Become(t, [me EXCEPT !.step = s, !.seen = r])
      BY <1>7, MappedType, HistoryType DEF Query, LiveReply, EndedReplies
    <2>2. [me EXCEPT !.step = s, !.seen = r] \in Locals
      BY DEF Locals, Steps
    <2>3. thread' \in [Workers -> Locals]
      BY <2>1, <2>2, BecomeType
    <2>4. QED
      BY <1>7, <2>3 DEF Query
  <1>8. CASE QueryFails(t)
    BY <1>8, FinishType DEF QueryFails
  <1>9. CASE ReconcileLive(t)
    <2>1. row' \in [RowIds -> Instance]
      BY <1>9, SetStateType DEF ReconcileLive, Locals
    <2>2. thread' \in [Workers -> Locals]
      BY <1>9, GotoType, FinishType DEF ReconcileLive, Steps
    <2>3. QED
      BY <1>9, <2>1, <2>2 DEF ReconcileLive
  <1>10. CASE MarkStarted(t)
    <2>1. me.row \in RowIds => [row[me.row] EXCEPT !.clock = "started"] \in Instance
      BY DEF Instance
    <2>2. row' \in [RowIds -> Instance]
      BY <1>10, <2>1, UpdateType DEF MarkStarted
    <2>3. QED
      BY <1>10, <2>2, FinishType DEF MarkStarted
  <1>11. CASE ReconcileEnded(t)
    BY <1>11, SetStateType, FinishType DEF ReconcileEnded, Locals
  <1>12. CASE FlagSaving(t)
    BY <1>12, SetSavingType, GotoType DEF FlagSaving, Steps
  <1>13. CASE ExportEnds(t)
    BY <1>13, GotoType DEF ExportEnds, Steps
  <1>14. CASE UnflagSaving(t)
    BY <1>14, SetSavingType, GotoType, FinishType DEF UnflagSaving, Steps
  <1>15. CASE WorkerException(t)
    BY <1>15, SetSavingType, FinishType DEF WorkerException
  <1>16. CASE ExpiredWrite(t)
    BY <1>16, SetStateType, GotoType DEF ExpiredWrite, Locals, Steps
  <1>17. CASE ExpiredRelease(t)
    <2>1. thread' \in [Workers -> Locals]
      BY <1>17, BecomeType, IdleType, NextInScanType DEF ExpiredRelease
    <2>2. QED
      BY <1>17, <2>1, SetSavingType DEF ExpiredRelease
  <1>18. CASE ReleasePort(t)
    BY <1>18, DelPortType DEF ReleasePort
  <1>19. QED
    BY <1>2, <1>3, <1>4, <1>5, <1>6, <1>7, <1>8, <1>9, <1>10, <1>11, <1>12, <1>13,
       <1>14, <1>15, <1>16, <1>17, <1>18 DEF Handling

LEMMA TickingType ==
    ASSUME TypeOK, Ticking
    PROVE  TypeOK'
  <1> USE DEF TypeOK, slurmVars, SlurmTypeOK
  <1> Ticker \in Workers /\ Threads \subseteq Workers
    BY DEF Workers
  <1>1. CASE Scan
    <2>1. todo' \subseteq Listed
      BY <1>1 DEF Scan, Listed, Instance
    <2>2. thread' \in [Workers -> Locals]
      BY <1>1, BecomeType, NextInScanType DEF Scan
    <2>3. QED
      BY <1>1, <2>1, <2>2 DEF Scan
  <1>2. CASE ScanEnds
    BY <1>2, FinishType DEF ScanEnds
  <1>3. CASE FlagExpired
    BY <1>3, SetSavingType, GotoType DEF FlagExpired, Steps
  <1>4. ASSUME NEW x \in todo, Claim(x) PROVE TypeOK'
    <2>1. x.row \in RowIds /\ x.row \in 0 .. MaxRow /\ x.job \in 0 .. MaxJob
      BY InstancesAssumption DEF Listed, RowIds
    <2>2. row[x.row] \in Instance
      BY <2>1
    <2>3. [NextInScan EXCEPT !.step = "flag_expired", !.row = x.row,
                             !.old = x.job, !.user = row[x.row].owner] \in Locals
      BY <2>1, <2>2, NextInScanType DEF Locals, Instance, Steps
    <2>4. thread' \in [Workers -> Locals]
      BY <1>4, <2>3, BecomeType DEF Claim
    <2>5. [row[x.row] EXCEPT !.claimed = TRUE] \in Instance
      BY <2>2 DEF Instance
    <2>6. row' \in [RowIds -> Instance]
      BY <1>4, <2>1, <2>5 DEF Claim
    <2>7. QED
      BY <1>4, <2>4, <2>6 DEF Claim
  <1>5. ASSUME NEW t \in Threads, StartWorker(t) PROVE TypeOK'
    <2>1. [thread[Ticker] EXCEPT !.step = "export"] \in Locals
      BY DEF Locals, Steps
    <2>2. thread' \in [Workers -> Locals]
      BY <1>5, <2>1, NextInScanType DEF StartWorker
    <2>3. QED
      BY <1>5, <2>2 DEF StartWorker
  <1>6. CASE ScanException
    BY <1>6, FinishType DEF ScanException
  <1>7. QED
    BY <1>1, <1>2, <1>3, <1>4, <1>5, <1>6 DEF Ticking

(* Every variable keeps its type: ids within their bounds, states within   *)
(* the vocabulary of db.py, locals of a thread well-formed at every step.  *)
THEOREM TypeCorrect == Spec => []TypeOK
  <1>1. Init => TypeOK
    BY SlurmAssumption, InstancesAssumption, IdleType, NoInstanceType
       DEF Init, TypeOK, SlurmInit, SlurmTypeOK, Job, Phases, NoJob
  <1>2. TypeOK /\ [Next]_vars => TypeOK'
    <2> SUFFICES ASSUME TypeOK, [Next]_vars PROVE TypeOK'
      OBVIOUS
    <2>1. CASE \E t \in Threads : Request(t)
      BY <2>1, RequestType
    <2>2. CASE \E t \in Workers : Submission(t) \/ Handling(t)
      BY <2>2, SubmissionType, HandlingType
    <2>3. CASE Ticking
      BY <2>3, TickingType
    <2>4. CASE \E u \in Users, p \in Ports : RegisterPort(u, p)
      BY <2>4 DEF RegisterPort, TypeOK, slurmVars, SlurmTypeOK
    <2>5. ASSUME NEW i \in RowIds, BecomesDue(i) PROVE TypeOK'
      <3>1. [row[i] EXCEPT !.clock = "due"] \in Instance
        BY DEF TypeOK, Instance
      <3>2. QED
        BY <2>5, <3>1 DEF BecomesDue, TypeOK, slurmVars, SlurmTypeOK
    <2>6. CASE Crash
      BY <2>6, IdleType DEF Crash, TypeOK, slurmVars, SlurmTypeOK
    <2>7. CASE SlurmStep /\ UNCHANGED <<row, lastRow, lease, thread, todo>>
      BY <2>7, SlurmStepType DEF TypeOK
    <2>8. CASE UNCHANGED vars
      BY <2>8 DEF vars, TypeOK, slurmVars, SlurmTypeOK
    <2>9. QED
      BY <2>1, <2>2, <2>3, <2>4, <2>5, <2>6, <2>7, <2>8 DEF Next
  <1>3. QED
    BY <1>1, <1>2, PTL DEF Spec

-----------------------------------------------------------------------------
(* A job is linked to one resource only                                    *)

CarryingSteps == {"insert", "update", "rollback"}

(* A step that gives no row another job, ...                               *)
RowsKept == \A k \in RowIds : Present(k)' => Present(k) /\ row'[k].job = row[k].job

LEMMA SetStateKeepsJobs ==
    ASSUME NEW i, NEW s \in StateCN, row \in [RowIds -> Instance], SetState(i, s)
    PROVE  RowsKept
  <1>1. "absent" \notin StateCN
    BY DEF StateCN, ActiveStates
  <1>2. QED
    BY <1>1 DEF RowsKept, SetState, Update, Present, Instance

LEMMA SetSavingKeepsJobs ==
    ASSUME NEW i, NEW b \in BOOLEAN, row \in [RowIds -> Instance], SetSaving(i, b)
    PROVE  RowsKept
  BY DEF RowsKept, SetSaving, Update, Present, Instance

(* ... where every job a thread or the scan holds afterwards was linked to *)
(* the same row before, adds no link.                                      *)
LEMMA LinksKept ==
    ASSUME RowsKept,
           \A t \in Workers : \/ thread'[t].old = NoJob
                             \/ Linked(thread'[t].old, thread'[t].row),
           \A x \in todo' : Linked(x.job, x.row)
    PROVE  \A j \in JobIds, i \in RowIds : Linked(j, i)' => Linked(j, i)
  <1> SUFFICES ASSUME NEW j \in JobIds, NEW i \in RowIds, Linked(j, i)'
               PROVE  Linked(j, i)
    OBVIOUS
  <1>1. j # NoJob
    BY DEF JobIds, NoJob
  <1>2. CASE Present(i)' /\ row'[i].job = j
    BY <1>2 DEF RowsKept, Linked
  <1>3. CASE \E t \in Workers : thread'[t].row = i /\ thread'[t].old = j
    BY <1>1, <1>3
  <1>4. CASE \E x \in todo' : x.row = i /\ x.job = j
    BY <1>4
  <1>5. QED
    BY <1>2, <1>3, <1>4 DEF Linked

(* With no new link and no new submission under way, OneHome is kept.      *)
LEMMA HomesKept ==
    ASSUME TypeOK, OneHome, lastJob' \in Nat, lastJob' >= lastJob,
           \A j \in JobIds, i \in RowIds : Linked(j, i)' => Linked(j, i),
           \A t \in Workers : Carrying(t)' => /\ Carrying(t)
                                            /\ thread'[t].new = thread[t].new,
           \A t \in Workers : thread'[t].old # NoJob => thread'[t].row # NoRow
    PROVE  OneHome'
  <1>1. lastJob \in 0 .. MaxJob /\ MaxJob \in Nat
    BY SlurmAssumption DEF TypeOK, SlurmTypeOK
  <1> USE DEF OneHome
  <1>2. LinkedGiven'
    BY <1>1 DEF LinkedGiven, JobIds
  <1>3. LinkedOnce'
    BY DEF LinkedOnce
  <1>4. CarriedGiven'
    BY <1>1 DEF CarriedGiven
  <1>5. CarriedUnlinked'
    <2> SUFFICES ASSUME NEW t \in Workers, NEW i \in RowIds,
                        Carrying(t)', Linked(thread[t].new, i)'
                 PROVE  FALSE
      BY DEF CarriedUnlinked
    <2>1. PICK n : n = thread[t].new
      OBVIOUS
    <2>2. Carrying(t) /\ thread'[t].new = n
      BY <2>1
    <2>3. n \in JobIds /\ ~Linked(n, i)
      BY <1>1, <2>1, <2>2 DEF CarriedGiven, CarriedUnlinked, JobIds
    <2>4. Linked(n, i)'
      BY <2>2 DEF Linked
    <2>5. QED
      BY <2>3, <2>4
  <1>6. CarriedOnce'
    BY DEF CarriedOnce
  <1>7. OldHasRow'
    BY DEF OldHasRow
  <1>8. QED
    BY <1>2, <1>3, <1>4, <1>5, <1>6, <1>7

(* The common case: one thread goes on with what it had or forgets it.     *)
LEMMA QuietStep ==
    ASSUME TypeOK, OneHome, NEW t \in Workers, NEW l, Become(t, l),
           \/ l.old = NoJob
           \/ l.old = thread[t].old /\ l.row = thread[t].row,
           \/ l.step \notin CarryingSteps
           \/ Carrying(t) /\ l.new = thread[t].new,
           RowsKept, todo' \subseteq todo, lastJob' \in Nat, lastJob' >= lastJob
    PROVE  OneHome'
  <1>1. thread' = [thread EXCEPT ![t] = l] /\ thread \in [Workers -> Locals]
    BY DEF Become, TypeOK
  <1>2. \A s \in Workers : \/ thread'[s].old = NoJob
                           \/ Linked(thread'[s].old, thread'[s].row)
    BY <1>1 DEF Linked
  <1>3. \A x \in todo' : Linked(x.job, x.row)
    BY DEF Linked
  <1>4. \A j \in JobIds, i \in RowIds : Linked(j, i)' => Linked(j, i)
    BY <1>2, <1>3, LinksKept
  <1>5. \A s \in Workers : Carrying(s)' => Carrying(s) /\ thread'[s].new = thread[s].new
    BY <1>1 DEF Carrying, CarryingSteps
  <1>6. \A s \in Workers : thread'[s].old # NoJob => thread'[s].row # NoRow
    BY <1>1 DEF OneHome, OldHasRow
  <1>7. QED
    BY <1>4, <1>5, <1>6, HomesKept

LEMMA SameRows ==
    ASSUME row' = row PROVE RowsKept
  BY DEF RowsKept, Present

LEMMA QuietGoto ==
    ASSUME TypeOK, OneHome, NEW t \in Workers, NEW s, Goto(t, s), s \notin CarryingSteps,
           RowsKept, todo' \subseteq todo, lastJob' \in Nat, lastJob' >= lastJob
    PROVE  OneHome'
  <1>1. thread[t] \in Locals
    BY DEF TypeOK
  <1>2. QED
    BY <1>1, QuietStep DEF Goto, Locals

LEMMA QuietFinish ==
    ASSUME TypeOK, OneHome, NEW t \in Workers, Finish(t),
           RowsKept, todo' \subseteq todo, lastJob' \in Nat, lastJob' >= lastJob
    PROVE  OneHome'
  <1>1. Idle.old = NoJob /\ Idle.step \notin CarryingSteps
    BY DEF Idle, CarryingSteps
  <1>2. QED
    BY <1>1, QuietStep DEF Finish

(* A submission that was under way is recorded in row h: the only new link *)
(* is between h and a job no other row was linked to.                      *)
LEMMA RecordStep ==
    ASSUME TypeOK, OneHome, NEW t \in Workers, NEW h \in RowIds, Carrying(t),
           Finish(t), lastJob' = lastJob,
           \A j \in JobIds, i \in RowIds :
               Linked(j, i)' => Linked(j, i) \/ (i = h /\ j = thread[t].new)
    PROVE  OneHome'
  <1>1. lastJob \in 0 .. MaxJob /\ MaxJob \in Nat
    BY SlurmAssumption DEF TypeOK, SlurmTypeOK
  <1>2. thread' = [thread EXCEPT ![t] = Idle] /\ thread \in [Workers -> Locals]
    BY DEF Finish, Become, TypeOK
  <1>3. \A s \in Workers : Carrying(s)' => s # t /\ Carrying(s) /\ thread'[s] = thread[s]
    BY <1>2 DEF Carrying, Idle
  <1> DEFINE n == thread[t].new
  <1>4. n \in 1 .. lastJob /\ \A i \in RowIds : ~Linked(n, i)
    BY DEF OneHome, CarriedGiven, CarriedUnlinked
  <1>5. LinkedGiven'
    BY <1>1, <1>4 DEF OneHome, LinkedGiven
  <1>6. LinkedOnce'
    BY <1>4 DEF OneHome, LinkedOnce
  <1>7. CarriedGiven'
    BY <1>3 DEF OneHome, CarriedGiven
  <1>8. CarriedUnlinked'
    <2> SUFFICES ASSUME NEW s \in Workers, NEW i \in RowIds,
                        Carrying(s)', Linked(thread[s].new, i)'
                 PROVE  FALSE
      BY DEF CarriedUnlinked
    <2>1. PICK m : m = thread[s].new
      OBVIOUS
    <2>2. s # t /\ Carrying(s) /\ thread'[s].new = m
      BY <1>3, <2>1
    <2>3. m \in JobIds /\ ~Linked(m, i) /\ m # n
      BY <1>1, <2>1, <2>2
         DEF OneHome, CarriedGiven, CarriedUnlinked, CarriedOnce, JobIds
    <2>4. Linked(m, i)'
      BY <2>2 DEF Linked
    <2>5. QED
      BY <2>3, <2>4
  <1>9. CarriedOnce'
    BY <1>3 DEF OneHome, CarriedOnce
  <1>10. OldHasRow'
    BY <1>2 DEF OneHome, OldHasRow, Idle
  <1>11. QED
    BY <1>5, <1>6, <1>7, <1>8, <1>9, <1>10 DEF OneHome

LEMMA RollbackHome ==
    ASSUME TypeOK, OneHome, NEW t \in Workers, Rollback(t)
    PROVE  OneHome'
  <1>1. lastJob' = lastJob /\ lastJob \in Nat
    BY DEF Rollback, Scancel, slurmVars, TypeOK, SlurmTypeOK
  <1> DEFINE l == [thread[t] EXCEPT !.step = "unlease", !.new = NoJob]
  <1>2. thread[t] \in Locals
    BY DEF TypeOK
  <1>3. l.old = thread[t].old /\ l.row = thread[t].row /\ l.step \notin CarryingSteps
    BY <1>2 DEF Locals, CarryingSteps
  <1>4. Become(t, l) /\ RowsKept /\ todo' = todo
    BY SameRows DEF Rollback
  <1> HIDE DEF l
  <1>5. QED
    BY <1>1, <1>3, <1>4, QuietStep

LEMMA SubmitOkHome ==
    ASSUME TypeOK, OneHome, NEW t \in Workers, SubmitOk(t)
    PROVE  OneHome'
  <1>1. lastJob \in Nat /\ lastJob' = lastJob + 1
    BY DEF SubmitOk, Sbatch, NewJob, TypeOK, SlurmTypeOK
  <1>2. thread' = [thread EXCEPT ![t] = [thread[t] EXCEPT !.new = NewJob,
                     !.step = IF thread[t].op = "apply" THEN "insert" ELSE "update"]]
    BY DEF SubmitOk, Become
  <1>3. thread \in [Workers -> Locals]
    BY DEF TypeOK
  <1>4. \A s \in Workers : /\ thread'[s].old = thread[s].old
                           /\ thread'[s].row = thread[s].row
                           /\ s # t => thread'[s] = thread[s]
    BY <1>2, <1>3 DEF Locals
  <1>5. thread'[t].new = lastJob + 1
    BY <1>2, <1>3 DEF Locals, NewJob
  <1>6. \A j \in JobIds, i \in RowIds : Linked(j, i)' => Linked(j, i)
    <2>1. \A s \in Workers : \/ thread'[s].old = NoJob
                             \/ Linked(thread'[s].old, thread'[s].row)
      BY <1>4 DEF Linked
    <2>2. \A x \in todo' : Linked(x.job, x.row)
      BY DEF SubmitOk, Linked
    <2>3. QED
      BY <2>1, <2>2, LinksKept, SameRows DEF SubmitOk
  <1>7. LinkedGiven'
    BY <1>1, <1>6 DEF OneHome, LinkedGiven, JobIds
  <1>8. LinkedOnce'
    BY <1>6 DEF OneHome, LinkedOnce
  <1>9. CarriedGiven'
    BY <1>1, <1>4, <1>5 DEF OneHome, CarriedGiven, Carrying
  <1>10. CarriedUnlinked'
    <2> SUFFICES ASSUME NEW s \in Workers, NEW i \in RowIds,
                        Carrying(s)', Linked(thread[s].new, i)'
                 PROVE  FALSE
      BY DEF CarriedUnlinked
    <2>1. PICK m : m = thread'[s].new
      OBVIOUS
    <2>2. Linked(m, i)'
      BY <2>1 DEF Linked
    <2>3. m \in JobIds
      BY <1>1, <2>1, <1>9, SlurmAssumption
         DEF CarriedGiven, JobIds, SubmitOk, Sbatch, NewJob
    <2>4. Linked(m, i)
      BY <1>6, <2>2, <2>3
    <2>5. CASE s = t
      BY <1>1, <1>5, <2>1, <2>3, <2>4, <2>5 DEF OneHome, LinkedGiven
    <2>6. CASE s # t
      BY <1>4, <2>1, <2>4, <2>6 DEF OneHome, CarriedUnlinked, Carrying
    <2>7. QED
      BY <2>5, <2>6
  <1>11. CarriedOnce'
    <2>1. \A s \in Workers : s # t /\ Carrying(s)' => thread'[s].new # lastJob + 1
      BY <1>1, <1>4 DEF OneHome, CarriedGiven, Carrying
    <2>2. QED
      BY <1>4, <1>5, <2>1 DEF OneHome, CarriedOnce, Carrying
  <1>12. OldHasRow'
    BY <1>4 DEF OneHome, OldHasRow
  <1>13. QED
    BY <1>7, <1>8, <1>9, <1>10, <1>11, <1>12 DEF OneHome

LEMMA InsertOkHome ==
    ASSUME TypeOK, OneHome, NEW t \in Workers, InsertOk(t)
    PROVE  OneHome'
  <1>1. thread' = [thread EXCEPT ![t] = Idle] /\ thread \in [Workers -> Locals]
    BY DEF InsertOk, Finish, Become, TypeOK
  <1>2. row \in [RowIds -> Instance] /\ NewRow \in RowIds
    BY DEF InsertOk, TypeOK
  <1>3. row'[NewRow].job = thread[t].new
        /\ \A k \in RowIds : k # NewRow => row'[k] = row[k]
    BY <1>2 DEF InsertOk, NoInstance
  <1>4. \A j \in JobIds, i \in RowIds :
            Linked(j, i)' => Linked(j, i) \/ (i = NewRow /\ j = thread[t].new)
    <2> SUFFICES ASSUME NEW j \in JobIds, NEW i \in RowIds, Linked(j, i)'
                 PROVE  Linked(j, i) \/ (i = NewRow /\ j = thread[t].new)
      OBVIOUS
    <2>1. CASE Present(i)' /\ row'[i].job = j
      BY <1>3, <2>1 DEF Linked, Present
    <2>2. CASE \E s \in Workers : thread'[s].row = i /\ thread'[s].old = j
      BY <1>1, <2>2 DEF Linked, Idle, JobIds, NoJob
    <2>3. CASE \E x \in todo' : x.row = i /\ x.job = j
      BY <2>3 DEF Linked, InsertOk
    <2>4. QED
      BY <2>1, <2>2, <2>3 DEF Linked
  <1>5. Carrying(t) /\ Finish(t) /\ lastJob' = lastJob
    BY DEF InsertOk, Carrying, At, slurmVars
  <1>6. QED
    BY <1>2, <1>4, <1>5, RecordStep

LEMMA RestartUpdateHome ==
    ASSUME TypeOK, OneHome, NEW t \in Workers, RestartUpdate(t)
    PROVE  OneHome'
  <1> DEFINE h == thread[t].row
  <1>1. thread' = [thread EXCEPT ![t] = Idle] /\ thread \in [Workers -> Locals]
    BY DEF RestartUpdate, Finish, Become, TypeOK
  <1>2. row \in [RowIds -> Instance]
    BY DEF TypeOK
  <1>3. Carrying(t) /\ Finish(t) /\ lastJob' = lastJob /\ lastJob \in Nat
    BY DEF RestartUpdate, Carrying, At, slurmVars, TypeOK, SlurmTypeOK
  <1>4. CASE h \in RowIds /\ Present(h)
    <2>1. row'[h].job = thread[t].new /\ \A k \in RowIds : k # h => row'[k] = row[k]
      BY <1>2, <1>4 DEF RestartUpdate, Update, Instance
    <2>2. \A j \in JobIds, i \in RowIds :
              Linked(j, i)' => Linked(j, i) \/ (i = h /\ j = thread[t].new)
      <3> SUFFICES ASSUME NEW j \in JobIds, NEW i \in RowIds, Linked(j, i)'
                   PROVE  Linked(j, i) \/ (i = h /\ j = thread[t].new)
        OBVIOUS
      <3>1. CASE Present(i)' /\ row'[i].job = j
        BY <2>1, <3>1 DEF Linked, Present
      <3>2. CASE \E s \in Workers : thread'[s].row = i /\ thread'[s].old = j
        BY <1>1, <3>2 DEF Linked, Idle, JobIds, NoJob
      <3>3. CASE \E x \in todo' : x.row = i /\ x.job = j
        BY <3>3 DEF Linked, RestartUpdate
      <3>4. QED
        BY <3>1, <3>2, <3>3 DEF Linked
    <2>3. QED
      BY <1>3, <1>4, <2>2, RecordStep
  <1>5. CASE ~(h \in RowIds /\ Present(h))
    <2>1. row' = row
      BY <1>2, <1>5 DEF RestartUpdate, Update
    <2>2. todo' = todo
      BY DEF RestartUpdate
    <2>3. QED
      BY <1>3, <2>1, <2>2, SameRows, QuietFinish
  <1>6. QED
    BY <1>4, <1>5

(* The deletion of a lease touches no link.                                *)
LEMMA DelPortHome ==
    ASSUME TypeOK, OneHome, NEW t \in Workers, DelPort(t),
           row' = row, todo' = todo, lastJob' = lastJob
    PROVE  OneHome'
  <1>1. thread \in [Workers -> Locals] /\ lastJob \in Nat
    BY DEF TypeOK, SlurmTypeOK
  <1>2. \A s \in Workers : \/ thread'[s] = Idle
                           \/ thread'[s] = thread[s]
                           \/ thread'[s] = [thread[s] EXCEPT !.leased = FALSE]
    BY <1>1 DEF DelPort
  <1>3. \A s \in Workers : \/ thread'[s] = Idle
                           \/ /\ thread'[s].old = thread[s].old
                              /\ thread'[s].row = thread[s].row
                              /\ thread'[s].new = thread[s].new
                              /\ thread'[s].step = thread[s].step
    <2> SUFFICES ASSUME NEW s \in Workers,
                        thread'[s] = [thread[s] EXCEPT !.leased = FALSE]
                 PROVE  /\ thread'[s].old = thread[s].old
                        /\ thread'[s].row = thread[s].row
                        /\ thread'[s].new = thread[s].new
                        /\ thread'[s].step = thread[s].step
      BY <1>2
    <2>1. PICK m \in Locals : m = thread[s]
      BY <1>1
    <2>2. thread'[s] = [m EXCEPT !.leased = FALSE]
      BY <2>1
    <2>3. /\ thread'[s].old = m.old /\ thread'[s].row = m.row
          /\ thread'[s].new = m.new /\ thread'[s].step = m.step
      BY <2>2 DEF Locals
    <2>4. QED
      BY <2>1, <2>3
  <1>4. \A s \in Workers : \/ thread'[s].old = NoJob
                           \/ Linked(thread'[s].old, thread'[s].row)
    BY <1>3 DEF Linked, Idle
  <1>5. \A x \in todo' : Linked(x.job, x.row)
    BY DEF Linked
  <1>6. \A j \in JobIds, i \in RowIds : Linked(j, i)' => Linked(j, i)
    BY <1>4, <1>5, SameRows, LinksKept
  <1>7. \A s \in Workers : Carrying(s)' => Carrying(s) /\ thread'[s].new = thread[s].new
    BY <1>3 DEF Carrying, Idle
  <1>8. \A s \in Workers : thread'[s].old # NoJob => thread'[s].row # NoRow
    BY <1>3 DEF OneHome, OldHasRow, Idle
  <1>9. QED
    BY <1>1, <1>6, <1>7, <1>8, HomesKept

LEMMA SubmissionHome ==
    ASSUME TypeOK, OneHome, NEW t \in Workers, Submission(t)
    PROVE  OneHome'
  <1> lastJob \in Nat
    BY DEF TypeOK, SlurmTypeOK
  <1>1. CASE AllocPort(t)
    <2>1. PICK p \in Ports :
              Become(t, [thread[t] EXCEPT !.step = "submit", !.port = p, !.leased = TRUE])
      BY <1>1 DEF AllocPort
    <2> DEFINE l == [thread[t] EXCEPT !.step = "submit", !.port = p, !.leased = TRUE]
    <2>2. thread[t] \in Locals
      BY DEF TypeOK
    <2>3. l.old = thread[t].old /\ l.row = thread[t].row /\ l.step \notin CarryingSteps
      BY <2>2 DEF Locals, CarryingSteps
    <2>4. Become(t, l) /\ RowsKept /\ todo' = todo /\ lastJob' = lastJob
      BY <1>1, <2>1, SameRows DEF AllocPort, slurmVars
    <2> HIDE DEF l
    <2>5. QED
      BY <2>3, <2>4, QuietStep
  <1>2. CASE NoPortLeft(t)
    BY <1>2, SameRows, QuietFinish DEF NoPortLeft, slurmVars
  <1>3. CASE Unlease(t)
    BY <1>3, DelPortHome DEF Unlease, slurmVars
  <1>4. CASE SubmitOk(t)
    BY <1>4, SubmitOkHome
  <1>5. CASE SubmitFails(t)
    BY <1>5, SameRows, QuietGoto DEF SubmitFails, slurmVars, CarryingSteps
  <1>6. CASE SubmitLost(t)
    BY <1>6, SameRows, QuietGoto DEF SubmitLost, Sbatch, NewJob, CarryingSteps
  <1>7. CASE InsertOk(t)
    BY <1>7, InsertOkHome
  <1>8. CASE InsertConflicts(t)
    <2> DEFINE l == [thread[t] EXCEPT !.step = "rollback"]
    <2>1. thread[t] \in Locals
      BY DEF TypeOK
    <2>2. /\ l.old = thread[t].old /\ l.row = thread[t].row
          /\ Carrying(t) /\ l.new = thread[t].new
      BY <1>8, <2>1 DEF Locals, InsertConflicts, Carrying, At
    <2>3. Become(t, l) /\ RowsKept /\ todo' = todo /\ lastJob' = lastJob
      BY <1>8, SameRows DEF InsertConflicts, Goto, slurmVars
    <2> HIDE DEF l
    <2>4. QED
      BY <2>2, <2>3, QuietStep
  <1>9. CASE Rollback(t)
    BY <1>9, RollbackHome
  <1>10. CASE RestartUpdate(t)
    BY <1>10, RestartUpdateHome
  <1>11. CASE RestartConflicts(t)
    BY <1>11, SameRows, QuietFinish DEF RestartConflicts, slurmVars
  <1>12. QED
    BY <1>1, <1>2, <1>3, <1>4, <1>5, <1>6, <1>7, <1>8, <1>9, <1>10, <1>11 DEF Submission

(* A step after which a thread has the same links, whatever else changes   *)
(* in its locals.                                                          *)
LEMMA QuietSeen ==
    ASSUME TypeOK, OneHome, NEW t \in Workers, NEW s, NEW v,
           Become(t, [thread[t] EXCEPT !.step = s, !.seen = v]), s \notin CarryingSteps,
           RowsKept, todo' = todo, lastJob' = lastJob
    PROVE  OneHome'
  <1> DEFINE l == [thread[t] EXCEPT !.step = s, !.seen = v]
  <1>1. thread[t] \in Locals /\ lastJob \in Nat
    BY DEF TypeOK, SlurmTypeOK
  <1>2. l.old = thread[t].old /\ l.row = thread[t].row /\ l.step = s
    BY <1>1 DEF Locals
  <1> HIDE DEF l
  <1>3. Become(t, l)
    BY DEF l
  <1>4. QED
    BY <1>1, <1>2, <1>3, QuietStep

LEMMA HandlingHome ==
    ASSUME TypeOK, OneHome, NEW t \in Workers, Handling(t)
    PROVE  OneHome'
  <1>1. /\ lastJob \in Nat
        /\ row \in [RowIds -> Instance]
        /\ thread[t].seen \in StateCN
        /\ AfterKill(t) \notin CarryingSteps
        /\ {"expired", "write_live", "write_ended", "export"} \cap CarryingSteps = {}
    BY DEF TypeOK, SlurmTypeOK, Locals, AfterKill, CarryingSteps
  <1> USE DEF slurmVars
  <1>2. CASE Kill(t)
    BY <1>1, <1>2, SameRows, QuietSeen DEF Kill, Scancel
  <1>3. CASE KillFindsEnded(t)
    <2>1. RowsKept /\ todo' = todo /\ lastJob' = lastJob
      BY <1>3, SameRows DEF KillFindsEnded
    <2>2. PICK v : Become(t, [thread[t] EXCEPT !.step = AfterKill(t), !.seen = v])
      BY <1>3 DEF KillFindsEnded
    <2>3. QED
      BY <1>1, <2>1, <2>2, QuietSeen
  <1>4. CASE KillFails(t) \/ KillLost(t)
    <2>1. RowsKept /\ todo' = todo /\ lastJob' = lastJob
      BY <1>4, SameRows DEF KillFails, KillLost, Scancel
    <2>2. CASE Finish(t)
      BY <1>1, <2>1, <2>2, QuietFinish
    <2>3. CASE Become(t, [thread[t] EXCEPT !.step = "expired", !.seen = "CANCELLED"])
      BY <1>1, <2>1, <2>3, QuietSeen
    <2>4. QED
      BY <1>4, <2>2, <2>3 DEF KillFails, KillLost, AfterCtlError
  <1>5. CASE StopWrite(t)
    BY <1>1, <1>5, SetStateKeepsJobs, QuietFinish DEF StopWrite
  <1>6. CASE DeleteRow(t)
    <2>1. RowsKept
      BY <1>1, <1>6 DEF DeleteRow, RowsKept, Present, NoInstance
    <2>2. QED
      BY <1>1, <1>6, <2>1, QuietFinish DEF DeleteRow
  <1>7. CASE Query(t)
    <2>1. RowsKept /\ todo' = todo /\ lastJob' = lastJob
      BY <1>7, SameRows DEF Query
    <2>2. PICK z \in {"write_live", "write_ended"} :
              \E v : Become(t, [thread[t] EXCEPT !.step = z, !.seen = v])
      BY <1>7 DEF Query
    <2>3. PICK v : Become(t, [thread[t] EXCEPT !.step = z, !.seen = v])
      BY <2>2
    <2>4. QED
      BY <1>1, <2>1, <2>2, <2>3, QuietSeen
  <1>8. CASE QueryFails(t)
    BY <1>1, <1>8, SameRows, QuietFinish DEF QueryFails
  <1>9. CASE ReconcileLive(t)
    <2>1. RowsKept /\ todo' = todo /\ lastJob' = lastJob
      BY <1>1, <1>9, SetStateKeepsJobs, SameRows DEF ReconcileLive
    <2>2. Goto(t, "mark") \/ Finish(t)
      BY <1>9 DEF ReconcileLive
    <2>3. QED
      BY <1>1, <2>1, <2>2, QuietGoto, QuietFinish DEF CarryingSteps
  <1>10. CASE MarkStarted(t)
    <2>1. RowsKept
      BY <1>1, <1>10 DEF MarkStarted, RowsKept, Update, Present, Instance
    <2>2. QED
      BY <1>1, <1>10, <2>1, QuietFinish DEF MarkStarted
  <1>11. CASE ReconcileEnded(t)
    BY <1>1, <1>11, SetStateKeepsJobs, QuietFinish DEF ReconcileEnded
  <1>12. CASE FlagSaving(t)
    <2>1. RowsKept /\ todo' = todo /\ lastJob' = lastJob
      BY <1>1, <1>12, SetSavingKeepsJobs DEF FlagSaving
    <2>2. QED
      BY <1>1, <1>12, <2>1, QuietGoto DEF FlagSaving
  <1>13. CASE ExportEnds(t)
    BY <1>1, <1>13, SameRows, QuietGoto DEF ExportEnds, CarryingSteps
  <1>14. CASE UnflagSaving(t)
    <2>1. RowsKept /\ todo' = todo /\ lastJob' = lastJob
      BY <1>1, <1>14, SetSavingKeepsJobs DEF UnflagSaving
    <2>2. QED
      BY <1>1, <1>14, <2>1, QuietGoto, QuietFinish DEF UnflagSaving, CarryingSteps
  <1>15. CASE WorkerException(t)
    <2>1. RowsKept /\ todo' = todo /\ lastJob' = lastJob
      BY <1>1, <1>15, SetSavingKeepsJobs DEF WorkerException
    <2>2. QED
      BY <1>1, <1>15, <2>1, QuietFinish DEF WorkerException
  <1>16. CASE ExpiredWrite(t)
    BY <1>1, <1>16, SetStateKeepsJobs, QuietGoto DEF ExpiredWrite, CarryingSteps
  <1>17. CASE ExpiredRelease(t)
    <2> DEFINE l == IF t = Ticker THEN NextInScan ELSE Idle
    <2>1. l.old = NoJob /\ l.step \notin CarryingSteps
      BY DEF NextInScan, Idle, CarryingSteps
    <2>2. Become(t, l) /\ RowsKept /\ todo' = todo /\ lastJob' = lastJob
      BY <1>1, <1>17, SetSavingKeepsJobs DEF ExpiredRelease
    <2> HIDE DEF l
    <2>3. QED
      BY <1>1, <2>1, <2>2, QuietStep
  <1>18. CASE ReleasePort(t)
    BY <1>18, DelPortHome DEF ReleasePort, slurmVars
  <1>19. QED
    BY <1>2, <1>3, <1>4, <1>5, <1>6, <1>7, <1>8, <1>9, <1>10, <1>11, <1>12, <1>13,
       <1>14, <1>15, <1>16, <1>17, <1>18 DEF Handling

(* A handler begins with the job of a row that is there.                   *)
LEMMA BeginHome ==
    ASSUME TypeOK, OneHome, NEW t \in Workers, NEW o, NEW i \in RowIds, NEW s,
           s \notin CarryingSteps, Present(i), Begin(t, o, i, s)
    PROVE  OneHome'
  <1> DEFINE b == (o = "reconcile" /\ row[i].clock = "unset")
             l == [Idle EXCEPT !.op = o, !.step = s, !.row = i, !.user = row[i].owner,
                               !.old = row[i].job, !.fresh = b]
  <1>1. thread' = [thread EXCEPT ![t] = l] /\ thread \in [Workers -> Locals]
    BY DEF Begin, Become, TypeOK
  <1> HIDE DEF b
  <1>2. l.old = row[i].job /\ l.row = i /\ l.step = s
    BY DEF Idle
  <1> HIDE DEF l
  <1>3. lastJob \in Nat /\ lastJob' = lastJob /\ row' = row /\ todo' = todo
    BY DEF Begin, slurmVars, TypeOK, SlurmTypeOK
  <1>4. \A x \in Workers : \/ thread'[x].old = NoJob
                           \/ Linked(thread'[x].old, thread'[x].row)
    BY <1>1, <1>2 DEF Linked
  <1>5. \A x \in todo' : Linked(x.job, x.row)
    BY <1>3 DEF Linked
  <1>6. \A j \in JobIds, k \in RowIds : Linked(j, k)' => Linked(j, k)
    BY <1>3, <1>4, <1>5, SameRows, LinksKept
  <1>7. \A x \in Workers : Carrying(x)' => Carrying(x) /\ thread'[x].new = thread[x].new
    BY <1>1, <1>2 DEF Carrying, CarryingSteps
  <1>8. \A x \in Workers : thread'[x].old # NoJob => thread'[x].row # NoRow
    BY <1>1, <1>2 DEF OneHome, OldHasRow, RowIds, NoRow
  <1>9. QED
    BY <1>3, <1>6, <1>7, <1>8, HomesKept

LEMMA RequestHome ==
    ASSUME TypeOK, OneHome, NEW t \in Threads, Request(t)
    PROVE  OneHome'
  <1>1. t \in Workers /\ lastJob \in Nat
    BY DEF Workers, TypeOK, SlurmTypeOK
  <1>2. {"alloc", "kill", "rmlog", "query", "flag", "unport"} \cap CarryingSteps = {}
    BY DEF CarryingSteps
  <1>3. CASE BeginApply(t)
    <2>1. PICK u \in Users, n \in Names :
              Become(t, [Idle EXCEPT !.op = "apply", !.step = "alloc",
                                     !.user = u, !.name = n])
      BY <1>3 DEF BeginApply
    <2> DEFINE l == [Idle EXCEPT !.op = "apply", !.step = "alloc",
                                 !.user = u, !.name = n]
    <2>2. l.old = NoJob /\ l.step \notin CarryingSteps
      BY DEF Idle, CarryingSteps
    <2>3. Become(t, l) /\ RowsKept /\ todo' = todo /\ lastJob' = lastJob
      BY <1>3, <2>1, SameRows DEF BeginApply, slurmVars
    <2> HIDE DEF l
    <2>4. QED
      BY <1>1, <2>2, <2>3, QuietStep
  <1>4. ASSUME NEW i \in RowIds,
               BeginRestart(t, i) \/ BeginStop(t, i) \/ BeginDelete(t, i)
               \/ BeginReconcile(t, i) \/ BeginSave(t, i)
        PROVE  OneHome'
    <2>1. Present(i)
      BY <1>4 DEF BeginRestart, BeginStop, BeginDelete, BeginReconcile, BeginSave,
                  Terminal, Active, Present, ActiveStates
    <2>2. PICK o \in AllOps, s \in {"alloc", "kill", "rmlog", "query", "flag"} :
              Begin(t, o, i, s)
      BY <1>4 DEF BeginRestart, BeginStop, BeginDelete, BeginReconcile, BeginSave, AllOps
    <2>3. QED
      BY <1>1, <1>2, <2>1, <2>2, BeginHome
  <1>5. ASSUME NEW p \in Ports, BeginRelease(t, p) PROVE OneHome'
    <2> DEFINE l == [Idle EXCEPT !.op = "release", !.step = "unport",
                                 !.user = lease[p], !.port = p, !.leased = TRUE]
    <2>1. l.old = NoJob /\ l.step = "unport"
      BY DEF Idle
    <2>2. Become(t, l) /\ RowsKept /\ todo' = todo /\ lastJob' = lastJob
      BY <1>5, SameRows DEF BeginRelease, slurmVars
    <2> HIDE DEF l
    <2>3. QED
      BY <1>1, <1>2, <2>1, <2>2, QuietStep
  <1>6. QED
    BY <1>3, <1>4, <1>5 DEF Request

LEMMA TickingHome ==
    ASSUME TypeOK, OneHome, Ticking
    PROVE  OneHome'
  <1>1. /\ Ticker \in Workers /\ Threads \subseteq Workers /\ Ticker \notin Threads
        /\ lastJob \in Nat /\ lastJob' = lastJob
        /\ thread \in [Workers -> Locals] /\ row \in [RowIds -> Instance]
    <2>1. lastJob' = lastJob
      BY DEF Ticking, Scan, ScanEnds, FlagExpired, ScanException, Claim, StartWorker,
              slurmVars
    <2>2. QED
      BY <2>1, InstancesAssumption DEF Workers, TypeOK, SlurmTypeOK
  <1>2. /\ NextInScan.old = NoJob /\ NextInScan.step \notin CarryingSteps
        /\ {"kill", "start", "export", "flag_expired"} \cap CarryingSteps = {}
    BY DEF NextInScan, Idle, CarryingSteps
  <1>3. CASE Scan
    <2>1. thread' = [thread EXCEPT ![Ticker] = NextInScan] /\ RowsKept
      BY <1>3, SameRows DEF Scan, Become
    <2>2. \A x \in todo' : Linked(x.job, x.row)
      BY <1>3 DEF Scan, Expired, Linked, Present
    <2>3. \A x \in Workers : \/ thread'[x].old = NoJob
                             \/ Linked(thread'[x].old, thread'[x].row)
      BY <1>1, <1>2, <2>1 DEF Linked
    <2>4. \A j \in JobIds, k \in RowIds : Linked(j, k)' => Linked(j, k)
      BY <2>1, <2>2, <2>3, LinksKept
    <2>5. \A x \in Workers : Carrying(x)' => Carrying(x) /\ thread'[x].new = thread[x].new
      BY <1>1, <1>2, <2>1 DEF Carrying, CarryingSteps
    <2>6. \A x \in Workers : thread'[x].old # NoJob => thread'[x].row # NoRow
      BY <1>1, <1>2, <2>1 DEF OneHome, OldHasRow
    <2>7. QED
      BY <1>1, <2>4, <2>5, <2>6, HomesKept
  <1>4. CASE ScanEnds
    BY <1>1, <1>4, SameRows, QuietFinish DEF ScanEnds
  <1>5. CASE FlagExpired
    <2>1. RowsKept
      BY <1>1, <1>5, SetSavingKeepsJobs DEF FlagExpired
    <2>2. QED
      BY <1>1, <1>2, <1>5, <2>1, QuietGoto DEF FlagExpired
  <1>6. ASSUME NEW x \in todo, Claim(x) PROVE OneHome'
    <2> DEFINE l == [NextInScan EXCEPT !.step = "flag_expired", !.row = x.row,
                                       !.old = x.job, !.user = row[x.row].owner]
    <2>1. l.old = x.job /\ l.row = x.row /\ l.step = "flag_expired"
      BY DEF NextInScan, Idle
    <2>2. Linked(x.job, x.row) /\ x.row # NoRow
      BY DEF Linked, TypeOK, Listed, RowIds, NoRow
    <2>3. \/ thread' = thread
          \/ thread' = [thread EXCEPT ![Ticker] = l]
      BY <1>6 DEF Claim, Become
    <2>4. RowsKept /\ todo' \subseteq todo
      BY <1>1, <1>6, SameRows DEF Claim, RowsKept, Present, Instance
    <2> HIDE DEF l
    <2>5. \A w \in Workers : \/ thread'[w] = thread[w]
                             \/ thread'[w] = l
      BY <1>1, <2>3
    <2>6. \A w \in Workers : \/ thread'[w].old = NoJob
                             \/ Linked(thread'[w].old, thread'[w].row)
      BY <2>1, <2>2, <2>5 DEF Linked
    <2>7. \A y \in todo' : Linked(y.job, y.row)
      BY <2>4 DEF Linked
    <2>8. \A j \in JobIds, k \in RowIds : Linked(j, k)' => Linked(j, k)
      BY <2>4, <2>6, <2>7, LinksKept
    <2>9. \A w \in Workers : Carrying(w)' => Carrying(w) /\ thread'[w].new = thread[w].new
      BY <1>2, <2>1, <2>5 DEF Carrying, CarryingSteps
    <2>10. \A w \in Workers : thread'[w].old # NoJob => thread'[w].row # NoRow
      BY <2>1, <2>2, <2>5 DEF OneHome, OldHasRow
    <2>11. QED
      BY <1>1, <2>8, <2>9, <2>10, HomesKept
  <1>7. ASSUME NEW t \in Threads, StartWorker(t) PROVE OneHome'
    <2>1. /\ thread'[t].old = thread[Ticker].old /\ thread'[t].row = thread[Ticker].row
          /\ thread'[t].step = "export" /\ thread'[Ticker] = NextInScan
          /\ \A w \in Workers \ {t, Ticker} : thread'[w] = thread[w]
      BY <1>1, <1>7 DEF StartWorker, Locals
    <2>2. RowsKept /\ todo' = todo
      BY <1>1, <1>7, SameRows DEF StartWorker
    <2>3. \A w \in Workers : \/ thread'[w].old = NoJob
                             \/ Linked(thread'[w].old, thread'[w].row)
      BY <1>1, <1>2, <2>1 DEF Linked
    <2>4. \A y \in todo' : Linked(y.job, y.row)
      BY <2>2 DEF Linked
    <2>5. \A j \in JobIds, k \in RowIds : Linked(j, k)' => Linked(j, k)
      BY <2>2, <2>3, <2>4, LinksKept
    <2>6. \A w \in Workers : Carrying(w)' => Carrying(w) /\ thread'[w].new = thread[w].new
      BY <1>2, <2>1 DEF Carrying, CarryingSteps
    <2>7. \A w \in Workers : thread'[w].old # NoJob => thread'[w].row # NoRow
      BY <1>1, <1>2, <2>1 DEF OneHome, OldHasRow
    <2>8. QED
      BY <1>1, <2>2, <2>5, <2>6, <2>7, HomesKept
  <1>8. CASE ScanException
    BY <1>1, <1>8, SameRows, QuietFinish DEF ScanException
  <1>9. QED
    BY <1>3, <1>4, <1>5, <1>6, <1>7, <1>8 DEF Ticking

(* Steps that touch neither the threads nor the scan.                      *)
LEMMA ElsewhereHome ==
    ASSUME TypeOK, OneHome, RowsKept, thread' = thread, todo' = todo, lastJob' = lastJob
    PROVE  OneHome'
  <1>1. lastJob \in Nat
    BY DEF TypeOK, SlurmTypeOK
  <1>2. \A j \in JobIds, i \in RowIds : Linked(j, i)' => Linked(j, i)
    BY LinksKept DEF Linked
  <1>3. \A t \in Workers : Carrying(t)' => Carrying(t) /\ thread'[t].new = thread[t].new
    BY DEF Carrying
  <1>4. \A t \in Workers : thread'[t].old # NoJob => thread'[t].row # NoRow
    BY DEF OneHome, OldHasRow
  <1>5. QED
    BY <1>1, <1>2, <1>3, <1>4, HomesKept

LEMMA CrashHome ==
    ASSUME TypeOK, OneHome, Crash
    PROVE  OneHome'
  <1>1. /\ lastJob \in Nat /\ lastJob' = lastJob /\ todo' = {} /\ RowsKept
        /\ \A t \in Workers : thread'[t] = Idle
    BY SameRows DEF Crash, slurmVars, TypeOK, SlurmTypeOK
  <1>2. Idle.old = NoJob /\ Idle.step = "idle"
    BY DEF Idle
  <1>3. \A j \in JobIds, i \in RowIds : Linked(j, i)' => Linked(j, i)
    BY <1>1, <1>2, LinksKept
  <1>4. \A t \in Workers : ~Carrying(t)'
    BY <1>1, <1>2 DEF Carrying
  <1>5. QED
    BY <1>1, <1>2, <1>3, <1>4, HomesKept

(* OneHome is inductive relative to the types.                             *)
THEOREM HomesCorrect == Spec => []OneHome
  <1>1. Init => OneHome
    BY DEF Init, SlurmInit, NoInstance, Idle, OneHome, LinkedGiven, LinkedOnce, Linked,
           Present, CarriedGiven, CarriedUnlinked, CarriedOnce, Carrying, OldHasRow,
           JobIds, NoJob
  <1>2. TypeOK /\ OneHome /\ [Next]_vars => OneHome'
    <2> SUFFICES ASSUME TypeOK, OneHome, [Next]_vars PROVE OneHome'
      OBVIOUS
    <2>1. CASE \E t \in Threads : Request(t)
      BY <2>1, RequestHome
    <2>2. CASE \E t \in Workers : Submission(t) \/ Handling(t)
      BY <2>2, SubmissionHome, HandlingHome
    <2>3. CASE Ticking
      BY <2>3, TickingHome
    <2>4. CASE \E u \in Users, p \in Ports : RegisterPort(u, p)
      BY <2>4, SameRows, ElsewhereHome DEF RegisterPort, slurmVars
    <2>5. ASSUME NEW i \in RowIds, BecomesDue(i) PROVE OneHome'
      <3>1. RowsKept
        BY <2>5 DEF BecomesDue, RowsKept, Present, TypeOK, Instance
      <3>2. QED
        BY <2>5, <3>1, ElsewhereHome DEF BecomesDue, slurmVars
    <2>6. CASE Crash
      BY <2>6, CrashHome
    <2>7. CASE SlurmStep /\ UNCHANGED <<row, lastRow, lease, thread, todo>>
      <3>1. lastJob' = lastJob
        BY <2>7 DEF SlurmStep, SetPhase, JobConfigures, JobStarts, JobEnds,
                    JobCancelCompletes, JobRequeues
      <3>2. QED
        BY <2>7, <3>1, SameRows, ElsewhereHome
    <2>8. CASE UNCHANGED vars
      BY <2>8, SameRows, ElsewhereHome DEF vars, slurmVars
    <2>9. QED
      BY <2>1, <2>2, <2>3, <2>4, <2>5, <2>6, <2>7, <2>8 DEF Next
  <1>3. QED
    BY <1>1, <1>2, TypeCorrect, PTL DEF Spec

(* However stale its locals, no thread ever cancels the job of a resource  *)
(* other than the one it was started for.                                  *)
THEOREM NoForeignJobCorrect == Spec => []NoForeignJob
  <1>1. TypeOK /\ OneHome => NoForeignJob
    <2> SUFFICES ASSUME TypeOK, OneHome, NEW t \in Workers, NEW i \in RowIds, Present(i)
                 PROVE  /\ thread[t].old # NoJob /\ i # thread[t].row
                              => row[i].job # thread[t].old
                        /\ Carrying(t) => row[i].job # thread[t].new
      BY DEF NoForeignJob
    <2>1. /\ thread[t].old \in 0 .. MaxJob /\ thread[t].row \in 0 .. MaxRow
          /\ MaxJob \in Nat /\ MaxRow \in Nat
      BY SlurmAssumption, InstancesAssumption DEF TypeOK, Locals
    <2>2. ASSUME thread[t].old # NoJob, i # thread[t].row, row[i].job = thread[t].old
          PROVE  FALSE
      <3>1. thread[t].old \in JobIds /\ thread[t].row \in RowIds
        BY <2>1, <2>2 DEF OneHome, OldHasRow, JobIds, RowIds, NoJob, NoRow
      <3>2. Linked(thread[t].old, i) /\ Linked(thread[t].old, thread[t].row)
        BY <2>2 DEF Linked
      <3>3. QED
        BY <2>2, <3>1, <3>2 DEF OneHome, LinkedOnce
    <2>3. Carrying(t) => row[i].job # thread[t].new
      BY DEF OneHome, CarriedUnlinked, Linked
    <2>4. QED
      BY <2>2, <2>3
  <1>2. QED
    BY <1>1, TypeCorrect, HomesCorrect, PTL
=============================================================================
