-------------------------- MODULE OrbitSavingProofs --------------------------
(***************************************************************************)
(* Saving and expiry.  The saving flag makes stop, restart and delete      *)
(* answer "being saved": while neither the portal nor the expiry scan      *)
(* dies, a flag that is set has a thread that will reset it.  And          *)
(* claim_auto_save keeps the expiry of one job from being handled twice,   *)
(* for every instance of OrbitInstances and whatever fails: the scans, the *)
(* workers they start, restarts of the resource, and crashes.              *)
(***************************************************************************)
EXTENDS OrbitInstancesProofs

ResetSteps == {"start", "export", "unflag", "kill", "expired", "release"}

(* Thread t is on its way to reset the flag of row i.                      *)
Resetter(t, i) ==
    /\ thread[t].row = i
    /\ thread[t].op \in {"save", "expire"}
    /\ thread[t].step \in ResetSteps

(* Whoever is about to set the flag is a save or the expiry.               *)
FlaggingOps ==
    \A t \in Workers : /\ At(t, "flag") => thread[t].op = "save"
                       /\ At(t, "flag_expired") => thread[t].op = "expire"

SavingPresent == \A i \in RowIds : row[i].saving => Present(i)

SavingInv == SavingHasWorker /\ SavingPresent /\ FlaggingOps

(* A step of the table that sets no flag.                                  *)
FlagsKept == \A k \in RowIds : row'[k].saving => row[k].saving /\ Present(k)'

-----------------------------------------------------------------------------
LEMMA SavingKept ==
    ASSUME SavingInv, FlaggingOps',
           \A k \in RowIds : row'[k].saving =>
               /\ Present(k)'
               /\ row[k].saving \/ \E s \in Workers : Resetter(s, k)',
           \A k \in RowIds, t \in Workers :
               Resetter(t, k) /\ row'[k].saving => \E s \in Workers : Resetter(s, k)'
    PROVE  SavingInv'
  <1>1. \A k \in RowIds : row[k].saving => \E t \in Workers : Resetter(t, k)
    BY DEF SavingInv, SavingHasWorker, Resetter, ResetSteps
  <1>2. \A k \in RowIds : row'[k].saving => \E s \in Workers : Resetter(s, k)'
    BY <1>1
  <1>3. SavingHasWorker'
    BY <1>2 DEF SavingHasWorker, Resetter, ResetSteps
  <1>4. SavingPresent'
    BY DEF SavingPresent
  <1>5. QED
    BY <1>3, <1>4 DEF SavingInv

(* One thread goes on: it was not going to reset a flag, or it still is.   *)
LEMMA GoesOn ==
    ASSUME SavingInv, thread \in [Workers -> Locals], NEW t \in Workers, NEW l, Become(t, l),
           \/ thread[t].step \notin ResetSteps
           \/ l.row = thread[t].row /\ l.op = thread[t].op /\ l.step \in ResetSteps,
           l.step = "flag" => l.op = "save",
           l.step = "flag_expired" => l.op = "expire",
           FlagsKept
    PROVE  SavingInv'
  <1>1. thread' = [thread EXCEPT ![t] = l]
    BY DEF Become
  <1>2. FlaggingOps'
    BY <1>1 DEF SavingInv, FlaggingOps, At
  <1>3. \A k \in RowIds, s \in Workers : Resetter(s, k) => Resetter(s, k)'
    BY <1>1 DEF Resetter
  <1>4. QED
    BY <1>2, <1>3, SavingKept DEF FlagsKept

(* It resets the flag of its row and need no longer be there.              *)
LEMMA Resets ==
    ASSUME SavingInv, thread \in [Workers -> Locals], row \in [RowIds -> Instance],
           NEW t \in Workers, NEW l, Become(t, l), SetSaving(thread[t].row, FALSE),
           l.step \notin {"flag", "flag_expired"}
    PROVE  SavingInv'
  <1>1. thread' = [thread EXCEPT ![t] = l]
    BY DEF Become
  <1>2. FlaggingOps'
    BY <1>1 DEF SavingInv, FlaggingOps, At
  <1>3. \A k \in RowIds : row'[k].saving =>
            row[k].saving /\ Present(k)' /\ k # thread[t].row
    BY DEF SetSaving, Update, SavingInv, SavingPresent, Present, Instance
  <1>4. \A k \in RowIds, s \in Workers :
            Resetter(s, k) /\ row'[k].saving => Resetter(s, k)'
    BY <1>1, <1>3 DEF Resetter
  <1>5. QED
    BY <1>2, <1>3, <1>4, SavingKept

(* It sets the flag of its row and is going to reset it.                   *)
LEMMA Flags ==
    ASSUME SavingInv, thread \in [Workers -> Locals], row \in [RowIds -> Instance],
           NEW t \in Workers, NEW s \in ResetSteps, Goto(t, s),
           SetSaving(thread[t].row, TRUE), thread[t].op \in {"save", "expire"}
    PROVE  SavingInv'
  <1>1. /\ thread'[t].row = thread[t].row /\ thread'[t].op = thread[t].op
        /\ thread'[t].step = s
        /\ \A w \in Workers \ {t} : thread'[w] = thread[w]
    BY DEF Goto, Become, Locals
  <1>2. FlaggingOps'
    BY <1>1 DEF SavingInv, FlaggingOps, At, ResetSteps
  <1>3. \A k \in RowIds : row'[k].saving =>
            Present(k)' /\ (row[k].saving \/ k = thread[t].row)
    BY DEF SetSaving, Update, SavingInv, SavingPresent, Present, Instance
  <1>4. Resetter(t, thread[t].row)'
    BY <1>1 DEF Resetter
  <1>5. \A k \in RowIds, w \in Workers : Resetter(w, k) => Resetter(w, k)'
    BY <1>1 DEF Resetter
  <1>6. \A k \in RowIds : k = thread[t].row => Resetter(t, k)'
    BY <1>1 DEF Resetter
  <1>7. QED
    BY <1>2, <1>3, <1>5, <1>6, SavingKept

LEMMA SameFlags ==
    ASSUME SavingInv, row' = row
    PROVE  FlagsKept
  BY DEF FlagsKept, SavingInv, SavingPresent, Present

LEMMA SetStateKeepsFlags ==
    ASSUME SavingInv, NEW i, NEW s \in StateCN, row \in [RowIds -> Instance], SetState(i, s)
    PROVE  FlagsKept
  <1>1. "absent" \notin StateCN
    BY DEF StateCN, ActiveStates
  <1>2. QED
    BY <1>1 DEF FlagsKept, SetState, Update, SavingInv, SavingPresent, Present, Instance

(* A thread that was not going to reset a flag goes to a step that sets    *)
(* none, or ends.                                                          *)
LEMMA Elsewhere ==
    ASSUME SavingInv, thread \in [Workers -> Locals], NEW t \in Workers,
           thread[t].step \notin ResetSteps, FlagsKept,
           \/ Finish(t)
           \/ \E s \in Steps \ {"flag", "flag_expired"} : Goto(t, s)
    PROVE  SavingInv'
  <1>1. CASE Finish(t)
    BY <1>1, GoesOn DEF Finish, Idle
  <1>2. ASSUME NEW s \in Steps \ {"flag", "flag_expired"}, Goto(t, s) PROVE SavingInv'
    <2> DEFINE l == [thread[t] EXCEPT !.step = s]
    <2>1. l.step = s /\ Become(t, l)
      BY <1>2 DEF Goto, Locals
    <2> HIDE DEF l
    <2>2. QED
      BY <2>1, GoesOn
  <1>3. QED
    BY <1>1, <1>2

LEMMA DelPortSaving ==
    ASSUME SavingInv, thread \in [Workers -> Locals], NEW t \in Workers,
           thread[t].step \notin ResetSteps, DelPort(t), row' = row
    PROVE  SavingInv'
  <1>1. \A s \in Workers : s # t =>
            \/ thread'[s] = thread[s]
            \/ thread'[s] = [thread[s] EXCEPT !.leased = FALSE]
    BY DEF DelPort
  <1>2. thread'[t] = Idle
    BY DEF DelPort
  <1>3. \A s \in Workers : s # t => /\ thread'[s].row = thread[s].row
                                    /\ thread'[s].op = thread[s].op
                                    /\ thread'[s].step = thread[s].step
    <2> SUFFICES ASSUME NEW s \in Workers, s # t
                 PROVE  /\ thread'[s].row = thread[s].row
                        /\ thread'[s].op = thread[s].op
                        /\ thread'[s].step = thread[s].step
      OBVIOUS
    <2>1. PICK m \in Locals : m = thread[s]
      OBVIOUS
    <2>2. thread'[s] = m \/ thread'[s] = [m EXCEPT !.leased = FALSE]
      BY <1>1, <2>1
    <2>3. thread'[s].row = m.row /\ thread'[s].op = m.op /\ thread'[s].step = m.step
      BY <2>2 DEF Locals
    <2>4. QED
      BY <2>1, <2>3
  <1>4. FlaggingOps'
    BY <1>2, <1>3 DEF SavingInv, FlaggingOps, At, Idle
  <1>5. \A k \in RowIds, s \in Workers : Resetter(s, k) => Resetter(s, k)'
    BY <1>3 DEF Resetter
  <1>6. QED
    BY <1>4, <1>5, SameFlags, SavingKept DEF FlagsKept

-----------------------------------------------------------------------------
(* The steps of the handlers                                               *)

LEMMA SubmissionSaving ==
    ASSUME TypeOK, SavingInv, NEW t \in Workers, Submission(t)
    PROVE  SavingInv'
  <1>1. thread \in [Workers -> Locals] /\ row \in [RowIds -> Instance]
    BY DEF TypeOK
  <1>2. thread[t].step \notin ResetSteps
    BY DEF Submission, AllocPort, NoPortLeft, Unlease, SubmitOk, SubmitFails, SubmitLost,
           InsertOk, InsertConflicts, Rollback, RestartUpdate, RestartConflicts, At,
           ResetSteps
  <1>3. {"unlease", "rollback"} \subseteq Steps \ {"flag", "flag_expired"}
    BY DEF Steps
  <1>4. CASE AllocPort(t)
    <2>1. PICK p \in Ports :
              Become(t, [thread[t] EXCEPT !.step = "submit", !.port = p, !.leased = TRUE])
      BY <1>4 DEF AllocPort
    <2> DEFINE l == [thread[t] EXCEPT !.step = "submit", !.port = p, !.leased = TRUE]
    <2>2. l.step = "submit" /\ Become(t, l)
      BY <1>1, <2>1 DEF Locals
    <2> HIDE DEF l
    <2>3. QED
      BY <1>1, <1>2, <1>4, <2>2, SameFlags, GoesOn DEF AllocPort
  <1>5. CASE NoPortLeft(t) \/ RestartConflicts(t)
    BY <1>1, <1>2, <1>5, SameFlags, Elsewhere DEF NoPortLeft, RestartConflicts
  <1>6. CASE Unlease(t)
    BY <1>1, <1>2, <1>6, DelPortSaving DEF Unlease
  <1>7. CASE SubmitOk(t)
    <2> DEFINE l == [thread[t] EXCEPT !.new = NewJob,
                       !.step = IF thread[t].op = "apply" THEN "insert" ELSE "update"]
    <2>1. l.step \in {"insert", "update"} /\ Become(t, l)
      BY <1>1, <1>7 DEF SubmitOk, Locals
    <2> HIDE DEF l
    <2>2. QED
      BY <1>1, <1>2, <1>7, <2>1, SameFlags, GoesOn DEF SubmitOk
  <1>8. CASE SubmitFails(t) \/ SubmitLost(t) \/ InsertConflicts(t)
    BY <1>1, <1>2, <1>3, <1>8, SameFlags, Elsewhere
       DEF SubmitFails, SubmitLost, InsertConflicts
  <1>9. CASE InsertOk(t)
    <2>1. FlagsKept
      BY <1>1, <1>9 DEF InsertOk, FlagsKept, SavingInv, SavingPresent, Present, NoInstance
    <2>2. QED
      BY <1>1, <1>2, <1>9, <2>1, Elsewhere DEF InsertOk
  <1>10. CASE Rollback(t)
    <2> DEFINE l == [thread[t] EXCEPT !.step = "unlease", !.new = NoJob]
    <2>1. l.step = "unlease" /\ Become(t, l)
      BY <1>1, <1>10 DEF Rollback, Locals
    <2> HIDE DEF l
    <2>2. QED
      BY <1>1, <1>2, <1>10, <2>1, SameFlags, GoesOn DEF Rollback
  <1>11. CASE RestartUpdate(t)
    <2>1. FlagsKept
      BY <1>1, <1>11 DEF RestartUpdate, Update, FlagsKept, SavingInv, SavingPresent,
                         Present, Instance
    <2>2. QED
      BY <1>1, <1>2, <1>11, <2>1, Elsewhere DEF RestartUpdate
  <1>12. QED
    BY <1>4, <1>5, <1>6, <1>7, <1>8, <1>9, <1>10, <1>11 DEF Submission

(* A kill is followed by the write of the state, also when it fails: only  *)
(* a stop gives up.                                                        *)
LEMMA KillSaving ==
    ASSUME TypeOK, SavingInv, NEW t \in Workers,
           Kill(t) \/ KillFindsEnded(t) \/ KillFails(t) \/ KillLost(t)
    PROVE  SavingInv'
  <1>1. thread \in [Workers -> Locals] /\ row' = row
    BY DEF TypeOK, Kill, KillFindsEnded, KillFails, KillLost
  <1>2. PICK o \in AllOps \cup {"none"} : o = thread[t].op
    BY <1>1 DEF Locals
  <1>3. ASSUME NEW s, NEW v, Become(t, [thread[t] EXCEPT !.step = s, !.seen = v]),
               s = "expired" \/ (s = "stopped" /\ o = "stop")
        PROVE  SavingInv'
    <2> DEFINE l == [thread[t] EXCEPT !.step = s, !.seen = v]
    <2>1. l.op = o /\ l.row = thread[t].row /\ l.step = s /\ Become(t, l)
      BY <1>1, <1>2, <1>3 DEF Locals
    <2> HIDE DEF l
    <2>2. FlaggingOps' /\ \A k \in RowIds, w \in Workers :
              Resetter(w, k) => Resetter(w, k)'
      BY <1>1, <1>2, <1>3, <2>1
         DEF Become, SavingInv, FlaggingOps, At, Resetter, ResetSteps
    <2>3. QED
      BY <1>1, <2>2, SameFlags, SavingKept DEF FlagsKept
  <1>4. CASE o = "stop" /\ Finish(t)
    <2>1. FlaggingOps' /\ \A k \in RowIds, w \in Workers :
              Resetter(w, k) => Resetter(w, k)'
      BY <1>1, <1>2, <1>4
         DEF Finish, Become, Idle, SavingInv, FlaggingOps, At, Resetter
    <2>2. QED
      BY <1>1, <2>1, SameFlags, SavingKept DEF FlagsKept
  <1>5. CASE Kill(t) \/ KillFindsEnded(t)
    BY <1>2, <1>3, <1>5 DEF Kill, KillFindsEnded, AfterKill
  <1>6. CASE KillFails(t) \/ KillLost(t)
    BY <1>2, <1>3, <1>4, <1>6 DEF KillFails, KillLost, AfterCtlError
  <1>7. QED
    BY <1>5, <1>6

LEMMA HandlingSaving ==
    ASSUME TypeOK, SavingInv, NEW t \in Workers, Handling(t)
    PROVE  SavingInv'
  <1>1. /\ thread \in [Workers -> Locals] /\ row \in [RowIds -> Instance]
        /\ thread[t].seen \in StateCN
    BY DEF TypeOK, Locals
  <1>2. /\ {"stopped", "rmlog", "query", "write_live", "write_ended", "mark", "flag",
            "unport"} \cap ResetSteps = {}
        /\ "mark" \in Steps \ {"flag", "flag_expired"}
        /\ Idle.step = "idle" /\ NextInScan.step = "claim"
    BY DEF ResetSteps, Steps, Idle, NextInScan
  <1>3. CASE Kill(t) \/ KillFindsEnded(t) \/ KillFails(t) \/ KillLost(t)
    BY <1>3, KillSaving
  <1>4. CASE StopWrite(t) \/ ReconcileEnded(t)
    BY <1>1, <1>2, <1>4, SetStateKeepsFlags, Elsewhere DEF StopWrite, ReconcileEnded, At
  <1>5. CASE DeleteRow(t)
    <2>1. FlagsKept
      BY <1>1, <1>5 DEF DeleteRow, FlagsKept, SavingInv, SavingPresent, Present, NoInstance
    <2>2. QED
      BY <1>1, <1>2, <1>5, <2>1, Elsewhere DEF DeleteRow, At
  <1>6. CASE Query(t)
    <2>1. thread[t].step \notin ResetSteps /\ row' = row
      BY <1>2, <1>6 DEF Query, At
    <2>2. PICK z \in {"write_live", "write_ended"} :
              \E v : Become(t, [thread[t] EXCEPT !.step = z, !.seen = v])
      BY <1>6 DEF Query
    <2>3. PICK v : Become(t, [thread[t] EXCEPT !.step = z, !.seen = v])
      BY <2>2
    <2> DEFINE l == [thread[t] EXCEPT !.step = z, !.seen = v]
    <2>4. l.step = z /\ Become(t, l)
      BY <1>1, <2>3 DEF Locals
    <2> HIDE DEF l
    <2>5. QED
      BY <1>1, <2>1, <2>2, <2>4, SameFlags, GoesOn
  <1>7. CASE QueryFails(t)
    BY <1>1, <1>2, <1>7, SameFlags, Elsewhere DEF QueryFails, At
  <1>8. CASE ReconcileLive(t)
    <2>1. FlagsKept
      BY <1>1, <1>8, SetStateKeepsFlags, SameFlags DEF ReconcileLive
    <2>2. QED
      BY <1>1, <1>2, <1>8, <2>1, Elsewhere DEF ReconcileLive, At
  <1>9. CASE MarkStarted(t)
    <2>1. FlagsKept
      BY <1>1, <1>9 DEF MarkStarted, Update, FlagsKept, SavingInv, SavingPresent, Present,
                        Instance
    <2>2. QED
      BY <1>1, <1>2, <1>9, <2>1, Elsewhere DEF MarkStarted, At
  <1>10. CASE FlagSaving(t)
    <2>1. thread[t].op = "save" /\ "export" \in ResetSteps
      BY <1>10 DEF FlagSaving, SavingInv, FlaggingOps, ResetSteps
    <2>2. QED
      BY <1>1, <1>10, <2>1, Flags DEF FlagSaving
  <1>11. CASE ExportEnds(t)
    <2> DEFINE l == [thread[t] EXCEPT !.step = "unflag"]
    <2>1. l.row = thread[t].row /\ l.op = thread[t].op /\ l.step = "unflag" /\ Become(t, l)
      BY <1>1, <1>11 DEF ExportEnds, Goto, Locals
    <2> HIDE DEF l
    <2>2. "unflag" \in ResetSteps
      BY DEF ResetSteps
    <2>3. QED
      BY <1>1, <1>11, <2>1, <2>2, SameFlags, GoesOn DEF ExportEnds
  <1>12. CASE UnflagSaving(t)
    <2> DEFINE l == IF thread[t].op = "save" THEN Idle ELSE [thread[t] EXCEPT !.step = "kill"]
    <2>1. l.step \in {"idle", "kill"} /\ Become(t, l)
      BY <1>1, <1>2, <1>12 DEF UnflagSaving, Finish, Goto, Locals
    <2> HIDE DEF l
    <2>2. QED
      BY <1>1, <1>12, <2>1, Resets DEF UnflagSaving
  <1>13. CASE WorkerException(t)
    BY <1>1, <1>2, <1>13, Resets DEF WorkerException, Finish
  <1>14. CASE ExpiredWrite(t)
    <2> DEFINE l == [thread[t] EXCEPT !.step = "release"]
    <2>1. l.row = thread[t].row /\ l.op = thread[t].op /\ l.step = "release" /\ Become(t, l)
      BY <1>1, <1>14 DEF ExpiredWrite, Goto, Locals
    <2> HIDE DEF l
    <2>2. "release" \in ResetSteps
      BY DEF ResetSteps
    <2>3. QED
      BY <1>1, <1>14, <2>1, <2>2, SetStateKeepsFlags, GoesOn DEF ExpiredWrite
  <1>15. CASE ExpiredRelease(t)
    BY <1>1, <1>2, <1>15, Resets DEF ExpiredRelease
  <1>16. CASE ReleasePort(t)
    BY <1>1, <1>2, <1>16, DelPortSaving DEF ReleasePort, At
  <1>17. QED
    BY <1>3, <1>4, <1>5, <1>6, <1>7, <1>8, <1>9, <1>10, <1>11, <1>12, <1>13, <1>14,
       <1>15, <1>16 DEF Handling

(* A request starts in a thread that was idle.                             *)
LEMMA RequestSaving ==
    ASSUME TypeOK, SavingInv, NEW t \in Threads, Request(t)
    PROVE  SavingInv'
  <1>1. thread \in [Workers -> Locals] /\ t \in Workers
    BY DEF TypeOK, Workers
  <1>2. ASSUME At(t, "idle") PROVE thread[t].step \notin ResetSteps
    BY <1>2 DEF At, ResetSteps
  <1>3. ASSUME NEW o, NEW i, NEW s, Begin(t, o, i, s),
               s = "flag" => o = "save", s # "flag_expired"
        PROVE  SavingInv'
    <2> DEFINE b == (o = "reconcile" /\ row[i].clock = "unset")
               l == [Idle EXCEPT !.op = o, !.step = s, !.row = i,
                        !.user = row[i].owner, !.old = row[i].job, !.fresh = b]
    <2>1. Become(t, l) /\ row' = row /\ thread[t].step \notin ResetSteps
      BY <1>2, <1>3 DEF Begin
    <2> HIDE DEF b
    <2>2. l.op = o /\ l.step = s
      BY DEF Idle
    <2> HIDE DEF l
    <2>3. QED
      BY <1>1, <1>3, <2>1, <2>2, SameFlags, GoesOn
  <1>4. CASE BeginApply(t)
    <2>1. PICK u \in Users, n \in Names :
              Become(t, [Idle EXCEPT !.op = "apply", !.step = "alloc",
                                     !.user = u, !.name = n])
      BY <1>4 DEF BeginApply
    <2> DEFINE l == [Idle EXCEPT !.op = "apply", !.step = "alloc",
                                 !.user = u, !.name = n]
    <2>2. l.step = "alloc" /\ Become(t, l)
      BY <2>1 DEF Idle
    <2> HIDE DEF l
    <2>3. QED
      BY <1>1, <1>2, <1>4, <2>2, SameFlags, GoesOn DEF BeginApply
  <1>5. ASSUME NEW i \in RowIds,
               BeginRestart(t, i) \/ BeginStop(t, i) \/ BeginDelete(t, i)
               \/ BeginReconcile(t, i) \/ BeginSave(t, i)
        PROVE  SavingInv'
    BY <1>3, <1>5 DEF BeginRestart, BeginStop, BeginDelete, BeginReconcile, BeginSave
  <1>6. ASSUME NEW p \in Ports, BeginRelease(t, p) PROVE SavingInv'
    <2> DEFINE l == [Idle EXCEPT !.op = "release", !.step = "unport",
                                 !.user = lease[p], !.port = p, !.leased = TRUE]
    <2>1. l.step = "unport" /\ Become(t, l)
      BY <1>6 DEF BeginRelease, Idle
    <2> HIDE DEF l
    <2>2. QED
      BY <1>1, <1>2, <1>6, <2>1, SameFlags, GoesOn DEF BeginRelease
  <1>7. QED
    BY <1>4, <1>5, <1>6 DEF Request

(* The scan flags what it has claimed and stops it, or has it saved and    *)
(* stopped by the worker that takes over.                                  *)
LEMMA TickingSaving ==
    ASSUME TypeOK, SavingInv, Ticking, "scan" \notin Faults
    PROVE  SavingInv'
  <1>1. /\ thread \in [Workers -> Locals] /\ row \in [RowIds -> Instance]
        /\ Ticker \in Workers
    BY DEF TypeOK, Workers
  <1>2. NextInScan.step = "claim" /\ {"idle", "claim"} \cap ResetSteps = {}
    BY DEF NextInScan, Idle, ResetSteps
  <1>3. CASE Scan
    BY <1>1, <1>2, <1>3, SameFlags, GoesOn DEF Scan, At
  <1>4. CASE ScanEnds
    BY <1>1, <1>2, <1>4, SameFlags, Elsewhere DEF ScanEnds, At
  <1>5. CASE FlagExpired
    <2>1. thread[Ticker].op = "expire" /\ {"start", "kill"} \subseteq ResetSteps
      BY <1>1, <1>5 DEF FlagExpired, SavingInv, FlaggingOps, ResetSteps
    <2>2. PICK s \in ResetSteps : Goto(Ticker, s)
      BY <1>5, <2>1 DEF FlagExpired
    <2>3. QED
      BY <1>1, <1>5, <2>1, <2>2, Flags DEF FlagExpired
  <1>6. ASSUME NEW x \in todo, Claim(x) PROVE SavingInv'
    <2>1. x.row \in RowIds
      BY DEF TypeOK, Listed
    <2> DEFINE l == [NextInScan EXCEPT !.step = "flag_expired", !.row = x.row,
                                       !.old = x.job, !.user = row[x.row].owner]
    <2>2. l.op = "expire" /\ l.step = "flag_expired"
      BY DEF NextInScan, Idle
    <2>3. \/ Become(Ticker, l)
          \/ thread' = thread
      BY <1>6 DEF Claim
    <2> HIDE DEF l
    <2>4. FlagsKept
      BY <1>1, <1>6, <2>1 DEF Claim, FlagsKept, SavingInv, SavingPresent, Present, Instance
    <2>5. thread[Ticker].step \notin ResetSteps
      BY <1>2, <1>6 DEF Claim, At
    <2>6. CASE Become(Ticker, l)
      BY <1>1, <2>2, <2>4, <2>5, <2>6, GoesOn
    <2>7. CASE thread' = thread
      BY <2>4, <2>7, SavingKept DEF FlagsKept, SavingInv, FlaggingOps, At, Resetter
    <2>8. QED
      BY <2>3, <2>6, <2>7
  <1>7. ASSUME NEW t \in Threads, StartWorker(t) PROVE SavingInv'
    <2>1. t \in Workers /\ t # Ticker
      BY InstancesAssumption DEF Workers
    <2>2. /\ thread'[t].row = thread[Ticker].row /\ thread'[t].op = thread[Ticker].op
          /\ thread'[t].step = "export" /\ thread'[Ticker] = NextInScan
          /\ \A w \in Workers \ {t, Ticker} : thread'[w] = thread[w]
          /\ thread[t].step = "idle" /\ row' = row
      BY <1>1, <1>7, <2>1 DEF StartWorker, Locals, At
    <2>3. FlaggingOps'
      BY <1>1, <1>2, <2>1, <2>2 DEF SavingInv, FlaggingOps, At
    <2>4. \A k \in RowIds, w \in Workers :
              Resetter(w, k) => \E s \in Workers : Resetter(s, k)'
      <3> SUFFICES ASSUME NEW k \in RowIds, NEW w \in Workers, Resetter(w, k)
                   PROVE  \E s \in Workers : Resetter(s, k)'
        OBVIOUS
      <3>1. CASE w = Ticker
        BY <2>1, <2>2, <3>1 DEF Resetter, ResetSteps
      <3>2. CASE w # Ticker
        BY <1>2, <2>2, <3>2 DEF Resetter
      <3>3. QED
        BY <3>1, <3>2
    <2>5. QED
      BY <2>2, <2>3, <2>4, SameFlags, SavingKept DEF FlagsKept
  <1>8. ~ScanException
    BY DEF ScanException
  <1>9. QED
    BY <1>3, <1>4, <1>5, <1>6, <1>7, <1>8 DEF Ticking

-----------------------------------------------------------------------------
(* While neither the portal nor the scan dies, a set saving flag has a     *)
(* thread that will reset it: workers that die of exceptions, lost         *)
(* replies, refused cancellations, two saves of one resource and deletions *)
(* and restarts by handlers that read the row before do not change that.   *)
THEOREM SavingCorrect ==
    ASSUME "crash" \notin Faults, "scan" \notin Faults
    PROVE  Spec => []SavingHasWorker
  <1>1. Init => SavingInv
    BY DEF Init, Idle, NoInstance, SavingInv, SavingHasWorker, SavingPresent, FlaggingOps,
           At
  <1>2. TypeOK /\ SavingInv /\ [Next]_vars => SavingInv'
    <2> SUFFICES ASSUME TypeOK, SavingInv, [Next]_vars PROVE SavingInv'
      OBVIOUS
    <2>1. CASE \E t \in Threads : Request(t)
      BY <2>1, RequestSaving
    <2>2. CASE \E t \in Workers : Submission(t) \/ Handling(t)
      BY <2>2, SubmissionSaving, HandlingSaving
    <2>3. CASE Ticking
      BY <2>3, TickingSaving
    <2>4. ASSUME FlagsKept, thread' = thread PROVE SavingInv'
      BY <2>4, SavingKept DEF FlagsKept, SavingInv, FlaggingOps, At, Resetter
    <2>5. CASE \E u \in Users, p \in Ports : RegisterPort(u, p)
      BY <2>4, <2>5, SameFlags DEF RegisterPort
    <2>6. ASSUME NEW i \in RowIds, BecomesDue(i) PROVE SavingInv'
      <3>1. FlagsKept
        BY <2>6 DEF BecomesDue, FlagsKept, SavingInv, SavingPresent, Present, TypeOK,
                    Instance
      <3>2. QED
        BY <2>4, <2>6, <3>1 DEF BecomesDue
    <2>7. ~Crash
      BY DEF Crash
    <2>8. CASE SlurmStep /\ UNCHANGED <<row, lastRow, lease, thread, todo>>
      BY <2>4, <2>8, SameFlags
    <2>9. CASE UNCHANGED vars
      BY <2>4, <2>9, SameFlags DEF vars
    <2>10. QED
      BY <2>1, <2>2, <2>3, <2>5, <2>6, <2>7, <2>8, <2>9 DEF Next
  <1>3. SavingInv => SavingHasWorker
    BY DEF SavingInv
  <1>4. QED
    BY <1>1, <1>2, <1>3, TypeCorrect, PTL DEF Spec

-----------------------------------------------------------------------------
(* The expiry of a job, and who handles it                                 *)

(* The thread handles the expiry of the job it has taken from the scan.    *)
Expiring(t) == thread[t].op = "expire" /\ thread[t].old # NoJob

(* A row that can still be claimed, or is listed to be, has a job whose    *)
(* expiry nobody handles.                                                  *)
UnclaimedFree ==
    \A i \in RowIds, t \in Workers :
        Present(i) /\ ~row[i].claimed /\ Expiring(t) => row[i].job # thread[t].old
ListedFree == \A x \in todo, t \in Workers : Expiring(t) => x.job # thread[t].old

ExpiryInv == UnclaimedFree /\ ListedFree /\ OneExpiryPerJob

-----------------------------------------------------------------------------
(* Steps that begin no handling of an expiry and give back no claim        *)

ThreadsQuiet ==
    \A t \in Workers : Expiring(t)' => Expiring(t) /\ thread'[t].old = thread[t].old

ClaimsKept ==
    \A k \in RowIds : Present(k)' => /\ Present(k)
                                     /\ row'[k].job = row[k].job
                                     /\ row'[k].claimed = row[k].claimed

LEMMA ExpiryKept ==
    ASSUME ExpiryInv, ThreadsQuiet, ClaimsKept, todo' \subseteq todo
    PROVE  ExpiryInv'
  <1>1. UnclaimedFree'
    BY DEF ExpiryInv, UnclaimedFree, ThreadsQuiet, ClaimsKept
  <1>2. ListedFree'
    BY DEF ExpiryInv, ListedFree, ThreadsQuiet
  <1>3. OneExpiryPerJob'
    BY DEF ExpiryInv, OneExpiryPerJob, ThreadsQuiet, Expiring
  <1>4. QED
    BY <1>1, <1>2, <1>3 DEF ExpiryInv

LEMMA BecomeQuiet ==
    ASSUME thread \in [Workers -> Locals], NEW t \in Workers, NEW l, Become(t, l),
           \/ l.op # "expire"
           \/ l.old = NoJob
           \/ l.op = thread[t].op /\ l.old = thread[t].old
    PROVE  ThreadsQuiet
  BY DEF Become, ThreadsQuiet, Expiring

LEMMA GotoQuiet ==
    ASSUME thread \in [Workers -> Locals], NEW t \in Workers, NEW s, Goto(t, s)
    PROVE  ThreadsQuiet
  BY BecomeQuiet DEF Goto, Locals

LEMMA FinishQuiet ==
    ASSUME thread \in [Workers -> Locals], NEW t \in Workers, Finish(t)
    PROVE  ThreadsQuiet
  BY BecomeQuiet DEF Finish, Idle

LEMMA DelPortQuiet ==
    ASSUME thread \in [Workers -> Locals], NEW t \in Workers, DelPort(t)
    PROVE  ThreadsQuiet
  <1>1. \A s \in Workers : \/ thread'[s] = Idle
                           \/ thread'[s] = thread[s]
                           \/ thread'[s] = [thread[s] EXCEPT !.leased = FALSE]
    BY DEF DelPort
  <1> SUFFICES ASSUME NEW s \in Workers, Expiring(s)'
               PROVE  Expiring(s) /\ thread'[s].old = thread[s].old
    BY DEF ThreadsQuiet
  <1>2. PICK m \in Locals : m = thread[s]
    OBVIOUS
  <1>3. thread'[s] # Idle
    BY DEF Expiring, Idle
  <1>4. thread'[s] = m \/ thread'[s] = [m EXCEPT !.leased = FALSE]
    BY <1>1, <1>2, <1>3
  <1>5. thread'[s].op = m.op /\ thread'[s].old = m.old
    BY <1>4 DEF Locals
  <1>6. QED
    BY <1>2, <1>5 DEF Expiring

LEMMA SameClaims ==
    ASSUME row' = row PROVE ClaimsKept
  BY DEF ClaimsKept, Present

LEMMA SetStateKeepsClaims ==
    ASSUME NEW i, NEW s \in StateCN, row \in [RowIds -> Instance], SetState(i, s)
    PROVE  ClaimsKept
  <1>1. "absent" \notin StateCN
    BY DEF StateCN, ActiveStates
  <1>2. QED
    BY <1>1 DEF ClaimsKept, SetState, Update, Present, Instance

LEMMA SetSavingKeepsClaims ==
    ASSUME NEW i, NEW b \in BOOLEAN, row \in [RowIds -> Instance], SetSaving(i, b)
    PROVE  ClaimsKept
  BY DEF ClaimsKept, SetSaving, Update, Present, Instance

(* A submission records its job, which no thread is linked to: whatever    *)
(* becomes of the claim of that row, nobody handles the expiry of its job. *)
LEMMA RecordExpiry ==
    ASSUME TypeOK, OneHome, ExpiryInv, NEW t \in Workers, Carrying(t), ThreadsQuiet,
           todo' \subseteq todo,
           \A k \in RowIds : Present(k)' =>
               \/ /\ Present(k)
                  /\ row'[k].job = row[k].job
                  /\ row'[k].claimed = row[k].claimed
               \/ row'[k].job = thread[t].new
    PROVE  ExpiryInv'
  <1>1. ASSUME NEW s \in Workers, Expiring(s)
        PROVE  thread[s].old # thread[t].new
    <2>1. thread[s].old \in 0 .. MaxJob /\ thread[s].row \in 0 .. MaxRow
      BY DEF TypeOK, Locals
    <2>2. thread[s].row \in RowIds
      BY <1>1, <2>1, InstancesAssumption DEF OneHome, OldHasRow, Expiring, RowIds, NoRow
    <2>3. Linked(thread[s].old, thread[s].row)
      BY DEF Linked
    <2>4. QED
      BY <2>2, <2>3 DEF OneHome, CarriedUnlinked
  <1>2. UnclaimedFree'
    BY <1>1 DEF ExpiryInv, UnclaimedFree, ThreadsQuiet
  <1>3. ListedFree'
    BY DEF ExpiryInv, ListedFree, ThreadsQuiet
  <1>4. OneExpiryPerJob'
    BY DEF ExpiryInv, OneExpiryPerJob, ThreadsQuiet, Expiring
  <1>5. QED
    BY <1>2, <1>3, <1>4 DEF ExpiryInv

-----------------------------------------------------------------------------
(* The steps of the handlers                                               *)

LEMMA SubmissionExpiry ==
    ASSUME TypeOK, OneHome, ExpiryInv, NEW t \in Workers, Submission(t)
    PROVE  ExpiryInv'
  <1>1. thread \in [Workers -> Locals] /\ row \in [RowIds -> Instance]
    BY DEF TypeOK
  <1>2. CASE AllocPort(t)
    <2>1. PICK p \in Ports :
              Become(t, [thread[t] EXCEPT !.step = "submit", !.port = p, !.leased = TRUE])
      BY <1>2 DEF AllocPort
    <2>2. ThreadsQuiet
      BY <1>1, <2>1, BecomeQuiet DEF Locals
    <2>3. QED
      BY <1>2, <2>2, SameClaims, ExpiryKept DEF AllocPort
  <1>3. CASE NoPortLeft(t)
    BY <1>1, <1>3, FinishQuiet, SameClaims, ExpiryKept DEF NoPortLeft
  <1>4. CASE Unlease(t)
    BY <1>1, <1>4, DelPortQuiet, SameClaims, ExpiryKept DEF Unlease
  <1>5. CASE SubmitOk(t)
    <2>1. ThreadsQuiet
      BY <1>1, <1>5, BecomeQuiet DEF SubmitOk, Locals
    <2>2. QED
      BY <1>5, <2>1, SameClaims, ExpiryKept DEF SubmitOk
  <1>6. CASE SubmitFails(t)
    BY <1>1, <1>6, GotoQuiet, SameClaims, ExpiryKept DEF SubmitFails
  <1>7. CASE SubmitLost(t)
    BY <1>1, <1>7, GotoQuiet, SameClaims, ExpiryKept DEF SubmitLost
  <1>8. CASE InsertOk(t)
    <2>1. Carrying(t) /\ ThreadsQuiet /\ todo' = todo /\ NewRow \in RowIds
      BY <1>1, <1>8, FinishQuiet DEF InsertOk, Carrying, At
    <2>2. \A k \in RowIds : \/ k # NewRow /\ row'[k] = row[k]
                            \/ row'[k].job = thread[t].new
      BY <1>1, <1>8, <2>1 DEF InsertOk, NoInstance
    <2>3. QED
      BY <2>1, <2>2, RecordExpiry DEF Present
  <1>9. CASE InsertConflicts(t)
    BY <1>1, <1>9, GotoQuiet, SameClaims, ExpiryKept DEF InsertConflicts
  <1>10. CASE Rollback(t)
    <2>1. ThreadsQuiet
      BY <1>1, <1>10, BecomeQuiet DEF Rollback, Locals
    <2>2. QED
      BY <1>10, <2>1, SameClaims, ExpiryKept DEF Rollback
  <1>11. CASE RestartUpdate(t)
    <2>1. Carrying(t) /\ ThreadsQuiet /\ todo' = todo
      BY <1>1, <1>11, FinishQuiet DEF RestartUpdate, Carrying, At
    <2>2. \A k \in RowIds : \/ row'[k] = row[k]
                            \/ row'[k].job = thread[t].new
      BY <1>1, <1>11 DEF RestartUpdate, Update, Instance
    <2>3. QED
      BY <2>1, <2>2, RecordExpiry DEF Present
  <1>12. CASE RestartConflicts(t)
    BY <1>1, <1>12, FinishQuiet, SameClaims, ExpiryKept DEF RestartConflicts
  <1>13. QED
    BY <1>2, <1>3, <1>4, <1>5, <1>6, <1>7, <1>8, <1>9, <1>10, <1>11, <1>12
       DEF Submission

(* A stop, a reconciliation, a save and the end of an expiry go on with    *)
(* the job they had.                                                       *)
LEMMA HandlingQuiet ==
    ASSUME TypeOK, NEW t \in Workers, Handling(t)
    PROVE  ThreadsQuiet
  <1>1. thread \in [Workers -> Locals]
    BY DEF TypeOK
  <1>2. ASSUME NEW s, NEW v, Become(t, [thread[t] EXCEPT !.step = s, !.seen = v])
        PROVE  ThreadsQuiet
    <2> DEFINE l == [thread[t] EXCEPT !.step = s, !.seen = v]
    <2>1. l.op = thread[t].op /\ l.old = thread[t].old
      BY <1>1 DEF Locals
    <2>2. Become(t, l)
      BY <1>2
    <2> HIDE DEF l
    <2>3. QED
      BY <1>1, <2>1, <2>2, BecomeQuiet
  <1>3. CASE Kill(t) \/ KillFindsEnded(t)
    BY <1>2, <1>3 DEF Kill, KillFindsEnded
  <1>4. CASE KillFails(t) \/ KillLost(t)
    BY <1>1, <1>2, <1>4, FinishQuiet DEF KillFails, KillLost, AfterCtlError
  <1>5. CASE Query(t)
    BY <1>2, <1>5 DEF Query
  <1>6. CASE \/ StopWrite(t) \/ DeleteRow(t) \/ QueryFails(t) \/ MarkStarted(t)
             \/ ReconcileEnded(t) \/ WorkerException(t)
    BY <1>1, <1>6, FinishQuiet
       DEF StopWrite, DeleteRow, QueryFails, MarkStarted, ReconcileEnded, WorkerException
  <1>7. CASE \/ ReconcileLive(t) \/ FlagSaving(t) \/ ExportEnds(t) \/ UnflagSaving(t)
             \/ ExpiredWrite(t)
    BY <1>1, <1>7, FinishQuiet, GotoQuiet
       DEF ReconcileLive, FlagSaving, ExportEnds, UnflagSaving, ExpiredWrite
  <1>8. CASE ExpiredRelease(t)
    <2>1. NextInScan.old = NoJob /\ Idle.old = NoJob
      BY DEF NextInScan, Idle
    <2>2. QED
      BY <1>1, <1>8, <2>1, BecomeQuiet DEF ExpiredRelease
  <1>9. CASE ReleasePort(t)
    BY <1>1, <1>9, DelPortQuiet DEF ReleasePort
  <1>10. QED
    BY <1>3, <1>4, <1>5, <1>6, <1>7, <1>8, <1>9 DEF Handling

LEMMA HandlingClaims ==
    ASSUME TypeOK, NEW t \in Workers, Handling(t)
    PROVE  ClaimsKept /\ todo' = todo
  <1>1. row \in [RowIds -> Instance] /\ thread[t].seen \in StateCN
    BY DEF TypeOK, Locals
  <1>2. CASE \/ Kill(t) \/ KillFindsEnded(t) \/ KillFails(t) \/ KillLost(t) \/ Query(t)
             \/ QueryFails(t) \/ ExportEnds(t) \/ ReleasePort(t)
    BY <1>2, SameClaims DEF Kill, KillFindsEnded, KillFails, KillLost, Query, QueryFails,
                            ExportEnds, ReleasePort
  <1>3. CASE StopWrite(t) \/ ReconcileEnded(t) \/ ExpiredWrite(t) \/ ReconcileLive(t)
    BY <1>1, <1>3, SetStateKeepsClaims, SameClaims
       DEF StopWrite, ReconcileEnded, ExpiredWrite, ReconcileLive
  <1>4. CASE \/ FlagSaving(t) \/ UnflagSaving(t) \/ WorkerException(t)
             \/ ExpiredRelease(t)
    BY <1>1, <1>4, SetSavingKeepsClaims
       DEF FlagSaving, UnflagSaving, WorkerException, ExpiredRelease
  <1>5. CASE DeleteRow(t)
    BY <1>1, <1>5 DEF DeleteRow, ClaimsKept, Present, NoInstance
  <1>6. CASE MarkStarted(t)
    BY <1>1, <1>6 DEF MarkStarted, ClaimsKept, Update, Present, Instance
  <1>7. QED
    BY <1>2, <1>3, <1>4, <1>5, <1>6 DEF Handling

(* A request begins no handling of an expiry.                              *)
LEMMA RequestExpiry ==
    ASSUME TypeOK, ExpiryInv, NEW t \in Threads, Request(t)
    PROVE  ExpiryInv'
  <1>1. thread \in [Workers -> Locals] /\ t \in Workers
    BY DEF TypeOK, Workers
  <1>2. ASSUME NEW o, NEW i, NEW s, o # "expire", Begin(t, o, i, s)
        PROVE  ExpiryInv'
    <2> DEFINE b == (o = "reconcile" /\ row[i].clock = "unset")
               l == [Idle EXCEPT !.op = o, !.step = s, !.row = i,
                        !.user = row[i].owner, !.old = row[i].job, !.fresh = b]
    <2>1. Become(t, l) /\ row' = row /\ todo' = todo
      BY <1>2 DEF Begin
    <2> HIDE DEF b
    <2>2. l.op = o
      BY DEF Idle
    <2> HIDE DEF l
    <2>3. QED
      BY <1>1, <1>2, <2>1, <2>2, BecomeQuiet, SameClaims, ExpiryKept
  <1>3. CASE BeginApply(t)
    <2>1. ThreadsQuiet
      BY <1>1, <1>3, BecomeQuiet DEF BeginApply, Idle
    <2>2. QED
      BY <1>3, <2>1, SameClaims, ExpiryKept DEF BeginApply
  <1>4. ASSUME NEW i \in RowIds,
               BeginRestart(t, i) \/ BeginStop(t, i) \/ BeginDelete(t, i)
               \/ BeginReconcile(t, i) \/ BeginSave(t, i)
        PROVE  ExpiryInv'
    BY <1>2, <1>4 DEF BeginRestart, BeginStop, BeginDelete, BeginReconcile, BeginSave
  <1>5. ASSUME NEW p \in Ports, BeginRelease(t, p) PROVE ExpiryInv'
    <2>1. ThreadsQuiet
      BY <1>1, <1>5, BecomeQuiet DEF BeginRelease, Idle
    <2>2. QED
      BY <1>5, <2>1, SameClaims, ExpiryKept DEF BeginRelease
  <1>6. QED
    BY <1>3, <1>4, <1>5 DEF Request

-----------------------------------------------------------------------------
(* The steps of the expiry scan                                            *)

(* Only rows that are not claimed are listed.                              *)
LEMMA ScanExpiry ==
    ASSUME TypeOK, ExpiryInv, Scan
    PROVE  ExpiryInv'
  <1>1. thread' = [thread EXCEPT ![Ticker] = NextInScan] /\ thread \in [Workers -> Locals]
    BY DEF Scan, Become, TypeOK
  <1>2. ThreadsQuiet
    BY <1>1 DEF ThreadsQuiet, Expiring, NextInScan, Idle
  <1>3. \A x \in todo', t \in Workers : Expiring(t) => x.job # thread[t].old
    BY DEF Scan, Expired, ExpiryInv, UnclaimedFree, Present
  <1>4. UnclaimedFree'
    BY <1>2 DEF Scan, ExpiryInv, UnclaimedFree, ThreadsQuiet, Present
  <1>5. ListedFree'
    BY <1>2, <1>3 DEF ListedFree, ThreadsQuiet
  <1>6. OneExpiryPerJob'
    BY <1>2 DEF ExpiryInv, OneExpiryPerJob, ThreadsQuiet, Expiring
  <1>7. QED
    BY <1>4, <1>5, <1>6 DEF ExpiryInv

(* A claim takes the one listed entry of a job, and its row cannot be      *)
(* claimed again before it has another job.                                *)
LEMMA ClaimExpiry ==
    ASSUME TypeOK, OneHome, ExpiryInv, NEW x \in todo, Claim(x)
    PROVE  ExpiryInv'
  <1> DEFINE l == [NextInScan EXCEPT !.step = "flag_expired", !.row = x.row,
                                     !.old = x.job, !.user = row[x.row].owner]
  <1>1. /\ thread \in [Workers -> Locals] /\ row \in [RowIds -> Instance]
        /\ x \in Listed /\ x.row \in RowIds /\ x.job \in 0 .. MaxJob
        /\ todo' = todo \ {x} /\ todo \subseteq Listed
    BY DEF TypeOK, Claim, Listed
  <1>2. CASE ~(Present(x.row) /\ ~row[x.row].claimed)
    <2>1. row' = row /\ thread' = thread
      BY <1>2 DEF Claim
    <2>2. ThreadsQuiet
      BY <2>1 DEF ThreadsQuiet, Expiring
    <2>3. QED
      BY <1>1, <2>1, <2>2, SameClaims, ExpiryKept
  <1>3. CASE Present(x.row) /\ ~row[x.row].claimed
    <2>1. /\ thread' = [thread EXCEPT ![Ticker] = l]
          /\ row' = [row EXCEPT ![x.row].claimed = TRUE]
      BY <1>3 DEF Claim, Become
    <2>2. l.old = x.job
      BY DEF NextInScan, Idle
    <2> HIDE DEF l
    <2>3. \A t \in Workers : \/ t # Ticker /\ thread'[t] = thread[t]
                             \/ t = Ticker /\ thread'[t] = l
      BY <1>1, <2>1
    <2>4. \A k \in RowIds : /\ Present(k)' => Present(k)
                            /\ row'[k].job = row[k].job
                            /\ ~row'[k].claimed => k # x.row /\ ~row[k].claimed
      BY <1>1, <2>1 DEF Present, Instance
    <2>5. x.job # NoJob => /\ \A k \in RowIds : Present(k) /\ row[k].job = x.job => k = x.row
                           /\ \A y \in todo : y.job = x.job => y = x
      <3> SUFFICES ASSUME x.job # NoJob
                   PROVE  /\ \A k \in RowIds : Present(k) /\ row[k].job = x.job => k = x.row
                          /\ \A y \in todo : y.job = x.job => y = x
        OBVIOUS
      <3>1. x.job \in JobIds /\ Linked(x.job, x.row)
        BY <1>1, SlurmAssumption DEF JobIds, NoJob, Linked
      <3>2. ASSUME NEW k \in RowIds, Present(k), row[k].job = x.job PROVE k = x.row
        <4>1. Linked(x.job, k)
          BY <3>2 DEF Linked
        <4>2. QED
          BY <1>1, <3>1, <4>1 DEF OneHome, LinkedOnce
      <3>3. ASSUME NEW y \in todo, y.job = x.job PROVE y = x
        <4>1. y \in Listed /\ Linked(x.job, y.row)
          BY <1>1, <3>3 DEF Linked
        <4>2. y.row = x.row
          BY <1>1, <3>1, <4>1 DEF OneHome, LinkedOnce, Listed
        <4>3. QED
          BY <1>1, <3>3, <4>1, <4>2 DEF Listed
      <3>4. QED
        BY <3>2, <3>3
    <2>6. UnclaimedFree'
      <3> SUFFICES ASSUME NEW i \in RowIds, NEW t \in Workers,
                          Present(i)', ~row'[i].claimed, Expiring(t)'
                   PROVE  row'[i].job # thread'[t].old
        BY DEF UnclaimedFree
      <3>1. Present(i) /\ ~row[i].claimed /\ i # x.row /\ row'[i].job = row[i].job
        BY <2>4
      <3>2. CASE t # Ticker /\ thread'[t] = thread[t]
        BY <3>1, <3>2 DEF ExpiryInv, UnclaimedFree, Expiring
      <3>3. CASE t = Ticker /\ thread'[t] = l
        BY <2>2, <2>5, <3>1, <3>3 DEF Expiring
      <3>4. QED
        BY <2>3, <3>2, <3>3
    <2>7. ListedFree'
      <3> SUFFICES ASSUME NEW y \in todo', NEW t \in Workers, Expiring(t)'
                   PROVE  y.job # thread'[t].old
        BY DEF ListedFree
      <3>1. y \in todo /\ y # x
        BY <1>1
      <3>2. CASE t # Ticker /\ thread'[t] = thread[t]
        BY <3>1, <3>2 DEF ExpiryInv, ListedFree, Expiring
      <3>3. CASE t = Ticker /\ thread'[t] = l
        BY <2>2, <2>5, <3>1, <3>3 DEF Expiring
      <3>4. QED
        BY <2>3, <3>2, <3>3
    <2>8. OneExpiryPerJob'
      BY <2>2, <2>3 DEF ExpiryInv, OneExpiryPerJob, ListedFree, Expiring
    <2>9. QED
      BY <2>6, <2>7, <2>8 DEF ExpiryInv
  <1>4. QED
    BY <1>2, <1>3

(* The scan hands the job over to the worker it starts and forgets it.     *)
LEMMA StartWorkerExpiry ==
    ASSUME TypeOK, ExpiryInv, NEW t \in Threads, StartWorker(t)
    PROVE  ExpiryInv'
  <1>1. /\ Ticker \in Workers /\ t \in Workers /\ t # Ticker
        /\ thread \in [Workers -> Locals]
    BY InstancesAssumption DEF Workers, TypeOK
  <1>2. /\ thread'[t].op = thread[Ticker].op /\ thread'[t].old = thread[Ticker].old
        /\ thread'[Ticker] = NextInScan
        /\ \A w \in Workers \ {t, Ticker} : thread'[w] = thread[w]
        /\ row' = row /\ todo' = todo
    BY <1>1 DEF StartWorker, Locals
  <1>3. ~Expiring(Ticker)'
    BY <1>2 DEF Expiring, NextInScan, Idle
  <1>4. \A w \in Workers : Expiring(w)' =>
            \/ w = t /\ Expiring(Ticker) /\ thread'[w].old = thread[Ticker].old
            \/ w \notin {t, Ticker} /\ Expiring(w) /\ thread'[w].old = thread[w].old
    BY <1>2, <1>3 DEF Expiring
  <1>5. UnclaimedFree'
    BY <1>1, <1>2, <1>4 DEF ExpiryInv, UnclaimedFree, Present
  <1>6. ListedFree'
    BY <1>1, <1>2, <1>4 DEF ExpiryInv, ListedFree
  <1>7. OneExpiryPerJob'
    BY <1>1, <1>4 DEF ExpiryInv, OneExpiryPerJob, Expiring
  <1>8. QED
    BY <1>5, <1>6, <1>7 DEF ExpiryInv

LEMMA TickingExpiry ==
    ASSUME TypeOK, OneHome, ExpiryInv, Ticking
    PROVE  ExpiryInv'
  <1>1. thread \in [Workers -> Locals] /\ Ticker \in Workers /\ row \in [RowIds -> Instance]
    BY DEF TypeOK, Workers
  <1>2. CASE ScanEnds \/ ScanException
    BY <1>1, <1>2, FinishQuiet, SameClaims, ExpiryKept DEF ScanEnds, ScanException
  <1>3. CASE FlagExpired
    BY <1>1, <1>3, GotoQuiet, SetSavingKeepsClaims, ExpiryKept DEF FlagExpired
  <1>4. QED
    BY <1>2, <1>3, ScanExpiry, ClaimExpiry, StartWorkerExpiry DEF Ticking

-----------------------------------------------------------------------------
(* At no time do two threads handle the expiry of one job, however the     *)
(* scans, their workers, restarts and crashes interleave.                  *)
THEOREM OneExpiryCorrect == Spec => []OneExpiryPerJob
  <1>1. Init => ExpiryInv
    BY DEF Init, Idle, ExpiryInv, UnclaimedFree, ListedFree, OneExpiryPerJob, Expiring
  <1>2. TypeOK /\ OneHome /\ ExpiryInv /\ [Next]_vars => ExpiryInv'
    <2> SUFFICES ASSUME TypeOK, OneHome, ExpiryInv, [Next]_vars PROVE ExpiryInv'
      OBVIOUS
    <2>1. CASE \E t \in Threads : Request(t)
      BY <2>1, RequestExpiry
    <2>2. ASSUME NEW t \in Workers, Submission(t) PROVE ExpiryInv'
      BY <2>2, SubmissionExpiry
    <2>3. ASSUME NEW t \in Workers, Handling(t) PROVE ExpiryInv'
      BY <2>3, HandlingQuiet, HandlingClaims, ExpiryKept
    <2>4. CASE Ticking
      BY <2>4, TickingExpiry
    <2>5. ASSUME ClaimsKept, thread' = thread, todo' = todo PROVE ExpiryInv'
      BY <2>5, ExpiryKept DEF ThreadsQuiet, Expiring
    <2>6. CASE \E u \in Users, p \in Ports : RegisterPort(u, p)
      BY <2>5, <2>6, SameClaims DEF RegisterPort
    <2>7. ASSUME NEW i \in RowIds, BecomesDue(i) PROVE ExpiryInv'
      <3>1. ClaimsKept
        BY <2>7 DEF BecomesDue, ClaimsKept, Present, TypeOK, Instance
      <3>2. QED
        BY <2>5, <2>7, <3>1 DEF BecomesDue
    <2>8. CASE Crash
      BY <2>8, SameClaims, ExpiryKept DEF Crash, ThreadsQuiet, Expiring, Idle
    <2>9. CASE SlurmStep /\ UNCHANGED <<row, lastRow, lease, thread, todo>>
      BY <2>5, <2>9, SameClaims
    <2>10. CASE UNCHANGED vars
      BY <2>5, <2>10, SameClaims DEF vars
    <2>11. QED
      BY <2>1, <2>2, <2>3, <2>4, <2>6, <2>7, <2>8, <2>9, <2>10 DEF Next
  <1>3. ExpiryInv => OneExpiryPerJob
    BY DEF ExpiryInv
  <1>4. QED
    BY <1>1, <1>2, <1>3, TypeCorrect, HomesCorrect, PTL DEF Spec
=============================================================================
