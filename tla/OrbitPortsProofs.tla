--------------------------- MODULE OrbitPortsProofs ---------------------------
(***************************************************************************)
(* Whom a handler works for, and whose ports it takes and gives back: a    *)
(* handler never touches the resource of another user, leases are given up *)
(* by their holders only, the port of an active resource stays leased, and *)
(* no two jobs that are up listen on one port.                             *)
(***************************************************************************)
EXTENDS OrbitInstancesProofs

-----------------------------------------------------------------------------
(* What a step does to the rows and to the thread that takes it            *)

(* No row appears, and those that stay keep their owner, job and port.     *)
CoreKept ==
    \A k \in RowIds : Present(k)' => /\ Present(k)
                                     /\ row'[k].owner = row[k].owner
                                     /\ row'[k].job = row[k].job
                                     /\ row'[k].port = row[k].port

LEMMA SameCore ==
    ASSUME row' = row PROVE CoreKept
  BY DEF CoreKept, Present

LEMMA SetStateKeepsCore ==
    ASSUME NEW i, NEW s \in StateCN, row \in [RowIds -> Instance], SetState(i, s)
    PROVE  CoreKept
  <1>1. "absent" \notin StateCN
    BY DEF StateCN, ActiveStates
  <1>2. QED
    BY <1>1 DEF CoreKept, SetState, Update, Present, Instance

LEMMA SetSavingKeepsCore ==
    ASSUME NEW i, NEW b \in BOOLEAN, row \in [RowIds -> Instance], SetSaving(i, b)
    PROVE  CoreKept
  BY DEF CoreKept, SetSaving, Update, Present, Instance

(* The steps of stop, delete, reconcile, save and expiry on a row.         *)
RowSteps == {"kill", "stopped", "rmlog", "query", "write_live", "write_ended", "mark",
             "flag", "export", "unflag", "expired", "release"}

(* The thread goes on with the same row, user, job and port.               *)
GoesOn(t) == \E s \in RowSteps, v \in StateCN :
                 Become(t, [thread[t] EXCEPT !.step = s, !.seen = v])

LEMMA GotoGoesOn ==
    ASSUME thread \in [Workers -> Locals], NEW t \in Workers, NEW s \in RowSteps, Goto(t, s)
    PROVE  GoesOn(t)
  <1>1. PICK m \in Locals : m = thread[t]
    OBVIOUS
  <1>2. [m EXCEPT !.step = s] = [m EXCEPT !.step = s, !.seen = m.seen] /\ m.seen \in StateCN
    BY DEF Locals
  <1>3. QED
    BY <1>1, <1>2 DEF Goto, GoesOn

(* However a handler of a row goes on, the rows keep owner, job and port,  *)
(* and it neither takes nor gives back a lease.                            *)
LEMMA HandlingShape ==
    ASSUME TypeOK, NEW t \in Workers, Handling(t), ~ReleasePort(t)
    PROVE  /\ thread[t].step \in RowSteps
           /\ Finish(t) \/ (t = Ticker /\ Become(t, NextInScan)) \/ GoesOn(t)
           /\ CoreKept
           /\ UNCHANGED <<lastRow, lease, todo>>
  <1>1. /\ thread \in [Workers -> Locals] /\ row \in [RowIds -> Instance]
        /\ thread[t].seen \in StateCN /\ "CANCELLED" \in StateCN
        /\ AfterKill(t) \in RowSteps
        /\ {"mark", "export", "unflag", "kill", "release", "expired", "write_live",
            "write_ended"} \subseteq RowSteps
    BY DEF TypeOK, Locals, StateCN, AfterKill, RowSteps
  <1> USE DEF At, slurmVars
  <1>2. CASE Kill(t) \/ KillLost(t)
    BY <1>1, <1>2, SameCore DEF Kill, KillLost, AfterCtlError, GoesOn, RowSteps
  <1>3. CASE KillFindsEnded(t)
    <2>1. \E v \in StateCN : Become(t, [thread[t] EXCEPT !.step = AfterKill(t), !.seen = v])
      BY <1>3, HistoryType DEF KillFindsEnded, AlreadyEndedReplies
    <2>2. GoesOn(t)
      BY <1>1, <2>1 DEF GoesOn
    <2>3. QED
      BY <1>3, <2>2, SameCore DEF KillFindsEnded, RowSteps
  <1>4. CASE KillFails(t)
    BY <1>1, <1>4, SameCore DEF KillFails, AfterCtlError, GoesOn, RowSteps
  <1>5. CASE Query(t)
    <2>1. \E s \in {"write_live", "write_ended"}, v \in StateCN :
              Become(t, [thread[t] EXCEPT !.step = s, !.seen = v])
      BY <1>5, MappedType, HistoryType DEF Query, LiveReply, EndedReplies
    <2>2. GoesOn(t)
      BY <1>1, <2>1 DEF GoesOn
    <2>3. QED
      BY <1>5, <2>2, SameCore DEF Query, RowSteps
  <1>6. CASE QueryFails(t)
    BY <1>6, SameCore DEF QueryFails, RowSteps
  <1>7. CASE StopWrite(t) \/ ReconcileEnded(t)
    BY <1>1, <1>7, SetStateKeepsCore DEF StopWrite, ReconcileEnded, RowSteps
  <1>8. CASE DeleteRow(t)
    BY <1>1, <1>8 DEF DeleteRow, CoreKept, Present, NoInstance, RowSteps
  <1>9. CASE ReconcileLive(t)
    BY <1>1, <1>9, SetStateKeepsCore, SameCore, GotoGoesOn DEF ReconcileLive, RowSteps
  <1>10. CASE MarkStarted(t)
    <2>1. CoreKept
      BY <1>1, <1>10 DEF MarkStarted, CoreKept, Update, Present, Instance
    <2>2. QED
      BY <1>10, <2>1 DEF MarkStarted, RowSteps
  <1>11. CASE FlagSaving(t) \/ UnflagSaving(t)
    BY <1>1, <1>11, SetSavingKeepsCore, GotoGoesOn DEF FlagSaving, UnflagSaving, RowSteps
  <1>12. CASE ExportEnds(t)
    BY <1>1, <1>12, SameCore, GotoGoesOn DEF ExportEnds, RowSteps
  <1>13. CASE WorkerException(t)
    BY <1>1, <1>13, SetSavingKeepsCore DEF WorkerException, InWorker, RowSteps
  <1>14. CASE ExpiredWrite(t)
    BY <1>1, <1>14, SetStateKeepsCore, GotoGoesOn DEF ExpiredWrite, RowSteps
  <1>15. CASE ExpiredRelease(t)
    BY <1>1, <1>15, SetSavingKeepsCore DEF ExpiredRelease, Finish, RowSteps
  <1>16. QED
    BY <1>2, <1>3, <1>4, <1>5, <1>6, <1>7, <1>8, <1>9, <1>10, <1>11, <1>12, <1>13, <1>14,
       <1>15 DEF Handling

-----------------------------------------------------------------------------
(* A handler works for one user                                            *)

(* A row id is unused until it is given out; a row that is there has an    *)
(* owner; what the scan has listed and what a thread works on has an id    *)
(* that was given out; the row a thread works on, if it is still there,    *)
(* belongs to the thread's user, and so does the lease the thread knows.   *)
UnusedIds == \A i \in RowIds : Present(i) => i <= lastRow /\ row[i].owner \in Users
ListedIds == \A x \in todo : x.row <= lastRow

ServesUser(l) ==
    /\ l.row <= lastRow
    /\ l.row # NoRow /\ Present(l.row) => row[l.row].owner = l.user
    /\ l.step \notin {"idle", "claim"} => l.user \in Users
    /\ l.leased => l.port \in Ports /\ l.user \in Users /\ lease[l.port] = l.user

OwnerInv == UnusedIds /\ ListedIds /\ \A t \in Workers : ServesUser(thread[t])

(* Rows that were there keep their owner; new ones have a new id.          *)
OwnersKept ==
    \A k \in RowIds : k <= lastRow /\ Present(k)' =>
        Present(k) /\ row'[k].owner = row[k].owner

LeasesKept == \A p \in Ports : lease[p] \in Users => lease'[p] = lease[p]

LEMMA CoreOwners ==
    ASSUME CoreKept PROVE OwnersKept
  BY DEF CoreKept, OwnersKept

LEMMA ServingKept ==
    ASSUME TypeOK, OwnersKept, LeasesKept, lastRow' \in Nat, lastRow' >= lastRow,
           NEW l \in Locals, ServesUser(l)
    PROVE  ServesUser(l)'
  <1>1. /\ lastRow \in Nat /\ l.row \in 0 .. MaxRow /\ MaxRow \in Nat
        /\ l.row # NoRow => l.row \in RowIds
    BY InstancesAssumption DEF TypeOK, Locals, RowIds, NoRow
  <1>2. l.row <= lastRow'
    BY <1>1 DEF ServesUser
  <1>3. l.row # NoRow /\ Present(l.row)' => row'[l.row].owner = l.user
    BY <1>1 DEF ServesUser, OwnersKept
  <1>4. l.leased => lease'[l.port] = l.user
    BY DEF ServesUser, LeasesKept
  <1>5. QED
    BY <1>2, <1>3, <1>4 DEF ServesUser, Present

LEMMA IdleServes ==
    ASSUME lastRow' \in Nat
    PROVE  ServesUser(Idle)' /\ ServesUser(NextInScan)'
  BY DEF ServesUser, Idle, NextInScan, NoRow

(* The common step: every thread forgets what it did, or has locals that   *)
(* serve its user.                                                         *)
LEMMA OwnerKept ==
    ASSUME TypeOK, OwnerInv, CoreKept, LeasesKept, lastRow' = lastRow,
           \A x \in todo' : x.row <= lastRow,
           \A w \in Workers :
               \/ thread'[w] \in {Idle, NextInScan}
               \/ \E l \in Locals : thread'[w] = l /\ (ServesUser(l) \/ ServesUser(l)')
    PROVE  OwnerInv'
  <1>1. lastRow' \in Nat /\ lastRow' >= lastRow
    BY DEF TypeOK
  <1>2. UnusedIds'
    BY DEF OwnerInv, UnusedIds, CoreKept, Present
  <1>3. ListedIds'
    BY DEF ListedIds
  <1>4. ASSUME NEW w \in Workers PROVE ServesUser(thread[w])'
    <2>1. PICK l : l = thread'[w]
      OBVIOUS
    <2>2. ServesUser(l)'
      BY <1>1, <1>4, <2>1, IdleServes, ServingKept, CoreOwners
    <2>3. QED
      BY <2>1, <2>2 DEF ServesUser, Present
  <1>5. QED
    BY <1>2, <1>3, <1>4 DEF OwnerInv

(* One thread goes on with locals l.                                       *)
LEMMA OwnerBecome ==
    ASSUME TypeOK, OwnerInv, CoreKept, LeasesKept, lastRow' = lastRow, todo' \subseteq todo,
           NEW t \in Workers, NEW l \in Locals, Become(t, l),
           l \in {Idle, NextInScan} \/ ServesUser(l) \/ ServesUser(l)'
    PROVE  OwnerInv'
  <1>1. thread' = [thread EXCEPT ![t] = l] /\ thread \in [Workers -> Locals]
    BY DEF Become, TypeOK
  <1>2. \A x \in todo' : x.row <= lastRow
    BY DEF OwnerInv, ListedIds
  <1>3. \A w \in Workers : \/ thread'[w] = l
                           \/ thread'[w] = thread[w] /\ thread[w] \in Locals
                              /\ ServesUser(thread[w])
    BY <1>1 DEF OwnerInv
  <1>4. QED
    BY <1>2, <1>3, OwnerKept

LEMMA OwnerFinish ==
    ASSUME TypeOK, OwnerInv, CoreKept, LeasesKept, lastRow' = lastRow, todo' \subseteq todo,
           NEW t \in Workers, Finish(t)
    PROVE  OwnerInv'
  BY OwnerBecome, IdleType DEF Finish

LEMMA OwnerGoto ==
    ASSUME TypeOK, OwnerInv, CoreKept, LeasesKept, lastRow' = lastRow, todo' \subseteq todo,
           NEW t \in Workers, thread[t].step \notin {"idle", "claim"}, NEW s \in Steps,
           Goto(t, s)
    PROVE  OwnerInv'
  <1>1. PICK m \in Locals : m = thread[t]
    BY DEF TypeOK
  <1>2. PICK l : l = [m EXCEPT !.step = s]
    OBVIOUS
  <1>3. l \in Locals /\ Become(t, l)
    BY <1>1, <1>2 DEF Goto, Locals
  <1>4. ServesUser(l)
    BY <1>1, <1>2 DEF OwnerInv, ServesUser, Locals
  <1>5. QED
    BY <1>3, <1>4, OwnerBecome

LEMMA SameLeases ==
    ASSUME lease' = lease PROVE LeasesKept
  BY DEF LeasesKept

(* Whoever else knows the lease that goes knows it no more.                *)
LEMMA OwnerDelPort ==
    ASSUME TypeOK, OwnerInv, NEW t \in Workers, DelPort(t),
           UNCHANGED <<slurmVars, row, lastRow, todo>>
    PROVE  OwnerInv'
  <1>1. /\ thread \in [Workers -> Locals] /\ lease \in [Ports -> Users \cup {NoUser}]
        /\ lastRow' \in Nat
    BY DEF TypeOK
  <1>2. ASSUME NEW w \in Workers PROVE ServesUser(thread[w])'
    <2>1. PICK m \in Locals : m = thread[w]
      BY <1>1
    <2>2. PICK l : l = thread'[w]
      OBVIOUS
    <2>3. ServesUser(m)
      BY <2>1 DEF OwnerInv
    <2>4. CASE l = Idle
      BY <1>1, <2>2, <2>4, IdleServes DEF ServesUser, Present
    <2>5. CASE l = [m EXCEPT !.leased = FALSE]
      <3>1. l.row = m.row /\ l.user = m.user /\ l.step = m.step /\ l.leased = FALSE
        BY <2>5 DEF Locals
      <3>2. QED
        BY <2>2, <2>3, <3>1 DEF ServesUser, Present
    <2>6. CASE l = m /\ ~(thread[t].leased /\ m.port = thread[t].port)
      <3>1. m.leased => lease'[m.port] = lease[m.port]
        BY <1>1, <2>3, <2>6 DEF DelPort, ServesUser
      <3>2. QED
        BY <2>2, <2>3, <2>6, <3>1 DEF ServesUser, Present
    <2>7. QED
      BY <1>1, <2>1, <2>2, <2>4, <2>5, <2>6 DEF DelPort
  <1>3. UnusedIds' /\ ListedIds'
    BY DEF OwnerInv, UnusedIds, ListedIds, Present
  <1>4. QED
    BY <1>2, <1>3 DEF OwnerInv

(* A handler begins for the owner of the row it reads, ...                 *)
LEMMA OwnerBegin ==
    ASSUME TypeOK, OwnerInv, NEW t \in Workers, NEW o \in AllOps, NEW i \in RowIds,
           NEW s \in Steps, Present(i), Begin(t, o, i, s)
    PROVE  OwnerInv'
  <1>1. PICK r \in Instance : r = row[i]
    BY DEF TypeOK
  <1>2. PICK f \in BOOLEAN : f = (o = "reconcile" /\ r.clock = "unset")
    OBVIOUS
  <1>3. PICK l : l = [Idle EXCEPT !.op = o, !.step = s, !.row = i, !.user = r.owner,
                                  !.old = r.job, !.fresh = f]
    OBVIOUS
  <1>4. Become(t, l)
    BY <1>1, <1>2, <1>3 DEF Begin
  <1>5. i \in 0 .. MaxRow
    BY InstancesAssumption DEF RowIds
  <1>6. l \in Locals /\ l.row = i /\ l.user = r.owner /\ ~l.leased
    <2>1. Idle \in Locals
      BY IdleType
    <2>2. l \in Locals
      BY <1>1, <1>3, <1>5, <2>1 DEF Locals, Instance
    <2>3. l.row = i /\ l.user = r.owner /\ l.leased = FALSE
      BY <1>3 DEF Idle
    <2>4. QED
      BY <2>2, <2>3
  <1>7. ServesUser(l)
    BY <1>1, <1>6 DEF ServesUser, OwnerInv, UnusedIds
  <1>8. QED
    BY <1>4, <1>6, <1>7, OwnerBecome, SameCore, SameLeases DEF Begin

(* ... or for the user who asks for a new resource or gives up a port.     *)
LEMMA RequestOwner ==
    ASSUME TypeOK, OwnerInv, NEW t \in Threads, Request(t)
    PROVE  OwnerInv'
  <1>1. t \in Workers /\ lastRow \in Nat /\ Idle \in Locals
    BY IdleType DEF Workers, TypeOK
  <1>2. CASE BeginApply(t)
    <2>1. PICK u \in Users, n \in Names :
              Become(t, [Idle EXCEPT !.op = "apply", !.step = "alloc",
                                     !.user = u, !.name = n])
      BY <1>2 DEF BeginApply
    <2>2. PICK l : l = [Idle EXCEPT !.op = "apply", !.step = "alloc",
                                    !.user = u, !.name = n]
      OBVIOUS
    <2>3. l \in Locals
      BY <1>1, <2>2 DEF Locals, Steps, AllOps
    <2>4. ServesUser(l)
      BY <1>1, <2>2 DEF ServesUser, Idle, NoRow
    <2>5. QED
      BY <1>1, <1>2, <2>1, <2>2, <2>3, <2>4, OwnerBecome, SameCore, SameLeases DEF BeginApply
  <1>3. ASSUME NEW i \in RowIds,
               BeginRestart(t, i) \/ BeginStop(t, i) \/ BeginDelete(t, i)
               \/ BeginReconcile(t, i) \/ BeginSave(t, i)
        PROVE  OwnerInv'
    <2>1. Present(i)
      BY <1>3 DEF BeginRestart, BeginStop, BeginDelete, BeginReconcile, BeginSave,
                  Terminal, Active, Present, ActiveStates
    <2>2. PICK o \in AllOps, s \in Steps : Begin(t, o, i, s)
      BY <1>3 DEF BeginRestart, BeginStop, BeginDelete, BeginReconcile, BeginSave,
                  AllOps, Steps
    <2>3. QED
      BY <1>1, <2>1, <2>2, OwnerBegin
  <1>4. ASSUME NEW p \in Ports, BeginRelease(t, p) PROVE OwnerInv'
    <2>1. PICK u \in Users : u = lease[p]
      BY <1>4 DEF BeginRelease
    <2>2. PICK l : l = [Idle EXCEPT !.op = "release", !.step = "unport", !.user = u,
                                    !.port = p, !.leased = TRUE]
      OBVIOUS
    <2>3. l \in Locals
      BY <1>1, <2>2 DEF Locals, Steps, AllOps
    <2>4. ServesUser(l)
      BY <1>1, <2>1, <2>2 DEF ServesUser, Idle, NoRow
    <2>5. QED
      BY <1>1, <1>4, <2>1, <2>2, <2>3, <2>4, OwnerBecome, SameCore, SameLeases
         DEF BeginRelease
  <1>5. QED
    BY <1>2, <1>3, <1>4 DEF Request

LEMMA HandlingOwner ==
    ASSUME TypeOK, OwnerInv, NEW t \in Workers, Handling(t)
    PROVE  OwnerInv'
  <1>1. CASE ReleasePort(t)
    BY <1>1, OwnerDelPort DEF ReleasePort
  <1>2. CASE ~ReleasePort(t)
    <2>1. /\ thread[t].step \in RowSteps
          /\ Finish(t) \/ (t = Ticker /\ Become(t, NextInScan)) \/ GoesOn(t)
          /\ CoreKept /\ LeasesKept
          /\ UNCHANGED <<lastRow, lease, todo>>
      BY <1>2, HandlingShape, SameLeases
    <2>2. CASE Finish(t)
      BY <2>1, <2>2, OwnerFinish
    <2>3. CASE Become(t, NextInScan)
      BY <2>1, <2>3, OwnerBecome, NextInScanType
    <2>4. CASE GoesOn(t)
      <3>1. PICK s \in RowSteps, v \in StateCN :
                Become(t, [thread[t] EXCEPT !.step = s, !.seen = v])
        BY <2>4 DEF GoesOn
      <3>2. PICK m \in Locals : m = thread[t]
        BY DEF TypeOK
      <3>3. PICK l : l = [m EXCEPT !.step = s, !.seen = v]
        OBVIOUS
      <3>4. l \in Locals /\ Become(t, l)
        <4>1. Become(t, l)
          BY <3>1, <3>2, <3>3
        <4>2. s \in Steps
          BY DEF RowSteps, Steps
        <4>3. l \in Locals
          BY <3>3, <4>2 DEF Locals
        <4>4. QED
          BY <4>1, <4>3
      <3>5. ServesUser(l)
        BY <2>1, <3>2, <3>3 DEF OwnerInv, ServesUser, Locals, RowSteps
      <3>6. QED
        BY <2>1, <3>4, <3>5, OwnerBecome
    <2>5. QED
      BY <2>1, <2>2, <2>3, <2>4
  <1>3. QED
    BY <1>1, <1>2

(* A submission records its job in a row of its own user.                  *)
LEMMA OwnerRecord ==
    ASSUME TypeOK, OwnerInv, NEW t \in Workers, Finish(t), OwnersKept, UnusedIds',
           lease' = lease, todo' = todo, lastRow' \in Nat, lastRow' >= lastRow
    PROVE  OwnerInv'
  <1>1. thread' = [thread EXCEPT ![t] = Idle] /\ thread \in [Workers -> Locals]
    BY DEF Finish, Become, TypeOK
  <1>2. ListedIds'
    BY DEF OwnerInv, ListedIds, TypeOK, Listed, RowIds
  <1>3. ASSUME NEW w \in Workers PROVE ServesUser(thread[w])'
    <2>1. PICK l : l = thread'[w]
      OBVIOUS
    <2>2. l = Idle \/ (l \in Locals /\ ServesUser(l))
      BY <1>1, <2>1 DEF OwnerInv
    <2>3. ServesUser(l)'
      BY <2>2, IdleServes, ServingKept, SameLeases
    <2>4. QED
      BY <2>1, <2>3 DEF ServesUser, Present
  <1>4. QED
    BY <1>2, <1>3 DEF OwnerInv

LEMMA SubmissionOwner ==
    ASSUME TypeOK, OwnerInv, NEW t \in Workers, Submission(t)
    PROVE  OwnerInv'
  <1>1. PICK m \in Locals : m = thread[t]
    BY DEF TypeOK
  <1>2. /\ ServesUser(m) /\ Idle \in Locals
        /\ {"submit", "unlease", "insert", "update", "rollback"} \subseteq Steps
    BY <1>1, IdleType DEF OwnerInv, Steps
  <1> USE DEF At
  <1>3. CASE AllocPort(t)
    <2>1. PICK p \in Ports :
            /\ FreePort(p)
            /\ lease' = [lease EXCEPT ![p] = m.user]
            /\ Become(t, [m EXCEPT !.step = "submit", !.port = p, !.leased = TRUE])
      BY <1>1, <1>3 DEF AllocPort
    <2>2. PICK l : l = [m EXCEPT !.step = "submit", !.port = p, !.leased = TRUE]
      OBVIOUS
    <2>3. l \in Locals /\ m.user \in Users
      BY <1>1, <1>2, <1>3, <2>2 DEF Locals, AllocPort, ServesUser
    <2>4. LeasesKept /\ lease'[p] = m.user
      BY <2>1, SlurmAssumption DEF FreePort, LeasesKept, TypeOK
    <2>5. CoreKept /\ lastRow' = lastRow /\ todo' = todo /\ row' = row
      BY <1>3, SameCore DEF AllocPort
    <2>6. l.row = m.row /\ l.user = m.user /\ l.port = p
      BY <2>2 DEF Locals
    <2>7. ServesUser(l)'
      BY <1>2, <2>3, <2>4, <2>5, <2>6 DEF ServesUser, Present
    <2>8. QED
      BY <2>1, <2>2, <2>3, <2>4, <2>5, <2>7, OwnerBecome
  <1>4. CASE NoPortLeft(t)
    BY <1>4, OwnerFinish, SameCore, SameLeases DEF NoPortLeft
  <1>5. CASE Unlease(t)
    BY <1>5, OwnerDelPort DEF Unlease
  <1>6. CASE SubmitOk(t)
    <2>1. PICK s \in Steps : s = IF m.op = "apply" THEN "insert" ELSE "update"
      BY <1>2
    <2>2. PICK n : n = NewJob
      OBVIOUS
    <2>3. n \in 0 .. MaxJob
      BY <1>6, <2>2, SlurmAssumption DEF SubmitOk, Sbatch, NewJob, JobIds
    <2>4. PICK l : l = [m EXCEPT !.new = n, !.step = s]
      OBVIOUS
    <2>5. l \in Locals /\ Become(t, l)
      BY <1>1, <1>6, <2>1, <2>2, <2>3, <2>4 DEF SubmitOk, Locals
    <2>6. ServesUser(l)
      BY <1>1, <1>2, <1>6, <2>4 DEF ServesUser, Locals, SubmitOk
    <2>7. QED
      BY <1>6, <2>5, <2>6, OwnerBecome, SameCore, SameLeases DEF SubmitOk
  <1>7. CASE SubmitFails(t)
    BY <1>2, <1>7, OwnerGoto, SameCore, SameLeases DEF SubmitFails
  <1>8. CASE SubmitLost(t)
    BY <1>2, <1>8, OwnerGoto, SameCore, SameLeases DEF SubmitLost
  <1>9. CASE InsertConflicts(t)
    BY <1>2, <1>9, OwnerGoto, SameCore, SameLeases DEF InsertConflicts
  <1>10. CASE Rollback(t)
    <2>1. PICK l : l = [m EXCEPT !.step = "unlease", !.new = NoJob]
      OBVIOUS
    <2>2. l \in Locals /\ Become(t, l)
      <3>1. Become(t, l)
        BY <1>1, <1>10, <2>1 DEF Rollback
      <3>2. l \in Locals
        <4>1. NoJob \in 0 .. MaxJob
          BY SlurmAssumption DEF NoJob
        <4>2. QED
          BY <1>2, <2>1, <4>1 DEF Locals
      <3>3. QED
        BY <3>1, <3>2
    <2>3. ServesUser(l)
      BY <1>1, <1>2, <1>10, <2>1 DEF ServesUser, Locals, Rollback
    <2>4. QED
      BY <1>10, <2>2, <2>3, OwnerBecome, SameCore, SameLeases DEF Rollback
  <1>11. CASE RestartUpdate(t)
    <2>1. \A k \in RowIds : Present(k)' => Present(k) /\ row'[k].owner = row[k].owner
      BY <1>11 DEF RestartUpdate, Update, Present, TypeOK, Instance
    <2>2. OwnersKept /\ UnusedIds'
      BY <1>11, <2>1 DEF OwnersKept, OwnerInv, UnusedIds, RestartUpdate
    <2>3. QED
      BY <1>11, <2>2, OwnerRecord DEF RestartUpdate, TypeOK
  <1>12. CASE InsertOk(t)
    <2>1. lastRow \in Nat /\ lastRow' = lastRow + 1 /\ NewRow = lastRow + 1 /\ m.user \in Users
      BY <1>1, <1>2, <1>12 DEF InsertOk, NewRow, TypeOK, ServesUser
    <2>2. /\ row'[NewRow].owner = m.user
          /\ \A k \in RowIds \ {NewRow} : row'[k] = row[k]
      BY <1>1, <1>12 DEF InsertOk, TypeOK, NoInstance
    <2>3. OwnersKept
      BY <2>1, <2>2 DEF OwnersKept, Present
    <2>4. UnusedIds'
      BY <2>1, <2>2 DEF OwnerInv, UnusedIds, Present, RowIds
    <2>5. QED
      BY <1>12, <2>1, <2>3, <2>4, OwnerRecord DEF InsertOk
  <1>13. CASE RestartConflicts(t)
    BY <1>13, OwnerFinish, SameCore, SameLeases DEF RestartConflicts
  <1>14. QED
    BY <1>3, <1>4, <1>5, <1>6, <1>7, <1>8, <1>9, <1>10, <1>11, <1>12, <1>13 DEF Submission

(* The scan works for nobody before it has claimed a row, then for its     *)
(* owner of that moment.                                                   *)
LEMMA TickingOwner ==
    ASSUME TypeOK, OwnerInv, Ticking
    PROVE  OwnerInv'
  <1>1. /\ Ticker \in Workers /\ thread \in [Workers -> Locals]
        /\ row \in [RowIds -> Instance] /\ lastRow \in Nat
        /\ NextInScan \in Locals /\ Idle \in Locals
        /\ {"kill", "start", "export", "flag_expired"} \subseteq Steps
    BY IdleType, NextInScanType DEF Workers, TypeOK, Steps
  <1> USE DEF At
  <1>2. CASE Scan
    <2>1. thread' = [thread EXCEPT ![Ticker] = NextInScan]
      BY <1>2 DEF Scan, Become
    <2>2. \A x \in todo' : x.row <= lastRow
      BY <1>2 DEF Scan, Expired, OwnerInv, UnusedIds, Present
    <2>3. \A w \in Workers : \/ thread'[w] = NextInScan
                             \/ thread'[w] = thread[w] /\ thread[w] \in Locals
                                /\ ServesUser(thread[w])
      BY <1>1, <2>1 DEF OwnerInv
    <2>4. QED
      BY <1>2, <2>2, <2>3, OwnerKept, SameCore, SameLeases DEF Scan
  <1>3. CASE ScanEnds \/ ScanException
    BY <1>1, <1>3, OwnerFinish, SameCore, SameLeases DEF ScanEnds, ScanException
  <1>4. CASE FlagExpired
    <2>1. CoreKept
      BY <1>1, <1>4, SetSavingKeepsCore DEF FlagExpired
    <2>2. QED
      BY <1>1, <1>4, <2>1, OwnerGoto, SameLeases DEF FlagExpired
  <1>5. ASSUME NEW x \in todo, Claim(x) PROVE OwnerInv'
    <2>1. x.row \in RowIds /\ x.row \in 0 .. MaxRow /\ x.job \in 0 .. MaxJob
      BY InstancesAssumption DEF TypeOK, Listed, RowIds
    <2>2. CoreKept
      BY <1>1, <1>5, <2>1, SameCore DEF Claim, CoreKept, Present, Instance
    <2>3. CASE thread' = thread
      <3>1. \A w \in Workers : thread'[w] = thread[w] /\ thread[w] \in Locals
                               /\ ServesUser(thread[w])
        BY <1>1, <2>3 DEF OwnerInv
      <3>2. \A y \in todo' : y.row <= lastRow
        BY <1>5 DEF Claim, OwnerInv, ListedIds
      <3>3. QED
        BY <1>5, <2>2, <3>1, <3>2, OwnerKept, SameLeases DEF Claim
    <2>4. CASE thread' # thread
      <3>1. PICK u \in Users : u = row[x.row].owner
        BY <1>5, <2>1, <2>4 DEF Claim, OwnerInv, UnusedIds
      <3>2. PICK l : l = [NextInScan EXCEPT !.step = "flag_expired", !.row = x.row,
                                            !.old = x.job, !.user = u]
        OBVIOUS
      <3>3. Become(Ticker, l)
        BY <1>5, <2>4, <3>1, <3>2 DEF Claim
      <3>4. l \in Locals
        BY <1>1, <2>1, <3>2 DEF Locals
      <3>5. l.row = x.row /\ l.user = u /\ l.leased = FALSE
        BY <3>2 DEF NextInScan, Idle
      <3>6. ServesUser(l)
        BY <3>1, <3>5 DEF ServesUser, OwnerInv, ListedIds
      <3>7. QED
        BY <1>1, <1>5, <2>2, <3>3, <3>4, <3>6, OwnerBecome, SameLeases DEF Claim
    <2>5. QED
      BY <2>3, <2>4
  <1>6. ASSUME NEW t \in Threads, StartWorker(t) PROVE OwnerInv'
    <2>1. PICK m \in Locals : m = thread[Ticker]
      BY <1>1
    <2>2. PICK l : l = [m EXCEPT !.step = "export"]
      OBVIOUS
    <2>3. l \in Locals
      BY <1>1, <2>2 DEF Locals
    <2>4. ServesUser(l)
      BY <1>1, <1>6, <2>1, <2>2 DEF OwnerInv, ServesUser, StartWorker, Locals
    <2>5. \A w \in Workers : \/ thread'[w] \in {l, NextInScan}
                             \/ thread'[w] = thread[w] /\ thread[w] \in Locals
                                /\ ServesUser(thread[w])
      BY <1>1, <1>6, <2>1, <2>2 DEF StartWorker, OwnerInv
    <2>6. \A y \in todo' : y.row <= lastRow
      BY <1>6 DEF StartWorker, OwnerInv, ListedIds
    <2>7. QED
      BY <1>6, <2>3, <2>4, <2>5, <2>6, OwnerKept, SameCore, SameLeases DEF StartWorker
  <1>7. QED
    BY <1>2, <1>3, <1>4, <1>5, <1>6 DEF Ticking

(* Steps that touch no thread.                                             *)
LEMMA OwnerElsewhere ==
    ASSUME TypeOK, OwnerInv, CoreKept, LeasesKept, UNCHANGED <<lastRow, thread, todo>>
    PROVE  OwnerInv'
  <1>1. \A w \in Workers : thread'[w] = thread[w] /\ thread[w] \in Locals
                           /\ ServesUser(thread[w])
    BY DEF OwnerInv, TypeOK
  <1>2. \A y \in todo' : y.row <= lastRow
    BY DEF OwnerInv, ListedIds
  <1>3. QED
    BY <1>1, <1>2, OwnerKept

(* Whom the rows, the leases and the handlers belong to agrees throughout. *)
THEOREM OwnersCorrect == Spec => []OwnerInv
  <1>1. Init => OwnerInv
    BY DEF Init, OwnerInv, UnusedIds, ListedIds, ServesUser, Present, NoInstance, Idle,
           NoRow
  <1>2. TypeOK /\ OwnerInv /\ [Next]_vars => OwnerInv'
    <2> SUFFICES ASSUME TypeOK, OwnerInv, [Next]_vars PROVE OwnerInv'
      OBVIOUS
    <2>1. CASE \E t \in Threads : Request(t)
      BY <2>1, RequestOwner
    <2>2. CASE \E t \in Workers : Submission(t) \/ Handling(t)
      BY <2>2, SubmissionOwner, HandlingOwner
    <2>3. CASE Ticking
      BY <2>3, TickingOwner
    <2>4. CASE \E u \in Users, p \in Ports : RegisterPort(u, p)
      <3>1. LeasesKept
        BY <2>4, SlurmAssumption DEF RegisterPort, LeasesKept, TypeOK
      <3>2. QED
        BY <2>4, <3>1, SameCore, OwnerElsewhere DEF RegisterPort
    <2>5. ASSUME NEW i \in RowIds, BecomesDue(i) PROVE OwnerInv'
      <3>1. CoreKept
        BY <2>5 DEF BecomesDue, CoreKept, Present, TypeOK, Instance
      <3>2. QED
        BY <2>5, <3>1, SameLeases, OwnerElsewhere DEF BecomesDue
    <2>6. CASE Crash
      BY <2>6, SameCore, SameLeases, OwnerKept DEF Crash
    <2>7. CASE SlurmStep /\ UNCHANGED <<row, lastRow, lease, thread, todo>>
      BY <2>7, SameCore, SameLeases, OwnerElsewhere
    <2>8. CASE UNCHANGED vars
      BY <2>8, SameCore, SameLeases, OwnerElsewhere DEF vars
    <2>9. QED
      BY <2>1, <2>2, <2>3, <2>4, <2>5, <2>6, <2>7, <2>8 DEF Next
  <1>3. QED
    BY <1>1, <1>2, TypeCorrect, PTL DEF Spec

(* A handler never touches the resource of another user, although it acts  *)
(* on a row id it has read some time ago and checks no owner again: ids    *)
(* are never given out twice.                                              *)
THEOREM OwnRowCorrect == Spec => []OwnRowOnly
  <1>1. OwnerInv => OwnRowOnly
    BY DEF OwnerInv, ServesUser, OwnRowOnly
  <1>2. QED
    BY <1>1, OwnersCorrect, PTL
-----------------------------------------------------------------------------
(* A lease is given up by its holder only                                  *)

(* Only the deletion of a lease takes one away from a user.                *)
LEMMA LeasesStay ==
    ASSUME TypeOK, [Next]_vars,
           \A t \in Workers : ~Unlease(t) /\ ~ReleasePort(t)
    PROVE  LeasesKept
  <1>1. lease \in [Ports -> Users \cup {NoUser}]
    BY DEF TypeOK
  <1>2. ASSUME NEW t \in Threads, Request(t) PROVE LeasesKept
    BY <1>2, SameLeases DEF Request, BeginApply, BeginRestart, BeginStop, BeginDelete,
       BeginReconcile, BeginSave, BeginRelease, Begin
  <1>3. ASSUME NEW t \in Workers, Submission(t) PROVE LeasesKept
    <2>1. CASE AllocPort(t)
      BY <1>1, <2>1, SlurmAssumption DEF AllocPort, FreePort, LeasesKept
    <2>2. CASE ~AllocPort(t)
      BY <1>3, <2>2, SameLeases
         DEF Submission, NoPortLeft, SubmitOk, SubmitFails, SubmitLost, InsertOk,
             InsertConflicts, Rollback, RestartUpdate, RestartConflicts
    <2>3. QED
      BY <2>1, <2>2
  <1>4. ASSUME NEW t \in Workers, Handling(t) PROVE LeasesKept
    BY <1>4, HandlingShape, SameLeases
  <1>5. CASE Ticking
    BY <1>5, SameLeases DEF Ticking, Scan, ScanEnds, FlagExpired, ScanException, Claim,
       StartWorker
  <1>6. CASE \E u \in Users, p \in Ports : RegisterPort(u, p)
    BY <1>1, <1>6, SlurmAssumption DEF RegisterPort, LeasesKept
  <1>7. CASE \/ \E i \in RowIds : BecomesDue(i)
             \/ Crash
             \/ SlurmStep /\ UNCHANGED <<row, lastRow, lease, thread, todo>>
             \/ UNCHANGED vars
    BY <1>7, SameLeases DEF BecomesDue, Crash, vars
  <1>8. QED
    BY <1>2, <1>3, <1>4, <1>5, <1>6, <1>7 DEF Next

(* No lease is taken away from its holder by another user's handler: the   *)
(* one that deletes a lease works for the user who has it, whatever ports  *)
(* were released and registered again since the handler leased its own.    *)
THEOREM LeaseTakenCorrect == Spec => LeaseTakenByHolder
  <1>1. TypeOK /\ OwnerInv /\ [Next]_vars =>
          [\A p \in Ports : lease[p] \in Users /\ lease'[p] # lease[p] =>
              \E t \in Workers : /\ thread[t].user = lease[p] /\ thread[t].port = p
                                 /\ At(t, "unlease") \/ At(t, "unport")]_vars
    <2> SUFFICES ASSUME TypeOK, OwnerInv, [Next]_vars, NEW p \in Ports,
                        lease[p] \in Users, lease'[p] # lease[p]
                 PROVE  \E t \in Workers : /\ thread[t].user = lease[p]
                                           /\ thread[t].port = p
                                           /\ At(t, "unlease") \/ At(t, "unport")
      OBVIOUS
    <2>1. PICK t \in Workers : Unlease(t) \/ ReleasePort(t)
      BY LeasesStay DEF LeasesKept
    <2>2. (At(t, "unlease") \/ At(t, "unport")) /\ DelPort(t)
      BY <2>1 DEF Unlease, ReleasePort
    <2>3. thread[t].leased /\ thread[t].port = p
      BY <2>2 DEF DelPort, TypeOK
    <2>4. lease[p] = thread[t].user
      BY <2>3 DEF OwnerInv, ServesUser
    <2>5. QED
      BY <2>2, <2>3, <2>4
  <1>2. QED
    BY <1>1, TypeCorrect, OwnersCorrect, PTL DEF Spec, LeaseTakenByHolder

-----------------------------------------------------------------------------
(* The jobs of a resource belong to its owner                              *)

ActingSteps == RowSteps \cup {"flag_expired", "start"}

(* The job a row has, the job a thread has read or has submitted and the   *)
(* job the scan has listed were given out to the owner of the row, to the  *)
(* thread's user and to the owner of the listed row.                       *)
RowsOwned == \A i \in RowIds :
    Present(i) => row[i].job \in 1 .. lastJob /\ job[row[i].job].owner = row[i].owner
ListedOwned == \A x \in todo :
    /\ x.job \in 1 .. lastJob
    /\ Present(x.row) => job[x.job].owner = row[x.row].owner

OwnsJobs(l) ==
    /\ l.old # NoJob => l.old \in 1 .. lastJob /\ job[l.old].owner = l.user
    /\ l.step \in CarryingSteps => l.new \in 1 .. lastJob /\ job[l.new].owner = l.user
    /\ l.step \in ActingSteps \/ l.op = "restart" => l.row \in RowIds /\ l.old # NoJob

JobOwnersInv == RowsOwned /\ ListedOwned /\ \A t \in Workers : OwnsJobs(thread[t])

JobOwnersKept == /\ lastJob' \in Nat /\ lastJob' >= lastJob
                 /\ \A j \in 1 .. lastJob : job'[j].owner = job[j].owner

LEMMA SameJobOwners ==
    ASSUME TypeOK, UNCHANGED slurmVars PROVE JobOwnersKept
  BY DEF TypeOK, SlurmTypeOK, slurmVars, JobOwnersKept

LEMMA SbatchOwners ==
    ASSUME TypeOK, NEW u, NEW p, Sbatch(u, p)
    PROVE  /\ JobOwnersKept
           /\ NewJob \in 1 .. lastJob' /\ job'[NewJob].owner = u
           /\ NewJob \in 0 .. MaxJob
  BY SlurmAssumption DEF TypeOK, SlurmTypeOK, Sbatch, NewJob, JobOwnersKept, JobIds

LEMMA ScancelOwners ==
    ASSUME TypeOK, NEW u, NEW j, Scancel(u, j)
    PROVE  JobOwnersKept
  BY DEF TypeOK, SlurmTypeOK, Scancel, JobOwnersKept, JobIds, Job

LEMMA SlurmStepOwners ==
    ASSUME TypeOK, SlurmStep
    PROVE  JobOwnersKept
  <1>1. PICK j \in JobIds, s \in Phases : SetPhase(j, s)
    BY DEF SlurmStep, JobConfigures, JobStarts, JobEnds, JobCancelCompletes, JobRequeues,
           Phases, Queued, Up, Ended
  <1>2. QED
    BY <1>1 DEF TypeOK, SlurmTypeOK, SetPhase, JobOwnersKept, JobIds, Job

LEMMA OwnsKept ==
    ASSUME TypeOK, JobOwnersKept, NEW l, OwnsJobs(l)
    PROVE  OwnsJobs(l)'
  <1>1. lastJob \in Nat
    BY DEF TypeOK, SlurmTypeOK
  <1>2. l.old # NoJob => l.old \in 1 .. lastJob' /\ job'[l.old].owner = l.user
    BY <1>1 DEF OwnsJobs, JobOwnersKept
  <1>3. l.step \in CarryingSteps => l.new \in 1 .. lastJob' /\ job'[l.new].owner = l.user
    BY <1>1 DEF OwnsJobs, JobOwnersKept
  <1>4. QED
    BY <1>2, <1>3 DEF OwnsJobs

LEMMA IdleOwns == OwnsJobs(Idle)' /\ OwnsJobs(NextInScan)'
  BY DEF OwnsJobs, Idle, NextInScan, CarryingSteps, ActingSteps, RowSteps, NoJob

(* The common step: no row gets another job.                               *)
LEMMA JobOwnersStay ==
    ASSUME TypeOK, JobOwnersInv, CoreKept, JobOwnersKept, todo' \subseteq todo,
           \A w \in Workers :
               \/ thread'[w] \in {Idle, NextInScan}
               \/ \E l \in Locals : thread'[w] = l /\ (OwnsJobs(l) \/ OwnsJobs(l)')
    PROVE  JobOwnersInv'
  <1>1. lastJob \in Nat /\ \A x \in todo : x.row \in RowIds
    BY DEF TypeOK, SlurmTypeOK, Listed
  <1>2. RowsOwned'
    <2> SUFFICES ASSUME NEW i \in RowIds, Present(i)'
                 PROVE  row'[i].job \in 1 .. lastJob'
                        /\ job'[row'[i].job].owner = row'[i].owner
      BY DEF RowsOwned
    <2>1. Present(i) /\ row'[i].job = row[i].job /\ row'[i].owner = row[i].owner
      BY DEF CoreKept
    <2>2. QED
      BY <1>1, <2>1 DEF JobOwnersInv, RowsOwned, JobOwnersKept
  <1>3. ListedOwned'
    BY <1>1 DEF JobOwnersInv, ListedOwned, CoreKept, JobOwnersKept
  <1>4. ASSUME NEW w \in Workers PROVE OwnsJobs(thread[w])'
    <2>1. PICK l : l = thread'[w]
      OBVIOUS
    <2>2. OwnsJobs(l)'
      BY <2>1, IdleOwns, OwnsKept
    <2>3. QED
      BY <2>1, <2>2 DEF OwnsJobs
  <1>5. QED
    BY <1>2, <1>3, <1>4 DEF JobOwnersInv

LEMMA JobOwnersBecome ==
    ASSUME TypeOK, JobOwnersInv, CoreKept, JobOwnersKept, todo' \subseteq todo,
           NEW t \in Workers, NEW l \in Locals, Become(t, l),
           l \in {Idle, NextInScan} \/ OwnsJobs(l) \/ OwnsJobs(l)'
    PROVE  JobOwnersInv'
  <1>1. thread' = [thread EXCEPT ![t] = l] /\ thread \in [Workers -> Locals]
    BY DEF Become, TypeOK
  <1>2. \A w \in Workers : \/ thread'[w] = l
                           \/ thread'[w] = thread[w] /\ thread[w] \in Locals
                              /\ OwnsJobs(thread[w])
    BY <1>1 DEF JobOwnersInv
  <1>3. QED
    BY <1>2, JobOwnersStay

LEMMA JobOwnersFinish ==
    ASSUME TypeOK, JobOwnersInv, CoreKept, JobOwnersKept, todo' \subseteq todo,
           NEW t \in Workers, Finish(t)
    PROVE  JobOwnersInv'
  BY JobOwnersBecome, IdleType DEF Finish

LEMMA JobOwnersGoto ==
    ASSUME TypeOK, JobOwnersInv, CoreKept, JobOwnersKept, todo' \subseteq todo,
           NEW t \in Workers, NEW s \in Steps, Goto(t, s),
           s \in CarryingSteps => thread[t].step \in CarryingSteps,
           s \in ActingSteps => thread[t].step \in ActingSteps
    PROVE  JobOwnersInv'
  <1>1. PICK m \in Locals : m = thread[t]
    BY DEF TypeOK
  <1>2. PICK l : l = [m EXCEPT !.step = s]
    OBVIOUS
  <1>3. l \in Locals /\ Become(t, l)
    BY <1>1, <1>2 DEF Goto, Locals
  <1>4. OwnsJobs(l)
    BY <1>1, <1>2 DEF JobOwnersInv, OwnsJobs, Locals
  <1>5. QED
    BY <1>3, <1>4, JobOwnersBecome

LEMMA JobOwnersDelPort ==
    ASSUME TypeOK, JobOwnersInv, NEW t \in Workers, DelPort(t),
           UNCHANGED <<slurmVars, row, lastRow, todo>>
    PROVE  JobOwnersInv'
  <1>1. thread \in [Workers -> Locals]
    BY DEF TypeOK
  <1>2. ASSUME NEW w \in Workers
        PROVE  \/ thread'[w] \in {Idle, NextInScan}
               \/ \E l \in Locals : thread'[w] = l /\ (OwnsJobs(l) \/ OwnsJobs(l)')
    <2>1. PICK m \in Locals : m = thread[w]
      BY <1>1
    <2>2. thread'[w] \in {Idle, m, [m EXCEPT !.leased = FALSE]}
      BY <2>1 DEF DelPort
    <2>3. PICK l : l = [m EXCEPT !.leased = FALSE]
      OBVIOUS
    <2>4. l \in Locals /\ OwnsJobs(m) /\ OwnsJobs(l)
      BY <2>1, <2>3 DEF Locals, JobOwnersInv, OwnsJobs
    <2>5. QED
      BY <2>2, <2>3, <2>4
  <1>3. QED
    BY <1>2, SameCore, SameJobOwners, JobOwnersStay
LEMMA RequestJobOwners ==
    ASSUME TypeOK, JobOwnersInv, NEW t \in Threads, Request(t)
    PROVE  JobOwnersInv'
  <1>1. t \in Workers /\ Idle \in Locals
    BY IdleType DEF Workers
  <1>2. CoreKept /\ JobOwnersKept /\ todo' = todo
    BY SameCore, SameJobOwners
       DEF Request, BeginApply, BeginRestart, BeginStop, BeginDelete, BeginReconcile,
           BeginSave, BeginRelease, Begin
  <1>3. CASE BeginApply(t)
    <2>1. PICK u \in Users, n \in Names :
              Become(t, [Idle EXCEPT !.op = "apply", !.step = "alloc",
                                     !.user = u, !.name = n])
      BY <1>3 DEF BeginApply
    <2>2. PICK l : l = [Idle EXCEPT !.op = "apply", !.step = "alloc",
                                    !.user = u, !.name = n]
      OBVIOUS
    <2>3. l \in Locals
      BY <1>1, <2>2 DEF Locals, Steps, AllOps
    <2>4. OwnsJobs(l)
      BY <2>2 DEF OwnsJobs, Idle, NoJob, CarryingSteps, ActingSteps, RowSteps
    <2>5. QED
      BY <1>1, <1>2, <2>1, <2>2, <2>3, <2>4, JobOwnersBecome
  <1>4. ASSUME NEW i \in RowIds,
               BeginRestart(t, i) \/ BeginStop(t, i) \/ BeginDelete(t, i)
               \/ BeginReconcile(t, i) \/ BeginSave(t, i)
        PROVE  JobOwnersInv'
    <2>1. Present(i)
      BY <1>4 DEF BeginRestart, BeginStop, BeginDelete, BeginReconcile, BeginSave,
                  Terminal, Active, Present, ActiveStates
    <2>2. PICK o \in AllOps, s \in Steps \ CarryingSteps : Begin(t, o, i, s)
      BY <1>4 DEF BeginRestart, BeginStop, BeginDelete, BeginReconcile, BeginSave,
                  AllOps, Steps, CarryingSteps
    <2>3. PICK r \in Instance : r = row[i]
      BY DEF TypeOK
    <2>4. PICK f \in BOOLEAN : f = (o = "reconcile" /\ r.clock = "unset")
      OBVIOUS
    <2>5. PICK l : l = [Idle EXCEPT !.op = o, !.step = s, !.row = i, !.user = r.owner,
                                    !.old = r.job, !.fresh = f]
      OBVIOUS
    <2>6. Become(t, l)
      BY <2>2, <2>3, <2>4, <2>5 DEF Begin
    <2>7. i \in 0 .. MaxRow
      BY InstancesAssumption DEF RowIds
    <2>8. l \in Locals
      BY <1>1, <2>3, <2>5, <2>7 DEF Locals, Instance
    <2>9. l.row = i /\ l.user = r.owner /\ l.old = r.job /\ l.step = s
      BY <2>5 DEF Idle
    <2>10. OwnsJobs(l)
      BY <2>1, <2>3, <2>9 DEF OwnsJobs, JobOwnersInv, RowsOwned, NoJob
    <2>11. QED
      BY <1>1, <1>2, <2>6, <2>8, <2>10, JobOwnersBecome
  <1>5. ASSUME NEW p \in Ports, BeginRelease(t, p) PROVE JobOwnersInv'
    <2>1. PICK u \in Users : u = lease[p]
      BY <1>5 DEF BeginRelease
    <2>2. PICK l : l = [Idle EXCEPT !.op = "release", !.step = "unport", !.user = u,
                                    !.port = p, !.leased = TRUE]
      OBVIOUS
    <2>3. l \in Locals
      BY <1>1, <2>2 DEF Locals, Steps, AllOps
    <2>4. OwnsJobs(l)
      BY <2>2 DEF OwnsJobs, Idle, NoJob, CarryingSteps, ActingSteps, RowSteps
    <2>5. QED
      BY <1>1, <1>2, <1>5, <2>1, <2>2, <2>3, <2>4, JobOwnersBecome DEF BeginRelease
  <1>6. QED
    BY <1>3, <1>4, <1>5 DEF Request

(* The jobs stay with their owners through every handler of a row.         *)
LEMMA HandlingJobs ==
    ASSUME TypeOK, NEW t \in Workers, Handling(t)
    PROVE  JobOwnersKept
  <1>1. CASE Kill(t) \/ KillLost(t)
    BY <1>1, ScancelOwners DEF Kill, KillLost
  <1>2. CASE ~(Kill(t) \/ KillLost(t))
    BY <1>2, SameJobOwners DEF Handling, KillFindsEnded, KillFails, StopWrite, DeleteRow,
       Query, QueryFails, ReconcileLive, MarkStarted, ReconcileEnded, FlagSaving,
       ExportEnds, UnflagSaving, WorkerException, ExpiredWrite, ExpiredRelease, ReleasePort
  <1>3. QED
    BY <1>1, <1>2

LEMMA HandlingJobOwners ==
    ASSUME TypeOK, JobOwnersInv, NEW t \in Workers, Handling(t)
    PROVE  JobOwnersInv'
  <1>1. CASE ReleasePort(t)
    BY <1>1, JobOwnersDelPort DEF ReleasePort
  <1>2. CASE ~ReleasePort(t)
    <2>1. /\ thread[t].step \in RowSteps
          /\ Finish(t) \/ (t = Ticker /\ Become(t, NextInScan)) \/ GoesOn(t)
          /\ CoreKept /\ JobOwnersKept
          /\ UNCHANGED <<lastRow, lease, todo>>
      BY <1>2, HandlingShape, HandlingJobs
    <2>2. CASE Finish(t)
      BY <2>1, <2>2, JobOwnersFinish
    <2>3. CASE Become(t, NextInScan)
      BY <2>1, <2>3, JobOwnersBecome, NextInScanType
    <2>4. CASE GoesOn(t)
      <3>1. PICK s \in RowSteps, v \in StateCN :
                Become(t, [thread[t] EXCEPT !.step = s, !.seen = v])
        BY <2>4 DEF GoesOn
      <3>2. PICK m \in Locals : m = thread[t]
        BY DEF TypeOK
      <3>3. PICK l : l = [m EXCEPT !.step = s, !.seen = v]
        OBVIOUS
      <3>4. Become(t, l) /\ s \in Steps /\ s \notin CarryingSteps
        BY <3>1, <3>2, <3>3 DEF RowSteps, Steps, CarryingSteps
      <3>5. l \in Locals
        BY <3>3, <3>4 DEF Locals
      <3>6. l.old = m.old /\ l.user = m.user /\ l.row = m.row /\ l.step = s
        BY <3>3 DEF Locals
      <3>7. OwnsJobs(m) /\ m.step \in ActingSteps
        BY <2>1, <3>2 DEF JobOwnersInv, ActingSteps
      <3>8. OwnsJobs(l)
        BY <3>4, <3>6, <3>7 DEF OwnsJobs
      <3>9. QED
        BY <2>1, <3>4, <3>5, <3>8, JobOwnersBecome
    <2>5. QED
      BY <2>1, <2>2, <2>3, <2>4
  <1>3. QED
    BY <1>1, <1>2

(* A submission records the job of its user in a row of the same user.     *)
LEMMA JobOwnersRecord ==
    ASSUME TypeOK, OwnerInv, JobOwnersInv, NEW t \in Workers, Carrying(t), Finish(t),
           UNCHANGED <<slurmVars, todo>>,
           \A k \in RowIds : Present(k)' =>
               /\ k <= lastRow => Present(k) /\ row'[k].owner = row[k].owner
               /\ \/ Present(k) /\ row'[k] = row[k]
                  \/ row'[k].job = thread[t].new /\ row'[k].owner = thread[t].user
    PROVE  JobOwnersInv'
  <1>1. thread' = [thread EXCEPT ![t] = Idle] /\ thread \in [Workers -> Locals]
    BY DEF Finish, Become, TypeOK
  <1>2. thread[t].new \in 1 .. lastJob /\ job[thread[t].new].owner = thread[t].user
    BY DEF JobOwnersInv, OwnsJobs, Carrying, CarryingSteps
  <1>3. RowsOwned'
    BY <1>2 DEF JobOwnersInv, RowsOwned, slurmVars
  <1>4. \A x \in todo : x.row \in RowIds /\ x.row <= lastRow
    BY DEF OwnerInv, ListedIds, TypeOK, Listed
  <1>5. ListedOwned'
    BY <1>4 DEF JobOwnersInv, ListedOwned, slurmVars
  <1>6. ASSUME NEW w \in Workers PROVE OwnsJobs(thread[w])'
    <2>1. PICK l : l = thread'[w]
      OBVIOUS
    <2>2. l = Idle \/ OwnsJobs(l)
      BY <1>1, <2>1 DEF JobOwnersInv
    <2>3. OwnsJobs(l)'
      BY <2>2, IdleOwns, OwnsKept, SameJobOwners
    <2>4. QED
      BY <2>1, <2>3 DEF OwnsJobs
  <1>7. QED
    BY <1>3, <1>5, <1>6 DEF JobOwnersInv

LEMMA SubmissionJobOwners ==
    ASSUME TypeOK, OwnerInv, JobOwnersInv, NEW t \in Workers, Submission(t)
    PROVE  JobOwnersInv'
  <1>1. PICK m \in Locals : m = thread[t]
    BY DEF TypeOK
  <1>2. /\ OwnsJobs(m) /\ Idle \in Locals
        /\ {"submit", "unlease", "insert", "update", "rollback"} \subseteq Steps
        /\ {"unlease", "submit"} \cap (CarryingSteps \cup ActingSteps) = {}
        /\ CarryingSteps \cap ActingSteps = {}
    BY <1>1, IdleType DEF JobOwnersInv, Steps, CarryingSteps, ActingSteps, RowSteps
  <1> USE DEF At
  <1>3. CASE AllocPort(t)
    <2>1. PICK p \in Ports :
            Become(t, [m EXCEPT !.step = "submit", !.port = p, !.leased = TRUE])
      BY <1>1, <1>3 DEF AllocPort
    <2>2. PICK l : l = [m EXCEPT !.step = "submit", !.port = p, !.leased = TRUE]
      OBVIOUS
    <2>3. l \in Locals
      BY <1>2, <2>2 DEF Locals
    <2>4. OwnsJobs(l)
      BY <1>2, <2>2 DEF OwnsJobs, Locals
    <2>5. QED
      BY <1>3, <2>1, <2>2, <2>3, <2>4, JobOwnersBecome, SameCore, SameJobOwners
         DEF AllocPort
  <1>4. CASE NoPortLeft(t)
    BY <1>4, JobOwnersFinish, SameCore, SameJobOwners DEF NoPortLeft
  <1>5. CASE Unlease(t)
    BY <1>5, JobOwnersDelPort DEF Unlease
  <1>6. CASE SubmitOk(t)
    <2>1. PICK s \in {"insert", "update"} : s = IF m.op = "apply" THEN "insert" ELSE "update"
      OBVIOUS
    <2>2. PICK n : n = NewJob
      OBVIOUS
    <2>3. /\ JobOwnersKept /\ n \in 1 .. lastJob' /\ job'[n].owner = m.user
          /\ n \in 0 .. MaxJob
      BY <1>1, <1>6, <2>2, SbatchOwners DEF SubmitOk
    <2>4. PICK l : l = [m EXCEPT !.new = n, !.step = s]
      OBVIOUS
    <2>5. Become(t, l)
      BY <1>1, <1>6, <2>1, <2>2, <2>4 DEF SubmitOk
    <2>6. l \in Locals
      BY <1>2, <2>1, <2>3, <2>4 DEF Locals
    <2>7. /\ l.old = m.old /\ l.user = m.user /\ l.row = m.row /\ l.op = m.op
          /\ l.new = n /\ l.step = s
      BY <2>4 DEF Locals
    <2>8. s \in CarryingSteps /\ s \notin ActingSteps
      BY <2>1 DEF CarryingSteps, ActingSteps, RowSteps
    <2>9. OwnsJobs(m)'
      BY <1>2, <2>3, OwnsKept
    <2>10. OwnsJobs(l)'
      BY <2>3, <2>7, <2>8, <2>9 DEF OwnsJobs
    <2>11. QED
      BY <1>6, <2>3, <2>5, <2>6, <2>10, JobOwnersBecome, SameCore DEF SubmitOk
  <1>7. CASE SubmitFails(t)
    BY <1>2, <1>7, JobOwnersGoto, SameCore, SameJobOwners DEF SubmitFails
  <1>8. CASE SubmitLost(t)
    BY <1>2, <1>8, JobOwnersGoto, SameCore, SbatchOwners DEF SubmitLost
  <1>9. CASE InsertConflicts(t)
    <2>1. thread[t].step \in CarryingSteps /\ "rollback" \notin ActingSteps
      BY <1>9 DEF InsertConflicts, CarryingSteps, ActingSteps, RowSteps
    <2>2. QED
      BY <1>2, <1>9, <2>1, JobOwnersGoto, SameCore, SameJobOwners DEF InsertConflicts
  <1>10. CASE Rollback(t)
    <2>1. PICK l : l = [m EXCEPT !.step = "unlease", !.new = NoJob]
      OBVIOUS
    <2>2. Become(t, l) /\ NoJob \in 0 .. MaxJob
      BY <1>1, <1>10, <2>1, SlurmAssumption DEF Rollback, NoJob
    <2>3. l \in Locals
      BY <1>2, <2>1, <2>2 DEF Locals
    <2>4. OwnsJobs(l)
      BY <1>2, <2>1 DEF OwnsJobs, Locals
    <2>5. JobOwnersKept
      BY <1>10, ScancelOwners, SameJobOwners DEF Rollback
    <2>6. QED
      BY <1>10, <2>2, <2>3, <2>4, <2>5, JobOwnersBecome, SameCore DEF Rollback
  <1>11. CASE RestartUpdate(t)
    <2>1. Carrying(t)
      BY <1>11 DEF RestartUpdate, Carrying
    <2>2. \A k \in RowIds : Present(k)' =>
              /\ Present(k) /\ row'[k].owner = row[k].owner
              /\ row'[k] = row[k] \/ (k = m.row /\ row'[k].job = m.new)
      <3> SUFFICES ASSUME NEW k \in RowIds, Present(k)'
                   PROVE  /\ Present(k) /\ row'[k].owner = row[k].owner
                          /\ row'[k] = row[k] \/ (k = m.row /\ row'[k].job = m.new)
        OBVIOUS
      <3>1. PICK r \in Instance : r = row[k]
        BY DEF TypeOK
      <3>2. \/ row'[k] = r
            \/ /\ k = m.row /\ Present(k)
               /\ row'[k] = [r EXCEPT !.state = "PENDING", !.job = m.new, !.port = m.port,
                                      !.clock = "unset", !.claimed = FALSE]
        BY <1>1, <1>11, <3>1 DEF RestartUpdate, Update, TypeOK
      <3>3. CASE row'[k] = r
        BY <3>1, <3>3 DEF Present
      <3>4. CASE row'[k] # r
        <4>1. PICK n, p : n = m.new /\ p = m.port
          OBVIOUS
        <4>2. /\ k = m.row /\ Present(k)
              /\ row'[k] = [r EXCEPT !.state = "PENDING", !.job = n, !.port = p,
                                     !.clock = "unset", !.claimed = FALSE]
          BY <3>2, <3>4, <4>1
        <4>3. row'[k].owner = r.owner /\ row'[k].job = n
          BY <4>2 DEF Instance
        <4>4. QED
          BY <3>1, <4>1, <4>2, <4>3
      <3>5. QED
        BY <3>3, <3>4
    <2>3. \A k \in RowIds : Present(k) /\ k = m.row => row[k].owner = m.user
      BY <1>1 DEF OwnerInv, ServesUser, RowIds, NoRow
    <2>4. QED
      BY <1>1, <1>11, <2>1, <2>2, <2>3, JobOwnersRecord DEF RestartUpdate
  <1>12. CASE InsertOk(t)
    <2>1. Carrying(t) /\ lastRow \in Nat /\ NewRow = lastRow + 1
      BY <1>12 DEF InsertOk, NewRow, TypeOK, Carrying
    <2>2. /\ row'[NewRow].owner = m.user /\ row'[NewRow].job = m.new
          /\ \A k \in RowIds \ {NewRow} : row'[k] = row[k]
      BY <1>1, <1>12 DEF InsertOk, TypeOK, NoInstance
    <2>3. \A k \in RowIds : Present(k)' =>
              \/ k # NewRow /\ Present(k) /\ row'[k] = row[k]
              \/ k = NewRow /\ row'[k].job = m.new /\ row'[k].owner = m.user
      BY <2>2 DEF Present
    <2>4. \A k \in RowIds : k <= lastRow => k # NewRow
      BY <2>1 DEF RowIds
    <2>5. Finish(t) /\ UNCHANGED <<slurmVars, todo>>
      BY <1>12 DEF InsertOk
    <2>6. QED
      BY <1>1, <2>1, <2>3, <2>4, <2>5, JobOwnersRecord
  <1>13. CASE RestartConflicts(t)
    BY <1>13, JobOwnersFinish, SameCore, SameJobOwners DEF RestartConflicts
  <1>14. QED
    BY <1>3, <1>4, <1>5, <1>6, <1>7, <1>8, <1>9, <1>10, <1>11, <1>12, <1>13 DEF Submission
LEMMA TickingJobOwners ==
    ASSUME TypeOK, OwnerInv, JobOwnersInv, Ticking
    PROVE  JobOwnersInv'
  <1>1. /\ Ticker \in Workers /\ thread \in [Workers -> Locals]
        /\ row \in [RowIds -> Instance]
        /\ NextInScan \in Locals /\ Idle \in Locals
    BY IdleType, NextInScanType DEF Workers, TypeOK
  <1>2. /\ {"kill", "start", "export", "flag_expired"} \subseteq Steps \cap ActingSteps
        /\ {"kill", "start", "export", "flag_expired"} \cap CarryingSteps = {}
    BY DEF Steps, CarryingSteps, ActingSteps, RowSteps
  <1>3. JobOwnersKept
    BY SameJobOwners DEF Ticking, Scan, ScanEnds, FlagExpired, ScanException, Claim,
       StartWorker
  <1> USE DEF At
  <1>4. CASE Scan
    <2>1. thread' = [thread EXCEPT ![Ticker] = NextInScan] /\ row' = row /\ lastJob' = lastJob
          /\ job' = job
      BY <1>4 DEF Scan, Become, slurmVars
    <2>2. ListedOwned'
      BY <1>4, <2>1 DEF Scan, Expired, ListedOwned, JobOwnersInv, RowsOwned, Present
    <2>3. RowsOwned'
      BY <2>1 DEF JobOwnersInv, RowsOwned, Present
    <2>4. ASSUME NEW w \in Workers PROVE OwnsJobs(thread[w])'
      <3>1. PICK l : l = thread'[w]
        OBVIOUS
      <3>2. l = NextInScan \/ OwnsJobs(l)
        BY <1>1, <2>1, <3>1 DEF JobOwnersInv
      <3>3. OwnsJobs(l)'
        BY <1>3, <3>2, IdleOwns, OwnsKept
      <3>4. QED
        BY <3>1, <3>3 DEF OwnsJobs
    <2>5. QED
      BY <2>2, <2>3, <2>4 DEF JobOwnersInv
  <1>5. CASE ScanEnds \/ ScanException
    BY <1>1, <1>3, <1>5, JobOwnersFinish, SameCore DEF ScanEnds, ScanException
  <1>6. CASE FlagExpired
    <2>1. CoreKept
      BY <1>1, <1>6, SetSavingKeepsCore DEF FlagExpired
    <2>2. QED
      BY <1>1, <1>2, <1>3, <1>6, <2>1, JobOwnersGoto DEF FlagExpired
  <1>7. ASSUME NEW x \in todo, Claim(x) PROVE JobOwnersInv'
    <2>1. x.row \in RowIds /\ x.row \in 0 .. MaxRow /\ x.job \in 0 .. MaxJob
      BY InstancesAssumption DEF TypeOK, Listed, RowIds
    <2>2. CoreKept /\ todo' \subseteq todo
      BY <1>1, <1>7, <2>1, SameCore DEF Claim, CoreKept, Present, Instance
    <2>3. CASE thread' = thread
      <3>1. \A w \in Workers : thread'[w] = thread[w] /\ thread[w] \in Locals
                               /\ OwnsJobs(thread[w])
        BY <1>1, <2>3 DEF JobOwnersInv
      <3>2. QED
        BY <1>3, <2>2, <3>1, JobOwnersStay
    <2>4. CASE thread' # thread
      <3>1. Present(x.row)
        BY <1>7, <2>4 DEF Claim
      <3>2. PICK u \in Users : u = row[x.row].owner
        BY <2>1, <3>1 DEF OwnerInv, UnusedIds
      <3>3. PICK l : l = [NextInScan EXCEPT !.step = "flag_expired", !.row = x.row,
                                            !.old = x.job, !.user = u]
        OBVIOUS
      <3>4. Become(Ticker, l)
        BY <1>7, <2>4, <3>2, <3>3 DEF Claim
      <3>5. l \in Locals
        BY <1>1, <1>2, <2>1, <3>3 DEF Locals
      <3>6. l.row = x.row /\ l.user = u /\ l.old = x.job /\ l.step = "flag_expired"
        BY <3>3 DEF NextInScan, Idle
      <3>7. x.job \in 1 .. lastJob /\ job[x.job].owner = u
        BY <3>1, <3>2 DEF JobOwnersInv, ListedOwned
      <3>8. OwnsJobs(l)
        BY <1>2, <2>1, <3>6, <3>7 DEF OwnsJobs, NoJob
      <3>9. QED
        BY <1>1, <1>3, <2>2, <3>4, <3>5, <3>8, JobOwnersBecome
    <2>5. QED
      BY <2>3, <2>4
  <1>8. ASSUME NEW t \in Threads, StartWorker(t) PROVE JobOwnersInv'
    <2>1. PICK m \in Locals : m = thread[Ticker]
      BY <1>1
    <2>2. PICK l : l = [m EXCEPT !.step = "export"]
      OBVIOUS
    <2>3. l \in Locals
      BY <1>2, <2>2 DEF Locals
    <2>4. m.step \in ActingSteps
      BY <1>2, <1>8, <2>1 DEF StartWorker
    <2>5. OwnsJobs(l)
      BY <1>1, <1>2, <2>1, <2>2, <2>4 DEF JobOwnersInv, OwnsJobs, Locals
    <2>6. \A w \in Workers : \/ thread'[w] \in {l, NextInScan}
                             \/ thread'[w] = thread[w] /\ thread[w] \in Locals
                                /\ OwnsJobs(thread[w])
      BY <1>1, <1>8, <2>1, <2>2 DEF StartWorker, JobOwnersInv
    <2>7. CoreKept /\ todo' = todo
      BY <1>8, SameCore DEF StartWorker
    <2>8. QED
      BY <1>3, <2>3, <2>5, <2>6, <2>7, JobOwnersStay
  <1>9. QED
    BY <1>4, <1>5, <1>6, <1>7, <1>8 DEF Ticking

LEMMA JobOwnersElsewhere ==
    ASSUME TypeOK, JobOwnersInv, CoreKept, JobOwnersKept, UNCHANGED <<thread, todo>>
    PROVE  JobOwnersInv'
  <1>1. \A w \in Workers : thread'[w] = thread[w] /\ thread[w] \in Locals
                           /\ OwnsJobs(thread[w])
    BY DEF JobOwnersInv, TypeOK
  <1>2. QED
    BY <1>1, JobOwnersStay

(* Every job a handler cancels, queries or records is a job of the user    *)
(* whose resource it works on, so that the root helper, which checks the   *)
(* owner before it cancels, never refuses for that reason.                 *)
THEOREM JobOwnersCorrect == Spec => []JobOwnersInv
  <1>1. Init => JobOwnersInv
    BY DEF Init, JobOwnersInv, RowsOwned, ListedOwned, OwnsJobs, Present, NoInstance, Idle,
           CarryingSteps, ActingSteps, RowSteps
  <1>2. TypeOK /\ OwnerInv /\ JobOwnersInv /\ [Next]_vars => JobOwnersInv'
    <2> SUFFICES ASSUME TypeOK, OwnerInv, JobOwnersInv, [Next]_vars PROVE JobOwnersInv'
      OBVIOUS
    <2>1. CASE \E t \in Threads : Request(t)
      BY <2>1, RequestJobOwners
    <2>2. CASE \E t \in Workers : Submission(t) \/ Handling(t)
      BY <2>2, SubmissionJobOwners, HandlingJobOwners
    <2>3. CASE Ticking
      BY <2>3, TickingJobOwners
    <2>4. CASE \E u \in Users, p \in Ports : RegisterPort(u, p)
      BY <2>4, SameCore, SameJobOwners, JobOwnersElsewhere DEF RegisterPort
    <2>5. ASSUME NEW i \in RowIds, BecomesDue(i) PROVE JobOwnersInv'
      <3>1. CoreKept
        BY <2>5 DEF BecomesDue, CoreKept, Present, TypeOK, Instance
      <3>2. QED
        BY <2>5, <3>1, SameJobOwners, JobOwnersElsewhere DEF BecomesDue
    <2>6. CASE Crash
      BY <2>6, SameCore, SameJobOwners, JobOwnersStay DEF Crash
    <2>7. CASE SlurmStep /\ UNCHANGED <<row, lastRow, lease, thread, todo>>
      BY <2>7, SameCore, SlurmStepOwners, JobOwnersElsewhere
    <2>8. CASE UNCHANGED vars
      BY <2>8, SameCore, SameJobOwners, JobOwnersElsewhere DEF vars
    <2>9. QED
      BY <2>1, <2>2, <2>3, <2>4, <2>5, <2>6, <2>7, <2>8 DEF Next
  <1>3. QED
    BY <1>1, <1>2, TypeCorrect, OwnersCorrect, PTL DEF Spec

-----------------------------------------------------------------------------
(* The port of a resource stays leased to its owner                        *)

HoldingSteps == {"submit", "insert", "update", "rollback", "unlease"}
Holds(t) == thread[t].step \in HoldingSteps

(* A submission holds the lease it took until it is over, and no other     *)
(* submission and no row has the same port; the port of a row, active or   *)
(* not, is leased to the owner of the row.  Nobody releases a port.        *)
HeldLeased == \A t \in Workers : Holds(t) => thread[t].leased
HeldOnce == \A s, t \in Workers :
                s # t /\ Holds(s) /\ Holds(t) => thread[s].port # thread[t].port
HeldUnused == \A t \in Workers, i \in RowIds :
                  Holds(t) /\ Present(i) => row[i].port # thread[t].port
RowsLeased == \A i \in RowIds :
                  Present(i) => row[i].port \in Ports /\ lease[row[i].port] = row[i].owner
NobodyReleases == \A t \in Workers : ~At(t, "unport")

PortsInv == HeldLeased /\ HeldOnce /\ HeldUnused /\ RowsLeased /\ NobodyReleases

(* No thread begins to hold a port, none that goes on lets it go, ...      *)
HoldersKept == \A w \in Workers :
    /\ thread'[w].step # "unport"
    /\ Holds(w)' => /\ Holds(w)
                    /\ thread'[w].port = thread[w].port
                    /\ thread'[w].leased = thread[w].leased

(* ... or forgets the job it carries.                                      *)
CarriersKept == \A w \in Workers :
    Holds(w)' /\ Carrying(w) => Carrying(w)' /\ thread'[w].new = thread[w].new

Undisturbed == CoreKept /\ LeasesKept /\ HoldersKept /\ CarriersKept

LEMMA PortsKept ==
    ASSUME TypeOK, OwnerInv, PortsInv, CoreKept, LeasesKept, HoldersKept
    PROVE  PortsInv'
  <1>1. HeldLeased' /\ HeldOnce'
    BY DEF PortsInv, HeldLeased, HeldOnce, HoldersKept
  <1>2. HeldUnused'
    BY DEF PortsInv, HeldUnused, HoldersKept, CoreKept
  <1>3. RowsLeased'
    <2> SUFFICES ASSUME NEW i \in RowIds, Present(i)'
                 PROVE  row'[i].port \in Ports /\ lease'[row'[i].port] = row'[i].owner
      BY DEF RowsLeased
    <2>1. Present(i) /\ row'[i].owner = row[i].owner /\ row'[i].port = row[i].port
      BY DEF CoreKept
    <2>2. row[i].port \in Ports /\ lease[row[i].port] = row[i].owner /\ row[i].owner \in Users
      BY <2>1 DEF PortsInv, RowsLeased, OwnerInv, UnusedIds
    <2>3. QED
      BY <2>1, <2>2 DEF LeasesKept
  <1>4. NobodyReleases'
    BY DEF NobodyReleases, At, HoldersKept
  <1>5. QED
    BY <1>1, <1>2, <1>3, <1>4 DEF PortsInv

(* A thread that goes on with locals l and keeps what it holds.            *)
LEMMA HoldersBecome ==
    ASSUME TypeOK, PortsInv, NEW t \in Workers, NEW l, Become(t, l), l.step # "unport",
           \/ l.step \notin HoldingSteps
           \/ /\ Holds(t) /\ l.port = thread[t].port /\ l.leased = thread[t].leased
              /\ Carrying(t) => l.step \in CarryingSteps /\ l.new = thread[t].new
    PROVE  HoldersKept /\ CarriersKept
  <1>1. thread' = [thread EXCEPT ![t] = l] /\ thread \in [Workers -> Locals]
    BY DEF Become, TypeOK
  <1>2. HoldersKept
    BY <1>1 DEF HoldersKept, Holds, PortsInv, NobodyReleases, At
  <1>3. CarriersKept
    BY <1>1 DEF CarriersKept, Holds, Carrying, CarryingSteps
  <1>4. QED
    BY <1>2, <1>3

LEMMA HoldersFinish ==
    ASSUME TypeOK, PortsInv, NEW t \in Workers, Finish(t)
    PROVE  HoldersKept /\ CarriersKept
  <1>1. Idle.step = "idle"
    BY DEF Idle
  <1>2. QED
    BY <1>1, HoldersBecome DEF Finish, HoldingSteps

LEMMA HoldersGoto ==
    ASSUME TypeOK, PortsInv, NEW t \in Workers, NEW s, Goto(t, s), s # "unport",
           s \notin HoldingSteps \/ (Holds(t) /\ (Carrying(t) => s \in CarryingSteps))
    PROVE  HoldersKept /\ CarriersKept
  <1>1. PICK m \in Locals : m = thread[t]
    BY DEF TypeOK
  <1>2. PICK l : l = [m EXCEPT !.step = s]
    OBVIOUS
  <1>3. /\ Become(t, l) /\ l.step = s /\ l.port = m.port /\ l.leased = m.leased
        /\ l.new = m.new
    BY <1>1, <1>2 DEF Goto, Locals
  <1>4. QED
    BY <1>1, <1>3, HoldersBecome

LEMMA RequestUndisturbed ==
    ASSUME "release" \notin Ops, TypeOK, PortsInv, NEW t \in Threads, Request(t)
    PROVE  Undisturbed
  <1>1. t \in Workers
    BY DEF Workers
  <1>2. CoreKept /\ LeasesKept
    BY SameCore, SameLeases
       DEF Request, BeginApply, BeginRestart, BeginStop, BeginDelete, BeginReconcile,
           BeginSave, BeginRelease, Begin
  <1>3. CASE BeginApply(t)
    <2>1. PICK u \in Users, n \in Names :
              Become(t, [Idle EXCEPT !.op = "apply", !.step = "alloc",
                                     !.user = u, !.name = n])
      BY <1>3 DEF BeginApply
    <2>2. PICK l : l = [Idle EXCEPT !.op = "apply", !.step = "alloc",
                                    !.user = u, !.name = n]
      OBVIOUS
    <2>3. Become(t, l) /\ l.step = "alloc"
      BY <2>1, <2>2 DEF Idle
    <2>4. QED
      BY <1>1, <1>2, <2>3, HoldersBecome DEF Undisturbed, HoldingSteps
  <1>4. ASSUME NEW i \in RowIds,
               BeginRestart(t, i) \/ BeginStop(t, i) \/ BeginDelete(t, i)
               \/ BeginReconcile(t, i) \/ BeginSave(t, i)
        PROVE  Undisturbed
    <2>1. PICK o \in AllOps, s \in {"alloc", "kill", "rmlog", "query", "flag"} :
              Begin(t, o, i, s)
      BY <1>4 DEF BeginRestart, BeginStop, BeginDelete, BeginReconcile, BeginSave, AllOps
    <2>2. PICK u, j, f : u = row[i].owner /\ j = row[i].job
                         /\ f = (o = "reconcile" /\ row[i].clock = "unset")
      OBVIOUS
    <2>3. PICK l : l = [Idle EXCEPT !.op = o, !.step = s, !.row = i, !.user = u,
                                    !.old = j, !.fresh = f]
      OBVIOUS
    <2>4. Become(t, l) /\ l.step = s
      BY <2>1, <2>2, <2>3 DEF Begin, Idle
    <2>5. QED
      BY <1>1, <1>2, <2>4, HoldersBecome DEF Undisturbed, HoldingSteps
  <1>5. QED
    BY <1>3, <1>4 DEF Request, BeginRelease

LEMMA HandlingUndisturbed ==
    ASSUME TypeOK, PortsInv, NEW t \in Workers, Handling(t)
    PROVE  Undisturbed
  <1>1. ~ReleasePort(t)
    BY DEF ReleasePort, PortsInv, NobodyReleases
  <1>2. /\ Finish(t) \/ (t = Ticker /\ Become(t, NextInScan)) \/ GoesOn(t)
        /\ CoreKept /\ LeasesKept
    BY <1>1, HandlingShape, SameLeases
  <1>3. CASE Finish(t)
    BY <1>2, <1>3, HoldersFinish DEF Undisturbed
  <1>4. CASE Become(t, NextInScan)
    <2>1. NextInScan.step = "claim"
      BY DEF NextInScan, Idle
    <2>2. QED
      BY <1>2, <1>4, <2>1, HoldersBecome DEF Undisturbed, HoldingSteps
  <1>5. CASE GoesOn(t)
    <2>1. PICK s \in RowSteps, v \in StateCN :
              Become(t, [thread[t] EXCEPT !.step = s, !.seen = v])
      BY <1>5 DEF GoesOn
    <2>2. PICK m \in Locals : m = thread[t]
      BY DEF TypeOK
    <2>3. PICK l : l = [m EXCEPT !.step = s, !.seen = v]
      OBVIOUS
    <2>4. Become(t, l) /\ l.step = s
      BY <2>1, <2>2, <2>3 DEF Locals
    <2>5. l.step \notin HoldingSteps /\ l.step # "unport"
      BY <2>4 DEF RowSteps, HoldingSteps
    <2>6. QED
      BY <1>2, <2>4, <2>5, HoldersBecome DEF Undisturbed
  <1>6. QED
    BY <1>2, <1>3, <1>4, <1>5

LEMMA TickingUndisturbed ==
    ASSUME TypeOK, PortsInv, Ticking
    PROVE  Undisturbed
  <1>1. /\ Ticker \in Workers /\ Threads \subseteq Workers
        /\ thread \in [Workers -> Locals] /\ row \in [RowIds -> Instance]
        /\ NextInScan.step = "claim"
    BY DEF Workers, TypeOK, NextInScan, Idle
  <1>2. LeasesKept
    BY SameLeases DEF Ticking, Scan, ScanEnds, FlagExpired, ScanException, Claim, StartWorker
  <1>3. CASE Scan
    BY <1>1, <1>2, <1>3, SameCore, HoldersBecome DEF Undisturbed, Scan, HoldingSteps
  <1>4. CASE ScanEnds \/ ScanException
    BY <1>1, <1>2, <1>4, SameCore, HoldersFinish DEF Undisturbed, ScanEnds, ScanException
  <1>5. CASE FlagExpired
    BY <1>1, <1>2, <1>5, SetSavingKeepsCore, HoldersGoto
       DEF Undisturbed, FlagExpired, HoldingSteps
  <1>6. ASSUME NEW x \in todo, Claim(x) PROVE Undisturbed
    <2>1. CoreKept
      BY <1>1, <1>6, SameCore DEF Claim, CoreKept, Present, Instance
    <2>2. CASE thread' = thread
      BY <1>2, <2>1, <2>2
         DEF Undisturbed, HoldersKept, CarriersKept, Holds, Carrying, PortsInv,
             NobodyReleases, At
    <2>3. CASE thread' # thread
      <3>1. PICK u : u = row[x.row].owner
        OBVIOUS
      <3>2. PICK l : l = [NextInScan EXCEPT !.step = "flag_expired", !.row = x.row,
                                            !.old = x.job, !.user = u]
        OBVIOUS
      <3>3. Become(Ticker, l) /\ l.step = "flag_expired"
        BY <1>6, <2>3, <3>1, <3>2 DEF Claim, NextInScan, Idle
      <3>4. QED
        BY <1>1, <1>2, <2>1, <3>3, HoldersBecome DEF Undisturbed, HoldingSteps
    <2>4. QED
      BY <2>2, <2>3
  <1>7. ASSUME NEW t \in Threads, StartWorker(t) PROVE Undisturbed
    <2>1. \A w \in Workers : \/ thread'[w] = thread[w]
                             \/ thread'[w].step \in {"export", "claim"}
      BY <1>1, <1>7 DEF StartWorker, Locals
    <2>2. HoldersKept /\ CarriersKept
      BY <2>1 DEF HoldersKept, CarriersKept, Holds, HoldingSteps, Carrying, PortsInv,
                  NobodyReleases, At
    <2>3. QED
      BY <1>2, <1>7, <2>2, SameCore DEF StartWorker, Undisturbed
  <1>8. QED
    BY <1>3, <1>4, <1>5, <1>6, <1>7 DEF Ticking

(* A free port is the port of no row and of no other submission.           *)
LEMMA AllocPorts ==
    ASSUME TypeOK, OwnerInv, PortsInv, NEW t \in Workers, AllocPort(t)
    PROVE  PortsInv'
  <1>1. PICK m \in Locals : m = thread[t]
    BY DEF TypeOK
  <1>2. PICK p \in Ports :
          /\ FreePort(p)
          /\ lease' = [lease EXCEPT ![p] = m.user]
          /\ Become(t, [m EXCEPT !.step = "submit", !.port = p, !.leased = TRUE])
    BY <1>1 DEF AllocPort
  <1>3. PICK l : l = [m EXCEPT !.step = "submit", !.port = p, !.leased = TRUE]
    OBVIOUS
  <1>4. l.step = "submit" /\ l.port = p /\ l.leased = TRUE
    BY <1>3 DEF Locals
  <1>5. \A w \in Workers : \/ w = t /\ thread'[w] = l
                           \/ w # t /\ thread'[w] = thread[w]
    BY <1>2, <1>3 DEF Become, TypeOK
  <1>6. lease[p] = NoUser /\ lease[p] \notin Users /\ row' = row
    BY <1>2, SlurmAssumption DEF FreePort, AllocPort
  <1>7. \A q \in Ports : q # p => lease'[q] = lease[q]
    BY <1>2 DEF TypeOK
  <1>8. \A w \in Workers : Holds(w) => thread[w].port # p
    BY <1>6 DEF PortsInv, HeldLeased, OwnerInv, ServesUser
  <1>9. \A i \in RowIds : Present(i) => row[i].port # p
    BY <1>6 DEF PortsInv, RowsLeased, OwnerInv, UnusedIds
  <1>10. HeldLeased' /\ HeldOnce'
    BY <1>4, <1>5, <1>8 DEF PortsInv, HeldLeased, HeldOnce, Holds
  <1>11. HeldUnused'
    BY <1>4, <1>5, <1>6, <1>9 DEF PortsInv, HeldUnused, Holds, Present
  <1>12. RowsLeased'
    BY <1>6, <1>7, <1>9 DEF PortsInv, RowsLeased, Present
  <1>13. NobodyReleases'
    BY <1>4, <1>5 DEF PortsInv, NobodyReleases, At
  <1>14. QED
    BY <1>10, <1>11, <1>12, <1>13 DEF PortsInv

(* Giving back a lease ends the submission and leaves the others alone.    *)
LEMMA UnleaseThreads ==
    ASSUME TypeOK, PortsInv, NEW t \in Workers, Unlease(t)
    PROVE  \A w \in Workers : \/ thread'[w].step = "idle"
                             \/ /\ thread'[w].step = thread[w].step
                                /\ thread'[w].port = thread[w].port
                                /\ w # t
                                /\ Holds(w) => thread'[w] = thread[w]
  <1>1. Holds(t) /\ DelPort(t) /\ thread \in [Workers -> Locals]
    BY DEF Unlease, At, Holds, HoldingSteps, TypeOK
  <1>2. \A w \in Workers : w # t /\ Holds(w) => thread[w].port # thread[t].port
    BY <1>1 DEF PortsInv, HeldOnce
  <1> SUFFICES ASSUME NEW w \in Workers, w # t
               PROVE  /\ thread'[w].step = thread[w].step
                      /\ thread'[w].port = thread[w].port
                      /\ Holds(w) => thread'[w] = thread[w]
    BY <1>1 DEF DelPort, Idle
  <1>3. PICK m \in Locals : m = thread[w]
    BY <1>1
  <1>4. thread'[w] \in {m, [m EXCEPT !.leased = FALSE]}
    BY <1>1, <1>3 DEF DelPort
  <1>5. [m EXCEPT !.leased = FALSE].step = m.step /\ [m EXCEPT !.leased = FALSE].port = m.port
    BY DEF Locals
  <1>6. Holds(w) => thread'[w] = thread[w]
    BY <1>1, <1>2 DEF DelPort
  <1>7. QED
    BY <1>3, <1>4, <1>5, <1>6

(* The lease given back is the lease of no row and of no other submission. *)
LEMMA UnleasePorts ==
    ASSUME TypeOK, OwnerInv, PortsInv, NEW t \in Workers, Unlease(t)
    PROVE  PortsInv'
  <1>1. /\ Holds(t) /\ thread[t].leased /\ DelPort(t) /\ row' = row
        /\ thread \in [Workers -> Locals] /\ lease \in [Ports -> Users \cup {NoUser}]
    BY DEF Unlease, At, Holds, HoldingSteps, PortsInv, HeldLeased, TypeOK
  <1>3. \A w \in Workers : \/ thread'[w].step = "idle"
                           \/ /\ thread'[w].step = thread[w].step
                              /\ thread'[w].port = thread[w].port
                              /\ w # t
                              /\ Holds(w) => thread'[w] = thread[w]
    BY UnleaseThreads
  <1>4. \A q \in Ports : q # thread[t].port => lease'[q] = lease[q]
    BY <1>1 DEF DelPort
  <1>5. HeldLeased' /\ HeldOnce'
    BY <1>3 DEF PortsInv, HeldLeased, HeldOnce, Holds, HoldingSteps
  <1>6. HeldUnused'
    BY <1>1, <1>3 DEF PortsInv, HeldUnused, Holds, HoldingSteps, Present
  <1>7. RowsLeased'
    BY <1>1, <1>4 DEF PortsInv, RowsLeased, HeldUnused, Present
  <1>8. NobodyReleases'
    BY <1>3 DEF PortsInv, NobodyReleases, At
  <1>9. QED
    BY <1>5, <1>6, <1>7, <1>8 DEF PortsInv

(* A submission hands its port over to the row it records its job in.      *)
LEMMA RecordPorts ==
    ASSUME TypeOK, OwnerInv, PortsInv, NEW t \in Workers, Carrying(t), Finish(t),
           lease' = lease,
           \A k \in RowIds : Present(k)' =>
               \/ Present(k) /\ row'[k] = row[k]
               \/ row'[k].port = thread[t].port /\ row'[k].owner = thread[t].user
    PROVE  PortsInv'
  <1>1. /\ Holds(t) /\ thread[t].port \in Ports /\ lease[thread[t].port] = thread[t].user
        /\ thread \in [Workers -> Locals]
    BY DEF Carrying, Holds, HoldingSteps, PortsInv, HeldLeased, OwnerInv, ServesUser, TypeOK
  <1>2. \A w \in Workers : \/ w = t /\ thread'[w] = Idle
                           \/ w # t /\ thread'[w] = thread[w]
    BY <1>1 DEF Finish, Become
  <1>3. Idle.step = "idle"
    BY DEF Idle
  <1>4. HeldLeased' /\ HeldOnce' /\ NobodyReleases'
    BY <1>2, <1>3 DEF PortsInv, HeldLeased, HeldOnce, NobodyReleases, At, Holds, HoldingSteps
  <1>5. HeldUnused'
    BY <1>1, <1>2, <1>3 DEF PortsInv, HeldUnused, HeldOnce, Holds, HoldingSteps
  <1>6. RowsLeased'
    BY <1>1 DEF PortsInv, RowsLeased
  <1>7. QED
    BY <1>4, <1>5, <1>6 DEF PortsInv

(* What a submission records: its job and its port, in a row of its user;  *)
(* every other row stays as it is.                                         *)
LEMMA RecordShape ==
    ASSUME TypeOK, OwnerInv, NEW t \in Workers, InsertOk(t) \/ RestartUpdate(t)
    PROVE  /\ Carrying(t) /\ Finish(t) /\ UNCHANGED <<slurmVars, lease, todo>>
           /\ \A k \in RowIds : Present(k)' =>
                 \/ Present(k) /\ row'[k] = row[k]
                 \/ /\ row'[k].port = thread[t].port /\ row'[k].owner = thread[t].user
                    /\ row'[k].job = thread[t].new /\ row'[k].state = "PENDING"
                    /\ (InsertOk(t) /\ k = NewRow) \/ (k = thread[t].row /\ Present(k))
           /\ \A k \in RowIds : Present(k) => Present(k)'
  <1> USE DEF At
  <1>1. PICK m \in Locals : m = thread[t]
    BY DEF TypeOK
  <1>2. CASE InsertOk(t)
    <2>1. /\ row'[NewRow].owner = m.user /\ row'[NewRow].job = m.new
          /\ row'[NewRow].port = m.port /\ row'[NewRow].state = "PENDING"
          /\ \A k \in RowIds \ {NewRow} : row'[k] = row[k]
      BY <1>1, <1>2 DEF InsertOk, TypeOK, NoInstance
    <2>2. Carrying(t) /\ Finish(t) /\ UNCHANGED <<slurmVars, lease, todo>>
      BY <1>2 DEF InsertOk, Carrying
    <2>3. QED
      BY <1>1, <1>2, <2>1, <2>2 DEF Present
  <1>3. CASE RestartUpdate(t)
    <2>1. Carrying(t) /\ Finish(t) /\ UNCHANGED <<slurmVars, lease, todo>>
      BY <1>3 DEF RestartUpdate, Carrying
    <2>2. \A k \in RowIds :
              \/ row'[k] = row[k]
              \/ /\ row'[k].port = m.port /\ row'[k].owner = m.user
                 /\ row'[k].job = m.new /\ row'[k].state = "PENDING"
                 /\ k = m.row /\ Present(k)
      <3> SUFFICES ASSUME NEW k \in RowIds, row'[k] # row[k]
                   PROVE  /\ row'[k].port = m.port /\ row'[k].owner = m.user
                          /\ row'[k].job = m.new /\ row'[k].state = "PENDING"
                          /\ k = m.row /\ Present(k)
        OBVIOUS
      <3>1. PICK r \in Instance : r = row[k]
        BY DEF TypeOK
      <3>2. PICK n, p : n = m.new /\ p = m.port
        OBVIOUS
      <3>3. /\ k = m.row /\ Present(k)
            /\ row'[k] = [r EXCEPT !.state = "PENDING", !.job = n, !.port = p,
                                   !.clock = "unset", !.claimed = FALSE]
        BY <1>1, <1>3, <3>1, <3>2 DEF RestartUpdate, Update, TypeOK
      <3>4. /\ row'[k].owner = r.owner /\ row'[k].job = n /\ row'[k].port = p
            /\ row'[k].state = "PENDING"
        BY <3>3 DEF Instance
      <3>5. r.owner = m.user
        BY <1>1, <3>1, <3>3 DEF OwnerInv, ServesUser, RowIds, NoRow
      <3>6. QED
        BY <3>2, <3>3, <3>4, <3>5
    <2>3. QED
      BY <1>1, <1>3, <2>1, <2>2 DEF Present
  <1>4. QED
    BY <1>2, <1>3

LEMMA SubmissionPorts ==
    ASSUME TypeOK, OwnerInv, PortsInv, NEW t \in Workers, Submission(t)
    PROVE  PortsInv'
  <1>1. PICK m \in Locals : m = thread[t]
    BY DEF TypeOK
  <1> USE DEF At
  <1>2. CASE AllocPort(t)
    BY <1>2, AllocPorts
  <1>3. CASE Unlease(t)
    BY <1>3, UnleasePorts
  <1>4. CASE InsertOk(t) \/ RestartUpdate(t)
    BY <1>4, RecordShape, RecordPorts
  <1>5. CASE NoPortLeft(t) \/ RestartConflicts(t)
    BY <1>5, SameCore, SameLeases, HoldersFinish, PortsKept DEF NoPortLeft, RestartConflicts
  <1>6. CASE SubmitFails(t) \/ SubmitLost(t) \/ InsertConflicts(t)
    <2>1. \/ Holds(t) /\ ~Carrying(t) /\ Goto(t, "unlease")
          \/ Holds(t) /\ Goto(t, "rollback")
      BY <1>6 DEF SubmitFails, SubmitLost, InsertConflicts, Holds, HoldingSteps, Carrying
    <2>2. HoldersKept
      BY <2>1, HoldersGoto DEF CarryingSteps
    <2>3. QED
      BY <1>6, <2>2, SameCore, SameLeases, PortsKept
         DEF SubmitFails, SubmitLost, InsertConflicts
  <1>7. CASE SubmitOk(t)
    <2>1. PICK s \in {"insert", "update"} : s = IF m.op = "apply" THEN "insert" ELSE "update"
      OBVIOUS
    <2>2. PICK n : n = NewJob
      OBVIOUS
    <2>3. PICK l : l = [m EXCEPT !.new = n, !.step = s]
      OBVIOUS
    <2>4. Become(t, l)
      BY <1>1, <1>7, <2>1, <2>2, <2>3 DEF SubmitOk
    <2>5. l.step # "unport" /\ l.port = m.port /\ l.leased = m.leased
      BY <2>1, <2>3 DEF Locals
    <2>6. Holds(t) /\ ~Carrying(t)
      BY <1>7 DEF SubmitOk, Holds, HoldingSteps, Carrying
    <2>7. HoldersKept
      BY <1>1, <2>4, <2>5, <2>6, HoldersBecome
    <2>8. QED
      BY <1>7, <2>7, SameCore, SameLeases, PortsKept DEF SubmitOk
  <1>8. CASE Rollback(t)
    <2>1. PICK l : l = [m EXCEPT !.step = "unlease", !.new = NoJob]
      OBVIOUS
    <2>2. Become(t, l)
      BY <1>1, <1>8, <2>1 DEF Rollback
    <2>3. l.step # "unport" /\ l.port = m.port /\ l.leased = m.leased
      BY <2>1 DEF Locals
    <2>4. Holds(t)
      BY <1>8 DEF Rollback, Holds, HoldingSteps
    <2>5. HoldersKept
      BY <1>1, <2>2, <2>3, <2>4
         DEF HoldersKept, Holds, Become, TypeOK, PortsInv, NobodyReleases, At
    <2>6. QED
      BY <1>8, <2>5, SameCore, SameLeases, PortsKept DEF Rollback
  <1>9. QED
    BY <1>2, <1>3, <1>4, <1>5, <1>6, <1>7, <1>8 DEF Submission

Elsewhere == \/ \E u \in Users, p \in Ports : RegisterPort(u, p)
             \/ \E i \in RowIds : BecomesDue(i)
             \/ Crash
             \/ SlurmStep /\ UNCHANGED <<row, lastRow, lease, thread, todo>>
             \/ UNCHANGED vars

LEMMA ElsewhereUndisturbed ==
    ASSUME TypeOK, PortsInv, Elsewhere
    PROVE  Undisturbed
  <1>1. thread' = thread => HoldersKept /\ CarriersKept
    BY DEF HoldersKept, CarriersKept, Holds, Carrying, PortsInv, NobodyReleases, At
  <1>2. CASE \E u \in Users, p \in Ports : RegisterPort(u, p)
    <2>1. LeasesKept
      BY <1>2, SlurmAssumption DEF RegisterPort, LeasesKept, TypeOK
    <2>2. QED
      BY <1>1, <1>2, <2>1, SameCore DEF RegisterPort, Undisturbed
  <1>3. ASSUME NEW i \in RowIds, BecomesDue(i) PROVE Undisturbed
    <2>1. CoreKept
      BY <1>3 DEF BecomesDue, CoreKept, Present, TypeOK, Instance
    <2>2. QED
      BY <1>1, <1>3, <2>1, SameLeases DEF BecomesDue, Undisturbed
  <1>4. CASE Crash
    <2>1. HoldersKept /\ CarriersKept
      BY <1>4 DEF Crash, HoldersKept, CarriersKept, Holds, HoldingSteps, Idle
    <2>2. QED
      BY <1>4, <2>1, SameCore, SameLeases DEF Crash, Undisturbed
  <1>5. CASE SlurmStep /\ UNCHANGED <<row, lastRow, lease, thread, todo>>
    BY <1>1, <1>5, SameCore, SameLeases DEF Undisturbed
  <1>6. CASE UNCHANGED vars
    BY <1>1, <1>6, SameCore, SameLeases DEF vars, Undisturbed
  <1>7. QED
    BY <1>2, <1>3, <1>4, <1>5, <1>6 DEF Elsewhere

(* As long as nobody releases a registered port, the invariant behind the  *)
(* two theorems below holds through every fault and every interleaving.    *)
LEMMA PortsCorrect ==
    ASSUME "release" \notin Ops PROVE Spec => []PortsInv
  <1>1. Init => PortsInv
    BY DEF Init, PortsInv, HeldLeased, HeldOnce, HeldUnused, RowsLeased, NobodyReleases,
           At, Holds, HoldingSteps, Present, NoInstance, Idle
  <1>2. TypeOK /\ OwnerInv /\ PortsInv /\ [Next]_vars => PortsInv'
    <2> SUFFICES ASSUME TypeOK, OwnerInv, PortsInv, [Next]_vars PROVE PortsInv'
      OBVIOUS
    <2>1. CASE \E t \in Threads : Request(t)
      BY <2>1, RequestUndisturbed, PortsKept DEF Undisturbed
    <2>2. CASE \E t \in Workers : Submission(t)
      BY <2>2, SubmissionPorts
    <2>3. CASE \E t \in Workers : Handling(t)
      BY <2>3, HandlingUndisturbed, PortsKept DEF Undisturbed
    <2>4. CASE Ticking
      BY <2>4, TickingUndisturbed, PortsKept DEF Undisturbed
    <2>5. CASE Elsewhere
      BY <2>5, ElsewhereUndisturbed, PortsKept DEF Undisturbed
    <2>6. QED
      BY <2>1, <2>2, <2>3, <2>4, <2>5 DEF Next, Elsewhere
  <1>3. QED
    BY <1>1, <1>2, TypeCorrect, OwnersCorrect, PTL DEF Spec

(* The port of an active resource is leased to its owner, through every    *)
(* interleaving of submissions, restarts and registrations, lost replies   *)
(* and crashes: what may break it is the release of a registered port.     *)
THEOREM ActivePortCorrect ==
    ASSUME "release" \notin Ops PROVE Spec => []ActivePortLeased
  <1>1. PortsInv => ActivePortLeased
    BY DEF PortsInv, RowsLeased, ActivePortLeased, Active, ActiveStates, Present
  <1>2. QED
    BY <1>1, PortsCorrect, PTL

-----------------------------------------------------------------------------
(* No two jobs that are up have the same port                              *)

IsUp(j) == job[j].phase \in Up

(* The port of a job that is up is leased; the port a submission holds is  *)
(* the port of no job that is up but the one it has submitted itself.      *)
UpLeased == \A j \in JobIds :
                IsUp(j) => job[j].port \in Ports /\ lease[job[j].port] \in Users
HeldFree == \A t \in Workers, j \in JobIds :
                Holds(t) /\ IsUp(j) /\ job[j].port = thread[t].port
                    => Carrying(t) /\ j = thread[t].new

UpPortsInv == UpLeased /\ HeldFree /\ UpPortsDistinct

(* A job that is no longer up never comes up again, nor do ports change.   *)
UpsKept == \A j \in JobIds : IsUp(j)' => IsUp(j) /\ job'[j].port = job[j].port

LEMMA SameUps ==
    ASSUME UNCHANGED slurmVars PROVE UpsKept
  BY DEF UpsKept, IsUp, slurmVars

LEMMA CancelledDown ==
    ASSUME NEW s PROVE Cancelled(s) \notin Up
  BY DEF Cancelled, Up

LEMMA ScancelUps ==
    ASSUME TypeOK, NEW u, NEW j \in JobIds, Scancel(u, j)
    PROVE  UpsKept /\ ~IsUp(j)'
  <1>1. PICK r \in Job : r = job[j]
    BY DEF TypeOK, SlurmTypeOK
  <1>2. PICK c : c = Cancelled(r.phase)
    OBVIOUS
  <1>3. c \notin Up
    BY <1>2, CancelledDown
  <1>4. job' = [job EXCEPT ![j] = [r EXCEPT !.phase = c]]
    BY <1>1, <1>2 DEF Scancel
  <1>5. /\ job'[j].phase = c
        /\ \A k \in JobIds \ {j} : job'[k] = job[k]
    BY <1>4 DEF TypeOK, SlurmTypeOK, Job
  <1>6. QED
    BY <1>3, <1>5 DEF UpsKept, IsUp

LEMMA SlurmStepUps ==
    ASSUME TypeOK, SlurmStep
    PROVE  UpsKept
  <1>1. PICK j \in JobIds, s \in Phases : SetPhase(j, s) /\ (s \in Up => IsUp(j))
    <2>1. PICK j \in JobIds : \/ JobConfigures(j) \/ JobStarts(j) \/ JobEnds(j)
                             \/ JobCancelCompletes(j) \/ JobRequeues(j)
      BY DEF SlurmStep
    <2>2. EndStates \cap Up = {} /\ "CANCELLED" \notin Up
      BY SlurmAssumption DEF Up
    <2>3. CASE JobEnds(j)
      BY <2>2, <2>3 DEF JobEnds, Phases, Ended
    <2>4. CASE JobCancelCompletes(j)
      BY <2>2, <2>4 DEF JobCancelCompletes, Phases, Ended
    <2>5. CASE JobConfigures(j) \/ JobStarts(j) \/ JobRequeues(j)
      BY <2>5 DEF JobConfigures, JobStarts, JobRequeues, IsUp, Up, Phases, Queued
    <2>6. QED
      BY <2>1, <2>3, <2>4, <2>5
  <1>2. PICK r \in Job : r = job[j]
    BY DEF TypeOK, SlurmTypeOK
  <1>3. job' = [job EXCEPT ![j] = [r EXCEPT !.phase = s]]
    BY <1>1, <1>2 DEF SetPhase
  <1>4. /\ job'[j].phase = s /\ job'[j].port = r.port
        /\ \A k \in JobIds \ {j} : job'[k] = job[k]
    BY <1>3 DEF TypeOK, SlurmTypeOK, Job
  <1>5. QED
    BY <1>1, <1>2, <1>4 DEF UpsKept, IsUp

(* The job a thread kills is a job.                                        *)
LEMMA KilledGiven ==
    ASSUME TypeOK, JobOwnersInv, NEW t \in Workers, At(t, "kill")
    PROVE  thread[t].old \in JobIds /\ job[thread[t].old].owner = thread[t].user
  <1>1. lastJob \in 0 .. MaxJob /\ MaxJob \in Nat
    BY SlurmAssumption DEF TypeOK, SlurmTypeOK
  <1>2. thread[t].old \in 1 .. lastJob /\ job[thread[t].old].owner = thread[t].user
    BY DEF JobOwnersInv, OwnsJobs, At, ActingSteps, RowSteps
  <1>3. QED
    BY <1>1, <1>2 DEF JobIds

LEMMA HandlingUps ==
    ASSUME TypeOK, JobOwnersInv, NEW t \in Workers, Handling(t)
    PROVE  UpsKept
  <1>1. CASE Kill(t) \/ KillLost(t)
    BY <1>1, KilledGiven, ScancelUps DEF Kill, KillLost
  <1>2. CASE ~(Kill(t) \/ KillLost(t))
    BY <1>2, SameUps DEF Handling, KillFindsEnded, KillFails, StopWrite, DeleteRow,
       Query, QueryFails, ReconcileLive, MarkStarted, ReconcileEnded, FlagSaving,
       ExportEnds, UnflagSaving, WorkerException, ExpiredWrite, ExpiredRelease, ReleasePort
  <1>3. QED
    BY <1>1, <1>2

LEMMA UpPortsKept ==
    ASSUME UpPortsInv, UpsKept, LeasesKept, HoldersKept, CarriersKept
    PROVE  UpPortsInv'
  <1>1. UpLeased'
    BY DEF UpPortsInv, UpLeased, UpsKept, LeasesKept
  <1>2. HeldFree'
    <2> SUFFICES ASSUME NEW t \in Workers, NEW j \in JobIds,
                        Holds(t)', IsUp(j)', job'[j].port = thread'[t].port
                 PROVE  Carrying(t)' /\ j = thread'[t].new
      BY DEF HeldFree
    <2>1. Holds(t) /\ thread'[t].port = thread[t].port /\ IsUp(j) /\ job'[j].port = job[j].port
      BY DEF HoldersKept, UpsKept
    <2>2. Carrying(t) /\ j = thread[t].new
      BY <2>1 DEF UpPortsInv, HeldFree
    <2>3. QED
      BY <2>2 DEF CarriersKept
  <1>3. UpPortsDistinct'
    BY DEF UpPortsInv, UpPortsDistinct, UpsKept, IsUp
  <1>4. QED
    BY <1>1, <1>2, <1>3 DEF UpPortsInv
LEMMA StepUps ==
    ASSUME TypeOK, JobOwnersInv,
           \/ \E t \in Threads : Request(t)
           \/ \E t \in Workers : Handling(t)
           \/ Ticking \/ Elsewhere
    PROVE  UpsKept
  <1>1. CASE \E t \in Threads : Request(t)
    BY <1>1, SameUps DEF Request, BeginApply, BeginRestart, BeginStop, BeginDelete,
                         BeginReconcile, BeginSave, BeginRelease, Begin
  <1>2. CASE \E t \in Workers : Handling(t)
    BY <1>2, HandlingUps
  <1>3. CASE Ticking
    BY <1>3, SameUps DEF Ticking, Scan, ScanEnds, FlagExpired, ScanException, Claim,
                         StartWorker
  <1>4. CASE Elsewhere
    BY <1>4, SameUps, SlurmStepUps DEF Elsewhere, RegisterPort, BecomesDue, Crash, vars
  <1>5. QED
    BY <1>1, <1>2, <1>3, <1>4

(* The port a submission leases is the port of no job that is up: every    *)
(* such port is leased already.                                            *)
LEMMA AllocUpPorts ==
    ASSUME TypeOK, OwnerInv, UpPortsInv, NEW t \in Workers, AllocPort(t)
    PROVE  UpPortsInv'
  <1>1. PICK m \in Locals : m = thread[t]
    BY DEF TypeOK
  <1>2. PICK p \in Ports :
          /\ FreePort(p)
          /\ lease' = [lease EXCEPT ![p] = m.user]
          /\ Become(t, [m EXCEPT !.step = "submit", !.port = p, !.leased = TRUE])
    BY <1>1 DEF AllocPort
  <1>3. PICK l : l = [m EXCEPT !.step = "submit", !.port = p, !.leased = TRUE]
    OBVIOUS
  <1>4. l.port = p
    BY <1>3 DEF Locals
  <1>5. \A w \in Workers : \/ w = t /\ thread'[w] = l
                           \/ w # t /\ thread'[w] = thread[w]
    BY <1>2, <1>3 DEF Become, TypeOK
  <1>6. lease[p] \notin Users /\ job' = job
    BY <1>2, SlurmAssumption DEF FreePort, AllocPort, slurmVars
  <1>7. \A q \in Ports : q # p => lease'[q] = lease[q]
    BY <1>2 DEF TypeOK
  <1>8. \A j \in JobIds : IsUp(j) => job[j].port # p
    BY <1>6 DEF UpPortsInv, UpLeased
  <1>9. UpLeased'
    BY <1>6, <1>7, <1>8 DEF UpPortsInv, UpLeased, IsUp
  <1>10. HeldFree'
    BY <1>4, <1>5, <1>6, <1>8 DEF UpPortsInv, HeldFree, Holds, Carrying, IsUp
  <1>11. UpPortsDistinct'
    BY <1>6 DEF UpPortsInv, UpPortsDistinct
  <1>12. QED
    BY <1>9, <1>10, <1>11 DEF UpPortsInv

(* The port of a lease given back is the port of no job that is up.        *)
LEMMA UnleaseUpPorts ==
    ASSUME TypeOK, PortsInv, UpPortsInv, NEW t \in Workers, Unlease(t)
    PROVE  UpPortsInv'
  <1>1. /\ Holds(t) /\ ~Carrying(t) /\ DelPort(t) /\ job' = job
        /\ lease \in [Ports -> Users \cup {NoUser}]
    BY DEF Unlease, At, Holds, HoldingSteps, Carrying, TypeOK, slurmVars
  <1>2. \A w \in Workers : Holds(w)' => Holds(w) /\ thread'[w] = thread[w]
    BY UnleaseThreads DEF Holds, HoldingSteps
  <1>3. \A q \in Ports : q # thread[t].port => lease'[q] = lease[q]
    BY <1>1 DEF DelPort
  <1>4. \A j \in JobIds : IsUp(j) => job[j].port # thread[t].port
    BY <1>1 DEF UpPortsInv, HeldFree
  <1>5. UpLeased'
    BY <1>1, <1>3, <1>4 DEF UpPortsInv, UpLeased, IsUp
  <1>6. HeldFree'
    BY <1>1, <1>2 DEF UpPortsInv, HeldFree, Carrying, IsUp
  <1>7. UpPortsDistinct'
    BY <1>1 DEF UpPortsInv, UpPortsDistinct
  <1>8. QED
    BY <1>5, <1>6, <1>7 DEF UpPortsInv

(* The job a submission has queued is the only one on the port it holds.   *)
LEMMA SubmitUpPorts ==
    ASSUME TypeOK, OwnerInv, PortsInv, UpPortsInv, NEW t \in Workers, SubmitOk(t)
    PROVE  UpPortsInv'
  <1>1. PICK m \in Locals : m = thread[t]
    BY DEF TypeOK
  <1>2. PICK s \in {"insert", "update"} : s = IF m.op = "apply" THEN "insert" ELSE "update"
    OBVIOUS
  <1>3. PICK n : n = NewJob
    OBVIOUS
  <1>4. PICK l : l = [m EXCEPT !.new = n, !.step = s]
    OBVIOUS
  <1>5. Become(t, l)
    BY <1>1, <1>2, <1>3, <1>4 DEF SubmitOk
  <1>6. l.port = m.port /\ l.new = n /\ l.step = s
    BY <1>4 DEF Locals
  <1>7. \A w \in Workers : \/ w = t /\ thread'[w] = l
                           \/ w # t /\ thread'[w] = thread[w]
    BY <1>5 DEF Become, TypeOK
  <1>8. /\ Holds(t) /\ ~Carrying(t) /\ lease' = lease
        /\ n \in JobIds
        /\ job'[n].port = m.port
        /\ \A j \in JobIds \ {n} : job'[j] = job[j]
    BY <1>1, <1>3
       DEF SubmitOk, At, Holds, HoldingSteps, Carrying, Sbatch, TypeOK, SlurmTypeOK
  <1>9. m.port \in Ports /\ lease[m.port] \in Users
    BY <1>1, <1>8 DEF PortsInv, HeldLeased, OwnerInv, ServesUser
  <1>10. \A j \in JobIds : IsUp(j) => job[j].port # m.port
    BY <1>1, <1>8 DEF UpPortsInv, HeldFree
  <1>11. \A w \in Workers : w # t /\ Holds(w) => thread[w].port # m.port
    BY <1>1, <1>8 DEF PortsInv, HeldOnce
  <1>12. UpLeased'
    BY <1>8, <1>9 DEF UpPortsInv, UpLeased, IsUp
  <1>13. HeldFree'
    <2> SUFFICES ASSUME NEW w \in Workers, NEW j \in JobIds,
                        Holds(w)', IsUp(j)', job'[j].port = thread'[w].port
                 PROVE  Carrying(w)' /\ j = thread'[w].new
      BY DEF HeldFree
    <2>1. CASE w = t
      BY <1>2, <1>6, <1>7, <1>8, <1>10, <2>1 DEF IsUp, Carrying
    <2>2. CASE w # t
      BY <1>7, <1>8, <1>11, <2>2 DEF UpPortsInv, HeldFree, IsUp, Carrying, Holds
    <2>3. QED
      BY <2>1, <2>2
  <1>14. UpPortsDistinct'
    BY <1>8, <1>10 DEF UpPortsInv, UpPortsDistinct, IsUp
  <1>15. QED
    BY <1>12, <1>13, <1>14 DEF UpPortsInv

(* What a rollback kills is over: the job is the user's own, so the helper *)
(* does not refuse, and one that squeue does not list has ended.           *)
LEMMA RollbackEnds ==
    ASSUME Faults \cap {"squeue", "scancel"} = {},
           TypeOK, JobOwnersInv, NEW t \in Workers, Rollback(t)
    PROVE  UpsKept /\ thread[t].new \in JobIds /\ job'[thread[t].new].phase \notin Up
  <1>1. PICK u, n : u = thread[t].user /\ n = thread[t].new
    OBVIOUS
  <1>2. lastJob \in 0 .. MaxJob /\ MaxJob \in Nat
    BY SlurmAssumption DEF TypeOK, SlurmTypeOK
  <1>3. n \in 1 .. lastJob /\ job[n].owner = u
    BY <1>1 DEF Rollback, At, JobOwnersInv, OwnsJobs, CarryingSteps
  <1>4. n \in JobIds
    BY <1>2, <1>3 DEF JobIds
  <1>5. CASE Scancel(u, n)
    BY <1>1, <1>4, <1>5, ScancelUps DEF IsUp
  <1>6. CASE MissedInQueue(n) /\ UNCHANGED slurmVars
    <2>1. job[n].phase \in Ended
      BY <1>6 DEF MissedInQueue
    <2>2. Ended \cap Up = {}
      BY SlurmAssumption DEF Ended, Up
    <2>3. QED
      BY <1>1, <1>4, <1>6, <2>1, <2>2, SameUps DEF slurmVars
  <1>7. ~KillRefused(u, n)
    BY <1>3 DEF KillRefused
  <1>8. QED
    BY <1>1, <1>5, <1>6, <1>7 DEF Rollback

(* A rollback leaves no job on the port it goes on to give back: the job   *)
(* is the user's own, so the helper does not refuse to cancel it.          *)
LEMMA RollbackUpPorts ==
    ASSUME Faults \cap {"squeue", "scancel"} = {},
           TypeOK, JobOwnersInv, PortsInv, UpPortsInv, NEW t \in Workers, Rollback(t)
    PROVE  UpPortsInv'
  <1>1. PICK m \in Locals : m = thread[t]
    BY DEF TypeOK
  <1>2. PICK l : l = [m EXCEPT !.step = "unlease", !.new = NoJob]
    OBVIOUS
  <1>3. Become(t, l)
    BY <1>1, <1>2 DEF Rollback
  <1>4. l.port = m.port /\ l.step = "unlease"
    BY <1>2 DEF Locals
  <1>5. \A w \in Workers : \/ w = t /\ thread'[w] = l
                           \/ w # t /\ thread'[w] = thread[w]
    BY <1>3 DEF Become, TypeOK
  <1>6. Holds(t) /\ lease' = lease
    BY DEF Rollback, At, Holds, HoldingSteps
  <1>7. UpsKept /\ job'[m.new].phase \notin Up
    BY <1>1, RollbackEnds
  <1>8. UpLeased'
    BY <1>6, <1>7 DEF UpPortsInv, UpLeased, UpsKept
  <1>9. HeldFree'
    BY <1>1, <1>4, <1>5, <1>6, <1>7
       DEF UpPortsInv, HeldFree, UpsKept, IsUp, Holds, Carrying
  <1>10. UpPortsDistinct'
    BY <1>7 DEF UpPortsInv, UpPortsDistinct, UpsKept, IsUp
  <1>11. QED
    BY <1>8, <1>9, <1>10 DEF UpPortsInv

LEMMA SubmissionUpPorts ==
    ASSUME Faults \cap {"lost_reply", "squeue", "scancel"} = {},
           TypeOK, OwnerInv, JobOwnersInv, PortsInv, UpPortsInv,
           NEW t \in Workers, Submission(t)
    PROVE  UpPortsInv'
  <1>1. CASE AllocPort(t) \/ Unlease(t) \/ SubmitOk(t) \/ Rollback(t)
    BY <1>1, AllocUpPorts, UnleaseUpPorts, SubmitUpPorts, RollbackUpPorts
  <1>2. CASE InsertOk(t) \/ RestartUpdate(t)
    <2>1. Finish(t) /\ UNCHANGED <<slurmVars, lease>>
      BY <1>2, RecordShape
    <2>2. QED
      BY <2>1, SameUps, SameLeases, HoldersFinish, UpPortsKept
  <1>3. CASE NoPortLeft(t) \/ RestartConflicts(t)
    BY <1>3, SameUps, SameLeases, HoldersFinish, UpPortsKept DEF NoPortLeft, RestartConflicts
  <1>4. CASE SubmitFails(t) \/ InsertConflicts(t)
    <2>1. \/ Holds(t) /\ ~Carrying(t) /\ Goto(t, "unlease")
          \/ Holds(t) /\ Goto(t, "rollback")
      BY <1>4 DEF SubmitFails, InsertConflicts, At, Holds, HoldingSteps, Carrying
    <2>2. HoldersKept /\ CarriersKept
      BY <2>1, HoldersGoto DEF CarryingSteps
    <2>3. QED
      BY <1>4, <2>2, SameUps, SameLeases, UpPortsKept DEF SubmitFails, InsertConflicts
  <1>5. ~SubmitLost(t)
    BY DEF SubmitLost
  <1>6. QED
    BY <1>1, <1>2, <1>3, <1>4, <1>5 DEF Submission

(* No two jobs that are up have the same port, whatever submissions and    *)
(* restarts overlap, fail or are rolled back and whenever the portal dies: *)
(* what may break it is the release of a registered port, an answer of     *)
(* sbatch or squeue that is lost, and a scancel that fails.                *)
THEOREM UpPortsCorrect ==
    ASSUME "release" \notin Ops, Faults \cap {"lost_reply", "squeue", "scancel"} = {}
    PROVE  Spec => []UpPortsDistinct
  <1>1. Init => UpPortsInv
    BY DEF Init, SlurmInit, UpPortsInv, UpLeased, HeldFree, UpPortsDistinct, IsUp, Up
  <1>2. TypeOK /\ OwnerInv /\ JobOwnersInv /\ PortsInv /\ UpPortsInv /\ [Next]_vars
            => UpPortsInv'
    <2> SUFFICES ASSUME TypeOK, OwnerInv, JobOwnersInv, PortsInv, UpPortsInv, [Next]_vars
                 PROVE  UpPortsInv'
      OBVIOUS
    <2>1. CASE \E t \in Threads : Request(t)
      BY <2>1, StepUps, RequestUndisturbed, UpPortsKept DEF Undisturbed
    <2>2. CASE \E t \in Workers : Submission(t)
      BY <2>2, SubmissionUpPorts
    <2>3. CASE \E t \in Workers : Handling(t)
      BY <2>3, StepUps, HandlingUndisturbed, UpPortsKept DEF Undisturbed
    <2>4. CASE Ticking
      BY <2>4, StepUps, TickingUndisturbed, UpPortsKept DEF Undisturbed
    <2>5. CASE Elsewhere
      BY <2>5, StepUps, ElsewhereUndisturbed, UpPortsKept DEF Undisturbed
    <2>6. QED
      BY <2>1, <2>2, <2>3, <2>4, <2>5 DEF Next, Elsewhere
  <1>3. UpPortsInv => UpPortsDistinct
    BY DEF UpPortsInv
  <1>4. QED
    BY <1>1, <1>2, <1>3, TypeCorrect, OwnersCorrect, JobOwnersCorrect, PortsCorrect, PTL
       DEF Spec
=============================================================================
