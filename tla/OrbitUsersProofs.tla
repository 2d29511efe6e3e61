-------------------------- MODULE OrbitUsersProofs --------------------------
(***************************************************************************)
(* Proofs about the users of OrbitUsers, in the behaviours of              *)
(* OrbitTenants: their logins, their accounts and quotas on every machine, *)
(* their registered keys and the accounts they charge; and what an         *)
(* administrator's change of an account leaves in Slurm.                   *)
(***************************************************************************)
EXTENDS OrbitTenantsProofs

-----------------------------------------------------------------------------
(* Users and their logins                                                  *)

(* The locals that a handler never changes.                                *)
Carries(l, m) == l.name = m.name /\ l.mode = m.mode /\ l.quota = m.quota /\ l.key = m.key

LEMMA UserTask ==
    ASSUME TypeInv, NEW t \in Threads, task[t].step \in UserSteps
    PROVE  task[t] \in UserLocals /\ task[t].name \in Names
  <1>1. task[t] \in UserLocals
    BY TaskTyped, Kinds
  <1>2. QED
    BY <1>1 DEF UserLocals

LEMMA UserGoes ==
    ASSUME TypeInv, NEW t \in Threads, NEW m \in UserLocals, m = task[t], NEW s, Goto(t, s)
    PROVE  /\ task'[t].step = s /\ Carries(task'[t], m)
           /\ task'[t].id = m.id /\ task'[t].keys = m.keys /\ task'[t].failed = m.failed
  <1>1. task'[t] = [m EXCEPT !.step = s]
    BY GotoFlow
  <1>2. PICK l : l = [m EXCEPT !.step = s]
    OBVIOUS
  <1>3. /\ l.step = s /\ Carries(l, m)
        /\ l.id = m.id /\ l.keys = m.keys /\ l.failed = m.failed
    BY <1>2 DEF UserLocals, Carries
  <1>4. QED
    BY <1>1, <1>2, <1>3

(* The locals of a request that begins.                                    *)
Creates(l) ==
    /\ user[l.name] = None
    /\ \/ l.step = "provision" /\ l.mode = "provision"
       \/ l.step = "init" /\ l.mode = "existing"

Changes(l) ==
    /\ user[l.name] # None /\ l.id = user[l.name].id /\ ~l.failed
    /\ \/ l.step \in {"empty", "delete", "resize", "look", "gather"}
       \/ l.step = "reset" /\ "key-delete" \in ops /\ l.keys = keyRow[l.name] \ l.key

LEMMA UserAsked ==
    ASSUME TypeInv, NEW t \in Threads, UserRequest(t)
    PROVE  (task'[t].id <= lastId \/ user[task'[t].name] # None)
           /\ (Creates(task'[t]) \/ Changes(task'[t]))
  <1>1. PICK n, q, k : /\ n \in Names
                       /\ \/ \E w \in {"provision", "existing"} : BeginCreate(t, n, w, q)
                          \/ BeginUserDelete(t, n) \/ BeginView(t, n) \/ BeginQuota(t, n, q)
                          \/ BeginKeyAdd(t, n, k) \/ BeginKeyDelete(t, n, k)
    BY DEF UserRequest
  <1> DEFINE Asked1(l) == (l.id <= lastId \/ user[l.name] # None) /\ (Creates(l) \/ Changes(l))
  <1>2. lastId \in Nat
    BY SameTypes DEF UsersTypeOK
  <1>3. \E l : Become(t, l) /\ Asked1(l)
    <2>1. CASE \E w \in {"provision", "existing"} : BeginCreate(t, n, w, q)
      <3>1. PICK w \in {"provision", "existing"} : BeginCreate(t, n, w, q)
        BY <2>1
      <3>2. PICK v, l : /\ v = Work(IF w = "provision" THEN "provision" ELSE "init", n)
                        /\ l = [v EXCEPT !.mode = w, !.quota = q] /\ Become(t, l) /\ user[n] = None
        BY <3>1 DEF BeginCreate, Begin
      <3>3. /\ l.name = n /\ l.mode = w /\ l.id = 0
            /\ l.step = IF w = "provision" THEN "provision" ELSE "init"
        BY <3>2 DEF Work
      <3>4. QED
        <4>1. l.id <= lastId
          BY <1>2, <3>3
        <4>2. Creates(l)
          BY <3>2, <3>3 DEF Creates
        <4>3. QED
          BY <3>2, <4>1, <4>2
    <2>2. CASE BeginUserDelete(t, n) \/ BeginView(t, n)
      <3>1. PICK s, l : /\ s \in {"empty", "delete", "look"}
                        /\ l = Work(s, n) /\ Become(t, l) /\ user[n] # None
        BY <2>2 DEF BeginUserDelete, BeginView, Begin
      <3>2. l.name = n /\ l.step = s /\ l.id = user[n].id /\ l.failed = FALSE
        BY <3>1 DEF Work
      <3>3. QED
        BY <3>1, <3>2 DEF Changes
    <2>3. CASE BeginQuota(t, n, q)
      <3>1. PICK v, l : /\ v = Work("resize", n) /\ l = [v EXCEPT !.quota = q]
                        /\ Become(t, l) /\ user[n] # None
        BY <2>3 DEF BeginQuota, Begin
      <3>2. l.name = n /\ l.step = "resize" /\ l.id = user[n].id /\ l.failed = FALSE
        BY <3>1 DEF Work
      <3>3. QED
        BY <3>1, <3>2 DEF Changes
    <2>4. CASE BeginKeyAdd(t, n, k)
      <3>1. PICK v, l : /\ v = Work("gather", n) /\ l = [v EXCEPT !.key = {k}]
                        /\ Become(t, l) /\ user[n] # None
        BY <2>4 DEF BeginKeyAdd, Begin
      <3>2. l.name = n /\ l.step = "gather" /\ l.id = user[n].id /\ l.failed = FALSE
        BY <3>1 DEF Work
      <3>3. QED
        BY <3>1, <3>2 DEF Changes
    <2>5. CASE BeginKeyDelete(t, n, k)
      <3>1. PICK v, l : /\ v = Work("reset", n)
                        /\ l = [v EXCEPT !.key = {k}, !.keys = keyRow[n] \ {k}]
                        /\ Become(t, l) /\ user[n] # None /\ "key-delete" \in ops
        BY <2>5 DEF BeginKeyDelete, Begin
      <3>2. /\ l.name = n /\ l.step = "reset" /\ l.id = user[n].id /\ l.failed = FALSE
            /\ l.key = {k} /\ l.keys = keyRow[n] \ {k}
        BY <3>1 DEF Work
      <3>3. QED
        BY <3>1, <3>2 DEF Changes
    <2>6. QED
      BY <1>1, <2>1, <2>2, <2>3, <2>4, <2>5
  <1>4. QED
    BY <1>3, BecomeFlow
(* What a handler has looked up or changed before still holds: the account *)
(* it has found or added is there, the name it wants to give is free, and  *)
(* the row it began with is still that of its user.                        *)
OwnedSteps == {"empty", "remove", "delete", "resize", "resized",
               "gather", "merge", "set", "keep", "reset", "strike"}

Logged(l) ==
    /\ l.step = "assoc" => os[l.user] # None
    /\ l.step \in {"limit", "spread", "insert"} => os[l.name] # None
    /\ l.step \in {"provision", "spread", "init", "limit", "insert"} => user[l.name] = None
    /\ l.step \in OwnedSteps => user[l.name] # None /\ user[l.name].id = l.id

NoneCharged == \A n \in Names : os[n] = None => member[n] = {}

LoginInv == Orderly => NoneCharged /\ \A t \in Threads : Logged(task[t])

LEMMA NamesTyped ==
    ASSUME TypeInv', NEW t \in Threads
    PROVE  /\ task'[t].step \in UserSteps => task'[t].name \in Names
           /\ task'[t].step \in MemberSteps => task'[t].user \in Names
  <1>1. PICK m \in Tasks : m = task'[t]
    BY DEF TypeInv, TenantsTypeOK, Tasks
  <1>2. QED
    BY <1>1, Kinds DEF UserLocals, MemberLocals, MemberSteps

(* Rows stay as they are, and so do the accounts there are.                *)
LEMMA LoginSame ==
    ASSUME TypeInv, LoginInv, UNCHANGED <<ops, user>>,
           \A n \in Names : os[n] # None => os'[n] # None,
           NEW t \in Threads, Become(t, task'[t]) \/ UNCHANGED task,
           TypeInv', Orderly => NoneCharged', Orderly => Logged(task'[t])
    PROVE  LoginInv'
  <1>1. Orderly' = Orderly
    BY DEF Orderly
  <1>2. ASSUME Orderly, NEW s \in Threads PROVE Logged(task[s])'
    <2>1. Logged(task'[s])
      BY <1>2, BecomeFlow DEF LoginInv
    <2>2. PICK l : l = task'[s]
      OBVIOUS
    <2>3. /\ l.step \in UserSteps => l.name \in Names
          /\ l.step \in MemberSteps => l.user \in Names
      BY <2>2, NamesTyped
    <2>4. /\ l.step = "assoc" => os'[l.user] # None
          /\ l.step \in {"limit", "spread", "insert"} => os'[l.name] # None
      BY <2>1, <2>2, <2>3 DEF Logged, UserSteps, MemberSteps
    <2>5. QED
      BY <2>1, <2>2, <2>4 DEF Logged
  <1>3. QED
    BY <1>1, <1>2 DEF LoginInv

(* What removing an account does: all of it, or nothing to the account     *)
(* when userdel fails on the management node.                              *)
LEMMA RemoveEffect ==
    ASSUME TypeInv, NEW t \in Threads, RemoveLogin(t), NEW n, n = task[t].name
    PROVE  /\ task[t].step = "remove" /\ UNCHANGED <<user, keyRow, lastId>>
           /\ member' = [member EXCEPT ![n] = {}]
           /\ \/ /\ os' = [os EXCEPT ![n] = None]
                 /\ (Finish(t) /\ task[t].failed) \/ Goto(t, "delete")
              \/ "node" \in ops /\ Finish(t) /\ UNCHANGED os
  <1>1. task[t].step = "remove"
    BY DEF RemoveLogin, At
  <1>2. UNCHANGED <<user, keyRow, lastId>>
    BY DEF RemoveLogin, RowsUnchanged
  <1>3. member' = [member EXCEPT ![n] = {}]
    BY DEF RemoveLogin, Name
  <1>4. \/ /\ os' = [os EXCEPT ![n] = None]
           /\ (Finish(t) /\ task[t].failed) \/ Goto(t, "delete")
        \/ "node" \in ops /\ Finish(t) /\ UNCHANGED os
    BY DEF RemoveLogin, Name
  <1>5. QED
    BY <1>1, <1>2, <1>3, <1>4

(* Whoever changes them works alone.                                       *)
LEMMA LoginWork ==
    ASSUME TypeInv, SingleInv, LoginInv, UNCHANGED ops, NEW t \in Threads, Become(t, task'[t]),
           task[t].step \notin Quiet, Orderly => NoneCharged' /\ Logged(task[t])'
    PROVE  LoginInv'
  <1>1. Orderly' = Orderly /\ (Orderly => Calm)
    BY DEF Orderly, Calm
  <1>2. ASSUME Orderly, NEW s \in Threads PROVE Logged(task[s])'
    <2>1. CASE s = t
      BY <1>2, <2>1
    <2>2. CASE s # t
      <3>1. task'[s] = task[s] /\ task[s].step \in Quiet
        BY <1>1, <1>2, <2>2, BecomeFlow, Alone
      <3>2. QED
        BY <3>1 DEF Logged, Quiet, SaveSteps, ViewSteps, OwnedSteps
    <2>3. QED
      BY <2>1, <2>2
  <1>3. QED
    BY <1>1, <1>2 DEF LoginInv
LEMMA LoginOther ==
    ASSUME TypeInv, TypeInv', LoginInv, NEW t \in Threads,
           \/ AccountRequest(t) \/ AccountStep(t) \/ ImageRequest(t) \/ ImageStep(t)
           \/ PlanRequest(t) \/ PlanStep(t)
    PROVE  LoginInv'
  <1>1. member \in [Names -> SUBSET Accounts]
    BY SameTypes DEF AccountsTypeOK
  <1>2. CASE AccountRequest(t) \/ ImageRequest(t) \/ PlanRequest(t)
    <2>1. /\ Become(t, task'[t]) /\ UNCHANGED <<ops, user, os, member>>
          /\ task'[t].step \in {"update", "check", "join", "leave", "save", "rename", "unlink",
                                "order", "idle", "flip", "unplan", "ask", "charge"}
      BY <1>2, AccountRequestFlow, ImageRequestFlow, PlanRequestFlow
         DEF Flows, peopleVars, accountVars
    <2>2. Logged(task'[t])
      BY <2>1 DEF Logged, OwnedSteps
    <2>3. Orderly => NoneCharged'
      BY <2>1 DEF LoginInv, NoneCharged
    <2>4. QED
      BY <2>1, <2>2, <2>3, LoginSame
  <1>3. CASE ImageStep(t)
    <2>1. /\ Become(t, task'[t]) /\ UNCHANGED <<ops, user, os, member>>
          /\ task'[t].step \in ImageSteps \cup {"idle"}
      BY <1>3, ImageFlow DEF Flows, peopleVars, accountVars, SaveSteps, ImageSteps
    <2>2. Logged(task'[t])
      BY <2>1 DEF Logged, OwnedSteps, ImageSteps
    <2>3. Orderly => NoneCharged'
      BY <2>1 DEF LoginInv, NoneCharged
    <2>4. QED
      BY <2>1, <2>2, <2>3, LoginSame
  <1>4. CASE PlanStep(t)
    <2>1. /\ Become(t, task'[t]) /\ UNCHANGED <<ops, user, os>>
          /\ task'[t].step \in BookSteps \cup {"idle"}
      BY <1>4, PlanFlow DEF Flows, peopleVars, BookSteps
    <2>2. Logged(task'[t])
      BY <2>1 DEF Logged, OwnedSteps, BookSteps
    <2>3. CASE UNCHANGED member
      <3>1. Orderly => NoneCharged'
        BY <2>1, <2>3 DEF LoginInv, NoneCharged
      <3>2. QED
        BY <2>1, <2>2, <3>1, LoginSame
    <2>4. CASE ~UNCHANGED member
      <3>1. ChargeDefault(t) /\ os[task[t].name] # None
        BY <1>4, <2>4 DEF PlanStep, FlipPlan, DropPlan, AskAccounts, AskFails, AskRaw, AskRawFails,
                          ChargeNamed, ChargeDefault, ChargeFails, Book, OnlyTaskChanges, accountVars
      <3>2. member' = [member EXCEPT ![task[t].name] = @ \cup {Site}]
        BY <3>1 DEF ChargeDefault, Associate
      <3>3. Orderly => NoneCharged'
        BY <1>1, <2>1, <3>1, <3>2 DEF LoginInv, NoneCharged
      <3>4. QED
        BY <2>1, <2>2, <3>3, LoginSame
    <2>5. QED
      BY <2>3, <2>4
  <1>5. CASE AccountStep(t)
    <2>1. /\ Become(t, task'[t]) /\ UNCHANGED <<ops, user, os>>
          /\ task'[t].step \in AddSteps \cup DeleteSteps \cup MemberSteps \cup {"idle"}
      BY <1>5, AccountFlow DEF Flows, peopleVars
    <2>2. CASE Join(t)
      <3>1. PICK m \in MemberLocals : m = task[t] /\ m.step = "assoc"
        BY <2>2, TaskTyped, Kinds DEF Join, At
      <3>2. member' = [member EXCEPT ![m.user] = @ \cup {m.acct}]
        BY <2>2, <3>1 DEF Join, Associate
      <3>3. task'[t].step \in {"idle", "default"}
        BY <2>2, FinishFlow, GotoFlow DEF Join
      <3>4. Orderly => os[m.user] # None
        BY <3>1 DEF LoginInv, Logged
      <3>5. Orderly => NoneCharged'
        BY <1>1, <2>1, <3>2, <3>4 DEF LoginInv, NoneCharged
      <3>6. Logged(task'[t])
        BY <3>3 DEF Logged, OwnedSteps
      <3>7. QED
        BY <2>1, <3>5, <3>6, LoginSame
    <2>3. CASE CheckJoin(t)
      <3>1. PICK m \in MemberLocals : m = task[t]
        BY <2>3, TaskTyped, Kinds DEF CheckJoin, At
      <3>2. /\ UNCHANGED member
            /\ \/ Finish(t) \/ Goto(t, "default")
               \/ Goto(t, "assoc") /\ os[m.user] # None
        BY <2>3, <3>1 DEF CheckJoin, accountVars
      <3>3. Logged(task'[t])
        <4>1. CASE Finish(t) \/ Goto(t, "default")
          <5>1. task'[t].step \in {"idle", "default"}
            BY <4>1, FinishFlow, GotoFlow
          <5>2. QED
            BY <5>1 DEF Logged, OwnedSteps
        <4>2. CASE Goto(t, "assoc") /\ os[m.user] # None
          <5>1. PICK l : l = [m EXCEPT !.step = "assoc"] /\ task'[t] = l
            BY <3>1, <4>2, GotoFlow
          <5>2. l.step = "assoc" /\ l.user = m.user
            BY <5>1 DEF MemberLocals
          <5>3. QED
            BY <4>2, <5>1, <5>2 DEF Logged, OwnedSteps
        <4>3. QED
          BY <3>2, <4>1, <4>2
      <3>4. Orderly => NoneCharged'
        BY <2>1, <3>2 DEF LoginInv, NoneCharged
      <3>5. QED
        BY <2>1, <3>3, <3>4, LoginSame
    <2>4. CASE ~(Join(t) \/ CheckJoin(t))
      <3>1. \A n \in Names : member'[n] \subseteq member[n]
        <4>1. CASE UNCHANGED member
          BY <4>1
        <4>2. CASE DropAccount(t)
          BY <4>2 DEF DropAccount
        <4>3. CASE Leave(t)
          BY <1>1, <4>3 DEF Leave
        <4>4. UNCHANGED member \/ DropAccount(t) \/ Leave(t)
          BY <1>5, <2>4
             DEF AccountStep, WriteRow, ReadRows, SyncRead, SyncReturns, SyncFails, SyncEnsure,
                 SyncApply, Undo, CheckDelete, DropQos, DeleteFails, DeleteRow, MakeDefault,
                 CheckLeave, accountVars
        <4>5. QED
          BY <4>1, <4>2, <4>3, <4>4
      <3>2. Orderly => NoneCharged'
        BY <2>1, <3>1 DEF LoginInv, NoneCharged
      <3>3. task'[t].step # "assoc"
        <4>1. CASE task[t].step \in AddSteps \cup DeleteSteps
          BY <1>5, <4>1, AccountFlow DEF Flows, AddSteps, DeleteSteps, MemberSteps
        <4>2. CASE task[t].step \notin AddSteps \cup DeleteSteps
          <5>1. MakeDefault(t) \/ CheckLeave(t) \/ Leave(t)
            BY <1>5, <2>4, <4>2
               DEF AccountStep, WriteRow, ReadRows, SyncRead, SyncReturns, SyncFails, SyncEnsure,
                   SyncApply, Undo, CheckDelete, DropAccount, DropQos, DeleteFails, DeleteRow, At,
                   AddSteps, DeleteSteps
          <5>2. Finish(t) \/ Goto(t, "disjoin")
            BY <5>1 DEF MakeDefault, CheckLeave, Leave
          <5>3. task'[t].step \in {"idle", "disjoin"}
            BY <5>2, FinishFlow, GotoFlow
          <5>4. QED
            BY <5>3
        <4>3. QED
          BY <4>1, <4>2
      <3>4. Logged(task'[t])
        BY <2>1, <3>3 DEF Logged, OwnedSteps, AddSteps, DeleteSteps, MemberSteps
      <3>5. QED
        BY <2>1, <3>2, <3>4, LoginSame
    <2>5. QED
      BY <2>2, <2>3, <2>4
  <1>6. QED
    BY <1>2, <1>3, <1>4, <1>5

LEMMA LoginRequest ==
    ASSUME TypeInv, TypeInv', LoginInv, NEW t \in Threads, UserRequest(t)
    PROVE  LoginInv'
  <1>1. Become(t, task'[t]) /\ UNCHANGED <<ops, user, os, member>>
    BY UserRequestFlow DEF Flows, peopleVars, accountVars
  <1>2. Logged(task'[t])
    <2>1. CASE Creates(task'[t])
      BY <2>1 DEF Creates, Logged, OwnedSteps
    <2>2. CASE Changes(task'[t])
      BY <2>2 DEF Changes, Logged, OwnedSteps
    <2>3. QED
      BY <2>1, <2>2, UserAsked
  <1>3. Orderly => NoneCharged'
    BY <1>1 DEF LoginInv, NoneCharged
  <1>4. QED
    BY <1>1, <1>2, <1>3, LoginSame

(* The steps that change neither a row nor the accounts of anybody.        *)
LEMMA LoginQuiet ==
    ASSUME TypeInv, TypeInv', LoginInv, NEW t \in Threads, UserStep(t), UNCHANGED user,
           \A n \in Names : os[n] # None => os'[n] # None, \A n \in Names : member'[n] = member[n],
           \/ task'[t].step \in {"idle", "look", "note"}
           \/ /\ task'[t].name = task[t].name /\ task'[t].id = task[t].id
              /\ \/ task[t].step \in OwnedSteps /\ task'[t].step \in OwnedSteps
                 \/ task[t].step \in {"limit", "spread"} /\ task'[t].step = "insert"
    PROVE  LoginInv'
  <1>1. Become(t, task'[t]) /\ UNCHANGED ops
    BY UserFlow DEF Flows
  <1>2. Orderly => Logged(task[t])
    BY DEF LoginInv
  <1>3. Orderly => Logged(task'[t])
    BY <1>2 DEF Logged, OwnedSteps
  <1>4. Orderly => NoneCharged'
    BY DEF LoginInv, NoneCharged
  <1>5. QED
    BY <1>1, <1>3, <1>4, LoginSame

(* The step that follows another.                                          *)
Follows(a, b) ==
    \/ a = "provision" /\ b = "spread"
    \/ a = "init" /\ b = "limit"
    \/ a \in {"spread", "limit"} /\ b = "insert"
    \/ a = "insert" /\ b = "look"
    \/ a = "empty" /\ b \in {"remove", "delete"}
    \/ a = "remove" /\ b = "delete"
    \/ a = "resize" /\ b = "resized"
    \/ a = "look" /\ b = "note"
    \/ a = "gather" /\ b = "merge"
    \/ a = "merge" /\ b = "set"
    \/ a = "set" /\ b = "keep"
    \/ a = "reset" /\ b = "strike"

(* What a step does to the locals of its handler.                          *)
LEMMA UserMoves ==
    ASSUME TypeInv, NEW t \in Threads, UserStep(t)
    PROVE  \/ task'[t].step = "idle"
           \/ /\ Follows(task[t].step, task'[t].step)
              /\ Carries(task'[t], task[t])
              /\ \/ /\ task[t].step = "insert" /\ task'[t].step = "look"
                    /\ task'[t].id = lastId' /\ task'[t].keys = task[t].keys
                 \/ /\ task'[t].id = task[t].id
                    /\ task'[t].keys = task[t].keys
                       \/ task[t].step \in {"look", "gather", "merge"}
              /\ \/ task'[t].failed = task[t].failed
                 \/ "node" \in ops
  <1>1. PICK m \in UserLocals : m = task[t]
    BY UserFlow, UserTask DEF Flows
  <1>2. PICK s, i, k, l :
          /\ Become(t, l)
          /\ \/ l = Idle
             \/ /\ Follows(m.step, s)
                /\ \/ l = [m EXCEPT !.step = s]
                   \/ /\ m.step = "insert" /\ s = "look" /\ i = lastId'
                      /\ l = [m EXCEPT !.step = s, !.id = i]
                   \/ m.step \in {"look", "gather", "merge"} /\ l = [m EXCEPT !.step = s, !.keys = k]
                   \/ "node" \in ops /\ l = [m EXCEPT !.step = s, !.failed = TRUE]
    <2>1. CASE InsertUser(t)
      BY <1>1, <2>1 DEF InsertUser, At, Finish, Follows
    <2>2. CASE EmptyNodes(t)
      <3>1. /\ m.step = "empty"
            /\ \/ \E s \in {"delete", "remove"} : Goto(t, s)
               \/ "node" \in ops /\ Become(t, [m EXCEPT !.step = "remove", !.failed = TRUE])
        BY <1>1, <2>2 DEF EmptyNodes, At
      <3>2. QED
        BY <1>1, <3>1 DEF Goto, Follows
    <2>3. CASE Look(t) \/ Gather(t) \/ Merge(t)
      <3>1. PICK s, k : /\ Finish(t) \/ Become(t, [m EXCEPT !.step = s, !.keys = k])
                        /\ \/ m.step = "look" /\ s = "note"
                           \/ m.step = "gather" /\ s = "merge"
                           \/ m.step = "merge" /\ s = "set"
        BY <1>1, <2>3 DEF Look, Gather, GetKeys, Merge, At
      <3>2. QED
        BY <3>1 DEF Finish, Follows
    <2>4. CASE \/ HelperFails(t) \/ ReplyLost(t) \/ DeleteUserRow(t) \/ RecordQuota(t)
               \/ Note(t) \/ KeepKey(t) \/ StrikeKey(t)
      BY <2>4 DEF HelperFails, ReplyLost, DeleteUserRow, RecordQuota, Note, KeepKey, StrikeKey, Finish
    <2>5. CASE \/ Provision(t) \/ Spread(t) \/ InitLogin(t) \/ Limit(t) \/ RemoveLogin(t)
               \/ Resize(t) \/ WriteKeys(t) \/ RewriteKeys(t)
      <3>1. Finish(t) \/ \E s : Goto(t, s) /\ Follows(m.step, s)
        <4>1. CASE Provision(t) \/ Spread(t) \/ InitLogin(t)
          BY <1>1, <4>1 DEF Provision, Spread, InitLogin, At, Follows
        <4>2. CASE RemoveLogin(t)
          BY <1>1, <4>2 DEF RemoveLogin, At, Follows
        <4>3. CASE Limit(t) \/ Resize(t)
          BY <1>1, <4>3 DEF Limit, Resize, SetQuota, At, Follows
        <4>4. CASE WriteKeys(t) \/ RewriteKeys(t)
          BY <1>1, <4>4 DEF WriteKeys, RewriteKeys, SetKeys, At, Follows
        <4>5. QED
          BY <2>5, <4>1, <4>2, <4>3, <4>4
      <3>2. QED
        BY <1>1, <3>1 DEF Finish, Goto
    <2>6. QED
      BY <2>1, <2>2, <2>3, <2>4, <2>5 DEF UserStep
  <1>3. task'[t] = l
    BY <1>2, BecomeFlow
  <1>4. CASE l = Idle
    BY <1>3, <1>4 DEF Idle
  <1>5. CASE Follows(m.step, s) /\ l = [m EXCEPT !.step = s]
    <2>1. l.step = s /\ Carries(l, m) /\ l.id = m.id /\ l.keys = m.keys /\ l.failed = m.failed
      BY <1>5 DEF UserLocals, Carries
    <2>2. QED
      BY <1>1, <1>3, <1>5, <2>1
  <1>6. CASE m.step = "insert" /\ s = "look" /\ i = lastId' /\ l = [m EXCEPT !.step = s, !.id = i]
    <2>1. Carries(l, m) /\ l.step = s /\ l.id = i /\ l.keys = m.keys /\ l.failed = m.failed
      BY <1>6 DEF UserLocals, Carries
    <2>2. QED
      BY <1>1, <1>3, <1>6, <2>1 DEF Follows
  <1>7. CASE /\ Follows(m.step, s) /\ m.step \in {"look", "gather", "merge"}
             /\ l = [m EXCEPT !.step = s, !.keys = k]
    <2>1. l.step = s /\ Carries(l, m) /\ l.id = m.id /\ l.failed = m.failed
      BY <1>7 DEF UserLocals, Carries
    <2>2. QED
      BY <1>1, <1>3, <1>7, <2>1
  <1>8. CASE Follows(m.step, s) /\ "node" \in ops /\ l = [m EXCEPT !.step = s, !.failed = TRUE]
    <2>1. l.step = s /\ Carries(l, m) /\ l.id = m.id /\ l.keys = m.keys
      BY <1>8 DEF UserLocals, Carries
    <2>2. QED
      BY <1>1, <1>3, <1>8, <2>1
  <1>9. QED
    BY <1>2, <1>4, <1>5, <1>6, <1>7, <1>8

(* A quota or a file that is written is that of an account there is.       *)
LEMMA LoginsWritten ==
    ASSUME TypeInv, NEW n \in Names, os[n] # None,
           \/ \E q \in Quotas \cup {NoLimit} : os' = [os EXCEPT ![n].quota = q]
           \/ \E k \in SUBSET Keys : os' = [os EXCEPT ![n].keys = k]
    PROVE  /\ os'[n] # None /\ \A o \in Names \ {n} : os'[o] = os[o]
           /\ \/ os'[n].quota \in Quotas \cup {NoLimit} /\ os'[n].keys = os[n].keys
              \/ os'[n].keys \in SUBSET Keys /\ os'[n].quota = os[n].quota
  <1>1. os \in [Names -> Login \cup {None}]
    BY SameTypes DEF UsersTypeOK
  <1>2. PICK a \in Login : a = os[n]
    BY <1>1
  <1>3. CASE \E q \in Quotas \cup {NoLimit} : os' = [os EXCEPT ![n].quota = q]
    <2>1. PICK q, b : /\ q \in Quotas \cup {NoLimit}
                      /\ os' = [os EXCEPT ![n] = b] /\ b = [a EXCEPT !.quota = q]
      BY <1>2, <1>3
    <2>2. b \in Login /\ b.quota = q /\ b.keys = a.keys
      BY <2>1 DEF Login
    <2>3. QED
      BY <1>1, <1>2, <2>1, <2>2, UsersAssumption
  <1>4. CASE \E k \in SUBSET Keys : os' = [os EXCEPT ![n].keys = k]
    <2>1. PICK k, b : /\ k \in SUBSET Keys
                      /\ os' = [os EXCEPT ![n] = b] /\ b = [a EXCEPT !.keys = k]
      BY <1>2, <1>4
    <2>2. b \in Login /\ b.keys = k /\ b.quota = a.quota
      BY <2>1 DEF Login
    <2>3. QED
      BY <1>1, <1>2, <2>1, <2>2, UsersAssumption
  <1>5. QED
    BY <1>3, <1>4

LEMMA LoginStepUser ==
    ASSUME TypeInv, TypeInv', SingleInv, LoginInv, NEW t \in Threads, UserStep(t)
    PROVE  LoginInv'
  <1>1. PICK m \in UserLocals : m = task[t] /\ m.name \in Names
    BY UserFlow, UserTask DEF Flows
  <1>2. Become(t, task'[t]) /\ UNCHANGED ops
    BY UserFlow DEF Flows
  <1>3. \/ task'[t].step = "idle"
        \/ /\ task'[t].name = m.name
           /\ task'[t].id = m.id \/ m.step = "insert"
    BY <1>1, UserMoves DEF Carries
  <1>4. /\ user \in [Names -> UserRow \cup {None}] /\ os \in [Names -> Login \cup {None}]
        /\ member \in [Names -> SUBSET Accounts]
    BY SameTypes DEF UsersTypeOK, AccountsTypeOK
  <1>5. Orderly => NoneCharged /\ Logged(m)
    BY <1>1 DEF LoginInv
  <1>6. CASE HelperFails(t) \/ ReplyLost(t) \/ Note(t) \/ KeepKey(t) \/ StrikeKey(t)
    <2>1. task'[t].step = "idle" /\ UNCHANGED <<user, os, member>>
      BY <1>6, FinishFlow DEF HelperFails, ReplyLost, Note, KeepKey, StrikeKey, RowsUnchanged,
                              MachinesUnchanged, accountVars
    <2>2. QED
      BY <2>1, LoginQuiet
  <1>7. CASE Spread(t) \/ Limit(t)
    <2>1. UNCHANGED <<user, member>> /\ m.step \in {"spread", "limit"}
      BY <1>1, <1>7 DEF Spread, Limit, SetQuota, At, RowsUnchanged, accountVars
    <2>5. UNCHANGED os \/ (os[m.name] # None /\ os' = [os EXCEPT ![m.name].quota = m.quota])
      BY <1>1, <1>7 DEF Spread, Limit, SetQuota, Name
    <2>6. \A n \in Names : os[n] # None => os'[n] # None
      BY <1>1, <2>5, LoginsWritten DEF UserLocals
    <2>2. task'[t].step \in {"idle", "insert"}
      BY <1>7, FinishFlow, GotoFlow DEF Spread, Limit, SetQuota
    <2>3. QED
      BY <1>1, <1>3, <2>1, <2>2, <2>6, LoginQuiet
  <1>8. CASE EmptyNodes(t) \/ Look(t) \/ Gather(t) \/ Merge(t)
    <2>1. UNCHANGED <<user, os, member>>
      BY <1>8 DEF EmptyNodes, Look, Gather, Merge, GetKeys, RowsUnchanged, MachinesUnchanged,
                  accountVars
    <2>2. PICK s, l : /\ Become(t, l)
                      /\ \/ l = Idle
                         \/ \E f : l = [m EXCEPT !.step = s, !.failed = f]
                         \/ \E k : l = [m EXCEPT !.step = s, !.keys = k]
                         \/ l = [m EXCEPT !.step = s]
                      /\ \/ m.step = "look" /\ s = "note"
                         \/ m.step \in OwnedSteps /\ s \in OwnedSteps
      <3>1. CASE EmptyNodes(t)
        BY <1>1, <3>1 DEF EmptyNodes, Goto, At, OwnedSteps
      <3>2. CASE Look(t)
        <4>1. m.step = "look" /\ \E l, k : Become(t, l) /\ (l = Idle \/ l = [m EXCEPT !.step = "note", !.keys = k])
          BY <1>1, <3>2 DEF Look, GetKeys, At, Finish
        <4>2. QED
          BY <4>1
      <3>3. CASE Gather(t)
        <4>1. m.step = "gather" /\ \E l, k : Become(t, l) /\ (l = Idle \/ l = [m EXCEPT !.step = "merge", !.keys = k])
          BY <1>1, <3>3 DEF Gather, GetKeys, At, Finish
        <4>2. QED
          BY <4>1 DEF OwnedSteps
      <3>4. CASE Merge(t)
        <4>1. m.step = "merge" /\ \E l, k : Become(t, l) /\ (l = Idle \/ l = [m EXCEPT !.step = "set", !.keys = k])
          BY <1>1, <3>4 DEF Merge, At, Finish
        <4>2. QED
          BY <4>1 DEF OwnedSteps
      <3>5. QED
        BY <1>8, <3>1, <3>2, <3>3, <3>4
    <2>5. l.step \in {"idle", s}
      <3>1. CASE l = Idle
        BY <3>1 DEF Idle
      <3>2. CASE l # Idle
        BY <2>2, <3>2 DEF UserLocals
      <3>3. QED
        BY <3>1, <3>2
    <2>3. task'[t] = l
      BY <2>2, BecomeFlow
    <2>4. QED
      BY <1>1, <1>3, <2>1, <2>2, <2>3, <2>5, LoginQuiet DEF OwnedSteps
  <1>9. CASE Resize(t) \/ WriteKeys(t) \/ RewriteKeys(t)
    <2>1. UNCHANGED <<user, member>> /\ m.step \in OwnedSteps
      BY <1>1, <1>9 DEF Resize, WriteKeys, RewriteKeys, SetQuota, SetKeys, At, RowsUnchanged,
                        accountVars, OwnedSteps
    <2>5. \/ UNCHANGED os
          \/ os[m.name] # None /\ \/ os' = [os EXCEPT ![m.name].quota = m.quota]
                                  \/ os' = [os EXCEPT ![m.name].keys = m.keys]
      BY <1>1, <1>9 DEF Resize, WriteKeys, RewriteKeys, SetQuota, SetKeys, Name
    <2>6. \A n \in Names : os[n] # None => os'[n] # None
      BY <1>1, <2>5, LoginsWritten DEF UserLocals
    <2>2. task'[t].step \in {"idle", "resized", "keep", "strike"}
      BY <1>9, FinishFlow, GotoFlow DEF Resize, WriteKeys, RewriteKeys, SetQuota, SetKeys
    <2>3. QED
      BY <1>1, <1>3, <2>1, <2>2, <2>6, LoginQuiet DEF OwnedSteps
  <1>10. CASE InsertUser(t) \/ DeleteUserRow(t) \/ RecordQuota(t)
    <2>1. /\ UNCHANGED <<os, member>> /\ m.step \notin Quiet
      BY <1>1, <1>10 DEF InsertUser, DeleteUserRow, RecordQuota, MachinesUnchanged, accountVars, At,
                         Quiet, SaveSteps, ViewSteps
    <2>2. task'[t].step \in {"idle", "look"}
      <3>1. CASE Finish(t)
        BY <3>1, FinishFlow
      <3>2. CASE ~Finish(t)
        <4>1. PICK i, l : l = [m EXCEPT !.step = "look", !.id = i] /\ Become(t, l)
          BY <1>1, <1>10, <3>2 DEF InsertUser, DeleteUserRow, RecordQuota
        <4>2. l.step = "look"
          BY <4>1 DEF UserLocals
        <4>3. QED
          BY <4>1, <4>2, BecomeFlow
      <3>3. QED
        BY <3>1, <3>2
    <2>3. Orderly => NoneCharged' /\ Logged(task[t])'
      BY <1>5, <2>1, <2>2 DEF NoneCharged, Logged, OwnedSteps
    <2>4. QED
      BY <1>1, <1>2, <2>1, <2>3, LoginWork
  <1>11. CASE Provision(t) \/ InitLogin(t)
    <2>1. UNCHANGED user /\ m.step \in {"provision", "init"}
      BY <1>1, <1>11 DEF Provision, InitLogin, RowsUnchanged, At
    <2>2. CASE Finish(t) /\ UNCHANGED <<os, member>>
      <3>1. task'[t].step = "idle"
        BY <2>2, FinishFlow
      <3>2. QED
        BY <2>1, <2>2, <3>1, LoginQuiet
    <2>3. CASE ~(Finish(t) /\ UNCHANGED <<os, member>>)
      <3>1. /\ os'[m.name] # None /\ \A n \in Names \ {m.name} : os'[n] = os[n]
            /\ member' = [member EXCEPT ![m.name] = @ \cup {Site}]
        <4>1. CASE Provision(t)
          <5>1. PICK q \in Quotas \cup {NoLimit} :
                     os' = [os EXCEPT ![m.name] = [keys |-> {}, quota |-> q]]
            BY <1>1, <2>3, <4>1 DEF Provision, MachinesUnchanged, accountVars, Name, UserLocals
          <5>2. [keys |-> {}, quota |-> q] \in Login
            BY DEF Login
          <5>3. member' = [member EXCEPT ![m.name] = @ \cup {Site}]
            BY <1>1, <2>3, <4>1 DEF Provision, MachinesUnchanged, accountVars, Name, Enrol
          <5>4. QED
            BY <1>1, <1>4, <5>1, <5>2, <5>3, UsersAssumption
        <4>2. CASE InitLogin(t)
          BY <1>1, <1>4, <2>3, <4>2 DEF InitLogin, MachinesUnchanged, accountVars, Name, Enrol
        <4>3. QED
          BY <1>11, <4>1, <4>2
      <3>2. task'[t].step \in {"spread", "limit"} /\ task'[t].name = m.name
        <4>1. PICK s \in {"spread", "limit"} : Goto(t, s)
          BY <1>1, <1>11, <2>3 DEF Provision, InitLogin, MachinesUnchanged, accountVars, Name
        <4>2. QED
          BY <1>1, <4>1, UserGoes DEF Carries
      <3>3. Orderly => NoneCharged'
        BY <1>1, <1>4, <1>5, <3>1 DEF NoneCharged
      <3>4. Orderly => Logged(task[t])'
        BY <1>5, <2>1, <3>1, <3>2 DEF Logged, OwnedSteps
      <3>5. QED
        BY <1>1, <1>2, <2>1, <3>3, <3>4, LoginWork DEF Quiet, SaveSteps, ViewSteps
    <2>4. QED
      BY <2>2, <2>3
  <1>12. CASE RemoveLogin(t)
    <2>1. /\ UNCHANGED user /\ m.step = "remove"
          /\ os' = [os EXCEPT ![m.name] = None] \/ UNCHANGED os
          /\ member' = [member EXCEPT ![m.name] = {}]
      BY <1>1, <1>12, RemoveEffect
    <2>2. task'[t].step \in {"idle", "delete"}
      BY <1>12, FinishFlow, GotoFlow DEF RemoveLogin
    <2>3. Orderly => NoneCharged'
      BY <1>1, <1>4, <1>5, <2>1 DEF NoneCharged
    <2>4. Orderly => Logged(task[t])'
      BY <1>3, <1>5, <2>1, <2>2 DEF Logged, OwnedSteps
    <2>5. QED
      BY <1>1, <1>2, <2>1, <2>3, <2>4, LoginWork DEF Quiet, SaveSteps, ViewSteps
  <1>13. QED
    BY <1>6, <1>7, <1>8, <1>9, <1>10, <1>11, <1>12 DEF UserStep

(* Nobody outside takes an account away or changes its quota.              *)
LEMMA OutsideKeeps ==
    ASSUME TypeInv, Outside
    PROVE  \A n \in Names : /\ os[n] # None => /\ os'[n] # None /\ os'[n].quota = os[n].quota
                                              /\ os[n].keys \subseteq os'[n].keys
                            /\ os[n] = None /\ user[n] # None => os'[n] = None
  <1>1. os \in [Names -> Login \cup {None}]
    BY SameTypes DEF UsersTypeOK
  <1>2. CASE \E n \in Names, k \in Keys : OwnEdit(n, k)
    <2>1. PICK o \in Names, k \in Keys : os[o] # None /\ os' = [os EXCEPT ![o].keys = @ \cup {k}]
      BY <1>2 DEF OwnEdit
    <2>2. PICK a \in Login : a = os[o]
      BY <1>1, <2>1
    <2>3. PICK ks : ks = a.keys \cup {k}
      OBVIOUS
    <2>4. PICK b : os' = [os EXCEPT ![o] = b] /\ b = [a EXCEPT !.keys = ks]
      BY <2>1, <2>2, <2>3
    <2>5. b \in Login /\ b.quota = a.quota /\ a.keys \subseteq b.keys
      BY <2>3, <2>4 DEF Login
    <2>6. QED
      BY <1>1, <2>1, <2>2, <2>4, <2>5, UsersAssumption
  <1>3. CASE \E n \in Names, q \in Quotas : ByHand(n, q)
    <2>1. PICK o, a : /\ o \in Names
                      /\ os[o] = None /\ user[o] = None /\ os' = [os EXCEPT ![o] = a]
      BY <1>3 DEF ByHand
    <2>2. QED
      BY <1>1, <2>1
  <1>4. QED
    BY <1>2, <1>3 DEF Outside

LEMMA LoginOutside ==
    ASSUME TypeInv, TypeInv', LoginInv,
           Outside \/ Jobs \/ (\E r \in Rows : Discard(r)) \/ UNCHANGED deskAll
    PROVE  LoginInv'
  <1>1. UNCHANGED <<ops, task, user, member>>
    BY DEF Outside, Jobs, OwnEdit, ByHand, JobStart, JobEnd, Discard, deskAll, deskVars, peopleVars,
           accountVars, PeopleUnchanged
  <1>2. \A n \in Names : os[n] # None => os'[n] # None
    <2>2. CASE Outside
      BY <2>2, OutsideKeeps
    <2>3. CASE Jobs \/ (\E r \in Rows : Discard(r)) \/ UNCHANGED deskAll
      BY <2>3 DEF Jobs, JobStart, JobEnd, Discard, deskAll, peopleVars, PeopleUnchanged
    <2>4. QED
      BY <2>2, <2>3
  <1>3. Orderly => NoneCharged'
    BY <1>1, <1>2 DEF LoginInv, NoneCharged
  <1>4. Orderly' = Orderly
    BY <1>1 DEF Orderly
  <1>5. ASSUME Orderly, NEW s \in Threads PROVE Logged(task[s])'
    <2>1. Logged(task[s])
      BY <1>5 DEF LoginInv
    <2>2. PICK l : l = task[s] /\ l = task'[s]
      BY <1>1
    <2>3. /\ l.step \in UserSteps => l.name \in Names
          /\ l.step \in MemberSteps => l.user \in Names
      BY <2>2, NamesTyped
    <2>4. QED
      BY <1>1, <1>2, <2>1, <2>2, <2>3 DEF Logged, UserSteps, MemberSteps
  <1>6. QED
    BY <1>3, <1>4, <1>5 DEF LoginInv

LEMMA LoginCorrect == TenantsSpec => []LoginInv
  <1>1. ASSUME Init PROVE LoginInv
    BY <1>1 DEF Init, DeskInit, UsersInit, AccountsInit, Idle, LoginInv, NoneCharged, Logged,
                OwnedSteps
  <1>2. TypeInv /\ TypeInv' /\ SingleInv /\ LoginInv /\ [Next]_deskAll => LoginInv'
    BY LoginOther, LoginRequest, LoginStepUser, LoginOutside DEF Next
  <1>3. QED
    BY <1>1, <1>2, TypesCorrect, SingleCorrect, PTL DEF TenantsSpec
-----------------------------------------------------------------------------
(* Accounts on every machine                                               *)

(* A step changes what concerns the user it works for.                     *)
LEMMA UserTouches ==
    ASSUME TypeInv, NEW t \in Threads, UserStep(t), NEW n \in Names \ {task[t].name}
    PROVE  user'[n] = user[n] /\ os'[n] = os[n] /\ keyRow'[n] = keyRow[n] /\ (n \in nodes' <=> n \in nodes)
  <1>1. /\ user \in [Names -> UserRow \cup {None}] /\ os \in [Names -> Login \cup {None}]
        /\ keyRow \in [Names -> SUBSET Keys]
    BY SameTypes DEF UsersTypeOK
  <1>2. CASE Look(t) \/ Gather(t) \/ HelperFails(t) \/ ReplyLost(t)
    BY <1>2 DEF Look, Gather, GetKeys, HelperFails, ReplyLost, RowsUnchanged, MachinesUnchanged
  <1>3. CASE Provision(t) \/ Spread(t) \/ InitLogin(t) \/ EmptyNodes(t) \/ RemoveLogin(t)
    <2>1. UNCHANGED <<user, keyRow>>
      BY <1>3 DEF Provision, Spread, InitLogin, EmptyNodes, RemoveLogin, RowsUnchanged
    <2>2. os'[n] = os[n]
      BY <1>1, <1>3 DEF Provision, Spread, InitLogin, EmptyNodes, RemoveLogin, MachinesUnchanged, Name
    <2>3. n \in nodes' <=> n \in nodes
      BY <1>3 DEF Provision, Spread, InitLogin, EmptyNodes, RemoveLogin, MachinesUnchanged, Name
    <2>4. QED
      BY <2>1, <2>2, <2>3
  <1>4. CASE Limit(t) \/ Resize(t) \/ WriteKeys(t) \/ RewriteKeys(t)
    <2>1. UNCHANGED <<user, keyRow, nodes>>
      BY <1>4 DEF Limit, Resize, WriteKeys, RewriteKeys, SetQuota, SetKeys, RowsUnchanged
    <2>2. \/ UNCHANGED os
          \/ \E a : os' = [os EXCEPT ![task[t].name] = a]
      BY <1>4 DEF Limit, Resize, WriteKeys, RewriteKeys, SetQuota, SetKeys, Name
    <2>3. QED
      BY <1>1, <2>1, <2>2
  <1>5. CASE InsertUser(t) \/ RecordQuota(t) \/ DeleteUserRow(t)
    <2>1. UNCHANGED <<os, nodes>>
      BY <1>5 DEF InsertUser, RecordQuota, DeleteUserRow, MachinesUnchanged
    <2>2. UNCHANGED user \/ \E a : user' = [user EXCEPT ![task[t].name] = a]
      BY <1>5 DEF InsertUser, RecordQuota, DeleteUserRow, RowsUnchanged, Name
    <2>3. UNCHANGED keyRow \/ \E a : keyRow' = [keyRow EXCEPT ![task[t].name] = a]
      BY <1>5 DEF InsertUser, RecordQuota, DeleteUserRow, RowsUnchanged, Name
    <2>4. QED
      BY <1>1, <2>1, <2>2, <2>3
  <1>6. CASE Note(t) \/ Merge(t) \/ KeepKey(t) \/ StrikeKey(t)
    <2>1. UNCHANGED <<user, os, nodes>>
      BY <1>6 DEF Note, Merge, KeepKey, StrikeKey, MachinesUnchanged
    <2>2. UNCHANGED keyRow \/ \E a : keyRow' = [keyRow EXCEPT ![task[t].name] = a]
      BY <1>6 DEF Note, Merge, KeepKey, StrikeKey, ImportKeys, Name
    <2>3. QED
      BY <1>1, <2>1, <2>2
  <1>7. QED
    BY <1>2, <1>3, <1>4, <1>5, <1>6 DEF UserStep

(* The other handlers have nothing to do with users.                       *)
LEMMA NotUsers ==
    ASSUME TypeInv, NEW t \in Threads,
           \/ AccountRequest(t) \/ AccountStep(t) \/ ImageRequest(t) \/ ImageStep(t)
           \/ PlanRequest(t) \/ PlanStep(t)
    PROVE  /\ Become(t, task'[t]) /\ UNCHANGED <<ops, peopleVars>>
           /\ task[t].step \notin UserSteps /\ task'[t].step \notin UserSteps
  <1>1. CASE AccountRequest(t) \/ ImageRequest(t) \/ PlanRequest(t)
    <2>1. Become(t, task'[t]) /\ UNCHANGED <<ops, peopleVars>> /\ task[t].step = "idle"
      BY <1>1, AccountRequestFlow, ImageRequestFlow, PlanRequestFlow DEF Flows
    <2>2. task'[t].step \in {"update", "check", "join", "leave", "save", "rename", "unlink", "order",
                            "idle", "flip", "unplan", "ask", "charge"}
      BY <1>1, AccountRequestFlow, ImageRequestFlow, PlanRequestFlow DEF Flows
    <2>3. QED
      BY <2>1, <2>2 DEF UserSteps
  <1>2. CASE AccountStep(t)
    BY <1>2, AccountFlow DEF Flows, AddSteps, DeleteSteps, MemberSteps, UserSteps
  <1>3. CASE ImageStep(t)
    BY <1>3, ImageFlow DEF Flows, ImageSteps, SaveSteps, UserSteps
  <1>4. CASE PlanStep(t)
    BY <1>4, PlanFlow DEF Flows, PlanSteps, BookSteps, UserSteps
  <1>5. QED
    BY <1>1, <1>2, <1>3, <1>4

LEMMA ElsewhereUsers ==
    ASSUME Jobs \/ (\E r \in Rows : Discard(r)) \/ UNCHANGED deskAll
    PROVE  UNCHANGED <<ops, task, peopleVars>>
  BY DEF Jobs, JobStart, JobEnd, Discard, deskAll, deskVars, peopleVars, PeopleUnchanged

HasLogins(n) ==
    user[n] # None /\ user[n].mode = "provision" =>
        (os[n] # None /\ n \in nodes) \/ Serving(n, {"remove", "delete"})

(* An account that is to become a user of the portal's own is on every     *)
(* machine, and one that is being removed left every node.                 *)
Placed(l) ==
    /\ l.step \in {"init", "limit"} => l.mode = "existing"
    /\ l.step = "insert" /\ l.mode = "provision" => l.name \in nodes
    /\ l.step \in {"empty", "remove"} => ~l.failed

Reliable == Orderly /\ "node" \notin ops

NodeInv ==
    Reliable => /\ \A n \in Names : HasLogins(n)
                /\ \A t \in Threads : Placed(task[t])

LEMMA NodeSame ==
    ASSUME TypeInv, NodeInv, UNCHANGED <<ops, user>>, nodes \subseteq nodes',
           \A n \in Names : os[n] # None => os'[n] # None,
           Reliable => \A s \in Threads :
               \/ task'[s] = task[s]
               \/ task[s].step \notin {"remove", "delete"} /\ Placed(task[s])'
    PROVE  NodeInv'
  <1>1. Reliable' = Reliable
    BY DEF Reliable, Orderly
  <1>2. ASSUME Reliable, NEW n \in Names PROVE HasLogins(n)'
    BY <1>2 DEF NodeInv, HasLogins, Serving
  <1>3. ASSUME Reliable, NEW s \in Threads PROVE Placed(task[s])'
    BY <1>3 DEF NodeInv, Placed
  <1>4. QED
    BY <1>1, <1>2, <1>3 DEF NodeInv

LEMMA NodeWork ==
    ASSUME TypeInv, SingleInv, NodeInv, UNCHANGED ops, NEW t \in Threads, UserStep(t),
           task[t].step \notin Quiet, NEW o, o = task[t].name,
           Reliable => HasLogins(o)' /\ Placed(task[t])'
    PROVE  NodeInv'
  <1>1. Reliable' = Reliable /\ (Reliable => Calm)
    BY DEF Reliable, Orderly, Calm
  <1>2. \A s \in Threads \ {t} : task'[s] = task[s]
    BY UserFlow, BecomeFlow DEF Flows
  <1>3. ASSUME Reliable, NEW n \in Names PROVE HasLogins(n)'
    <2>1. CASE n = o
      BY <1>3, <2>1
    <2>2. CASE n # o
      <3>1. ~Serving(n, {"remove", "delete"})
        BY <1>1, <1>3, <2>2, Alone DEF Serving, Quiet, SaveSteps, ViewSteps
      <3>2. HasLogins(n)
        BY <1>3 DEF NodeInv
      <3>3. user'[n] = user[n] /\ os'[n] = os[n] /\ (n \in nodes' <=> n \in nodes)
        BY <2>2, UserTouches
      <3>4. QED
        BY <3>1, <3>2, <3>3 DEF HasLogins
    <2>3. QED
      BY <2>1, <2>2
  <1>4. ASSUME Reliable, NEW s \in Threads PROVE Placed(task[s])'
    <2>1. CASE s = t
      BY <1>4, <2>1
    <2>2. CASE s # t
      <3>1. task'[s] = task[s] /\ task[s].step \in Quiet
        BY <1>1, <1>2, <1>4, <2>2, Alone
      <3>2. QED
        BY <3>1 DEF Placed, Quiet, SaveSteps, ViewSteps
    <2>3. QED
      BY <2>1, <2>2
  <1>5. QED
    BY <1>1, <1>3, <1>4 DEF NodeInv

LEMMA NodeStepUser ==
    ASSUME TypeInv, TypeInv', SingleInv, LoginInv, NodeInv, NEW t \in Threads, UserStep(t)
    PROVE  NodeInv'
  <1>1. PICK m \in UserLocals : m = task[t] /\ m.name \in Names
    BY UserFlow, UserTask DEF Flows
  <1>2. /\ Become(t, task'[t]) /\ UNCHANGED ops
        /\ \A s \in Threads \ {t} : task'[s] = task[s]
    BY UserFlow, BecomeFlow DEF Flows
  <1>3. \/ task'[t].step = "idle"
        \/ /\ Follows(m.step, task'[t].step)
           /\ task'[t].name = m.name /\ task'[t].mode = m.mode
           /\ Reliable => task'[t].failed = m.failed
    BY <1>1, UserMoves DEF Carries, Reliable
  <1>4. /\ user \in [Names -> UserRow \cup {None}] /\ os \in [Names -> Login \cup {None}]
    BY SameTypes DEF UsersTypeOK
  <1>5. Reliable => Orderly /\ Logged(m) /\ Placed(m) /\ HasLogins(m.name)
    BY <1>1 DEF LoginInv, NodeInv, Reliable
  <1>6. Reliable => "lost" \notin ops
    BY DEF Reliable, Orderly
  <1>7. task'[t].step # "insert" /\ Reliable => Placed(task[t])'
    BY <1>3, <1>5 DEF Placed, Follows
  <1>8. CASE \/ HelperFails(t) \/ ReplyLost(t) \/ Note(t) \/ KeepKey(t) \/ StrikeKey(t)
             \/ Look(t) \/ Gather(t) \/ Merge(t)
    <2>1. UNCHANGED <<user, os, nodes>>
      BY <1>8 DEF HelperFails, ReplyLost, Note, KeepKey, StrikeKey, Look, Gather, GetKeys, Merge,
                  RowsUnchanged, MachinesUnchanged
    <2>2. Reliable => m.step \notin {"remove", "delete", "spread", "limit"}
                      \/ (HelperFails(t) /\ m.step \in {"spread", "limit"})
      BY <1>1, <1>6, <1>8 DEF HelperFails, ReplyLost, Note, KeepKey, StrikeKey, Look, Gather, GetKeys,
                              Merge, At
    <2>3. Reliable => task'[t].step # "insert"
      BY <1>3, <2>2, FinishFlow DEF Follows, HelperFails
    <2>4. QED
      BY <1>1, <1>2, <1>7, <2>1, <2>2, <2>3, NodeSame
  <1>9. CASE Provision(t) \/ InitLogin(t) \/ Resize(t) \/ WriteKeys(t) \/ RewriteKeys(t)
    <2>1. UNCHANGED <<user, nodes>> /\ m.step \in {"provision", "init", "resize", "set", "reset"}
      BY <1>1, <1>9 DEF Provision, InitLogin, Resize, WriteKeys, RewriteKeys, SetQuota, SetKeys, At,
                        RowsUnchanged, MachinesUnchanged
    <2>2. \/ UNCHANGED os
          \/ os[m.name] # None /\ \/ os' = [os EXCEPT ![m.name].quota = m.quota]
                                  \/ os' = [os EXCEPT ![m.name].keys = m.keys]
          \/ os[m.name] = None /\ \E a : os' = [os EXCEPT ![m.name] = a]
      BY <1>1, <1>9 DEF Provision, InitLogin, Resize, WriteKeys, RewriteKeys, SetQuota, SetKeys,
                        MachinesUnchanged, Name
    <2>3. \A n \in Names : os[n] # None => os'[n] # None
      <3>1. CASE os[m.name] = None /\ \E a : os' = [os EXCEPT ![m.name] = a]
        BY <1>1, <1>4, <3>1
      <3>2. CASE ~(os[m.name] = None /\ \E a : os' = [os EXCEPT ![m.name] = a])
        BY <1>1, <2>2, <3>2, LoginsWritten DEF UserLocals
      <3>3. QED
        BY <3>1, <3>2
    <2>4. task'[t].step # "insert"
      BY <1>3, <2>1 DEF Follows
    <2>5. QED
      BY <1>1, <1>2, <1>7, <2>1, <2>3, <2>4, NodeSame
  <1>10. CASE Spread(t)
    <2>1. UNCHANGED <<user, os>> /\ nodes' = nodes \cup {m.name} /\ m.step = "spread"
      BY <1>1, <1>10 DEF Spread, RowsUnchanged, At, Name
    <2>2. Reliable => Placed(task[t])'
      BY <1>3, <2>1 DEF Placed, Follows
    <2>3. QED
      BY <1>1, <1>2, <2>1, <2>2, NodeSame
  <1>11. CASE Limit(t)
    <2>1. UNCHANGED <<user, nodes>> /\ m.step = "limit"
      BY <1>1, <1>11 DEF Limit, SetQuota, RowsUnchanged, At
    <2>2. \/ UNCHANGED os
          \/ os[m.name] # None /\ os' = [os EXCEPT ![m.name].quota = m.quota]
      BY <1>1, <1>11 DEF Limit, SetQuota, Name
    <2>3. \A n \in Names : os[n] # None => os'[n] # None
      BY <1>1, <2>2, LoginsWritten DEF UserLocals
    <2>4. Reliable => Placed(task[t])'
      BY <1>3, <1>5, <2>1 DEF Placed, Follows
    <2>5. QED
      BY <1>1, <1>2, <2>1, <2>3, <2>4, NodeSame
  <1>12. CASE EmptyNodes(t)
    <2>1. UNCHANGED <<user, os>> /\ m.step = "empty"
      BY <1>1, <1>12 DEF EmptyNodes, RowsUnchanged, At
    <2>2. task'[t].step \in {"remove", "delete"}
      <3>1. task'[t].step # "idle"
        <4>1. CASE Goto(t, "remove") \/ Goto(t, "delete")
          <5>1. task'[t].step \in {"remove", "delete"}
            BY <4>1, GotoFlow
          <5>2. QED
            BY <5>1
        <4>2. CASE Become(t, [task[t] EXCEPT !.step = "remove", !.failed = TRUE])
          <5>1. PICK l : l = [m EXCEPT !.step = "remove", !.failed = TRUE] /\ Become(t, l)
            BY <1>1, <4>2
          <5>2. l.step = "remove"
            BY <5>1 DEF UserLocals
          <5>3. QED
            BY <5>1, <5>2, BecomeFlow
        <4>3. QED
          BY <1>12, <4>1, <4>2 DEF EmptyNodes
      <3>2. QED
        BY <1>3, <2>1, <3>1 DEF Follows
    <2>3. HasLogins(m.name)'
      BY <1>3, <2>2 DEF HasLogins, Serving
    <2>4. QED
      BY <1>1, <1>2, <1>7, <2>1, <2>2, <2>3, NodeWork DEF Quiet, SaveSteps, ViewSteps
  <1>13. CASE RemoveLogin(t)
    <2>1. /\ UNCHANGED user /\ m.step = "remove"
          /\ "node" \in ops \/ (Finish(t) /\ m.failed) \/ Goto(t, "delete")
      BY <1>1, <1>13, RemoveEffect
    <2>2. Reliable => task'[t].step = "delete" /\ task'[t].name = m.name
      <3>1. Reliable => Goto(t, "delete")
        BY <1>5, <2>1 DEF Placed, Reliable
      <3>2. QED
        BY <1>1, <3>1, UserGoes DEF Carries
    <2>3. Reliable => HasLogins(m.name)'
      BY <2>2 DEF HasLogins, Serving
    <2>4. Reliable => Placed(task[t])'
      BY <1>7, <2>2
    <2>5. QED
      BY <1>1, <1>2, <2>1, <2>3, <2>4, NodeWork DEF Quiet, SaveSteps, ViewSteps
  <1>14. CASE InsertUser(t) \/ RecordQuota(t) \/ DeleteUserRow(t)
    <2>1. UNCHANGED <<os, nodes>> /\ m.step \in {"insert", "resized", "delete"}
      BY <1>1, <1>14 DEF InsertUser, RecordQuota, DeleteUserRow, MachinesUnchanged, At
    <2>2. Reliable => HasLogins(m.name)'
      <3>1. CASE DeleteUserRow(t)
        <4>1. m.step = "delete" /\ (user' = [user EXCEPT ![m.name] = None] \/ user[m.name] = None
                                    \/ user[m.name].id # m.id)
          BY <1>1, <3>1 DEF DeleteUserRow, At, Mine, Name
        <4>2. Reliable => user'[m.name] = None
          BY <1>1, <1>4, <1>5, <4>1 DEF Logged, OwnedSteps
        <4>3. QED
          BY <4>2 DEF HasLogins
      <3>2. CASE RecordQuota(t)
        <4>1. m.step = "resized" /\ (UNCHANGED user \/ (user[m.name] # None /\ user' = [user EXCEPT ![m.name].quota = m.quota]))
          BY <1>1, <3>2 DEF RecordQuota, At, Mine, Name
        <4>2. user'[m.name] # None => user[m.name] # None /\ user'[m.name].mode = user[m.name].mode
          <5>1. CASE UNCHANGED user
            BY <5>1
          <5>2. CASE user[m.name] # None /\ user' = [user EXCEPT ![m.name].quota = m.quota]
            <6>1. PICK u \in UserRow : u = user[m.name]
              BY <1>1, <1>4, <5>2
            <6>2. PICK v : v = [u EXCEPT !.quota = m.quota] /\ user' = [user EXCEPT ![m.name] = v]
              BY <5>2, <6>1
            <6>3. v.mode = u.mode
              BY <6>2 DEF UserRow
            <6>4. QED
              BY <1>1, <1>4, <5>2, <6>1, <6>2, <6>3
          <5>3. QED
            BY <4>1, <5>1, <5>2
        <4>3. Reliable => ~Serving(m.name, {"remove", "delete"})
          BY <1>1, <4>1, Alone DEF Serving, Quiet, SaveSteps, ViewSteps, Reliable, Orderly, Calm
        <4>4. QED
          BY <1>5, <2>1, <4>2, <4>3 DEF HasLogins
      <3>3. CASE InsertUser(t)
        <4>1. m.step = "insert"
          BY <1>1, <3>3 DEF InsertUser, At
        <4>2. Reliable => user[m.name] = None /\ os[m.name] # None
          BY <1>5, <4>1 DEF Logged
        <4>3. Reliable => \E i, q : user' = [user EXCEPT ![m.name] = [id |-> i, mode |-> m.mode, quota |-> q]]
          BY <1>1, <3>3, <4>2 DEF InsertUser, Name
        <4>4. ASSUME Reliable PROVE user'[m.name].mode = m.mode
          <5>1. PICK v, i, q : user' = [user EXCEPT ![m.name] = v] /\ v = [id |-> i, mode |-> m.mode, quota |-> q]
            BY <4>3, <4>4
          <5>2. v.mode = m.mode
            BY <5>1
          <5>3. QED
            BY <1>1, <1>4, <5>1, <5>2
        <4>5. Reliable /\ m.mode = "provision" => m.name \in nodes
          BY <1>5, <4>1 DEF Placed
        <4>6. QED
          BY <2>1, <4>2, <4>4, <4>5 DEF HasLogins
      <3>4. QED
        BY <1>14, <3>1, <3>2, <3>3
    <2>3. task'[t].step # "insert"
      BY <1>3, <2>1 DEF Follows
    <2>4. QED
      BY <1>1, <1>2, <1>7, <2>1, <2>2, <2>3, NodeWork DEF Quiet, SaveSteps, ViewSteps
  <1>15. QED
    BY <1>8, <1>9, <1>10, <1>11, <1>12, <1>13, <1>14 DEF UserStep

LEMMA NodeStep ==
    ASSUME TypeInv, TypeInv', SingleInv, LoginInv, NodeInv, [Next]_deskAll
    PROVE  NodeInv'
  <1>1. ASSUME NEW t \in Threads, \/ AccountRequest(t) \/ AccountStep(t) \/ ImageRequest(t)
                                  \/ ImageStep(t) \/ PlanRequest(t) \/ PlanStep(t)
        PROVE  NodeInv'
    <2>1. /\ \A s \in Threads \ {t} : task'[s] = task[s]
          /\ UNCHANGED <<ops, peopleVars>>
          /\ task[t].step \notin UserSteps /\ task'[t].step \notin UserSteps
      BY <1>1, NotUsers, BecomeFlow
    <2>2. Placed(task[t])' /\ task[t].step \notin {"remove", "delete"}
      BY <2>1 DEF Placed, UserSteps
    <2>3. QED
      BY <2>1, <2>2, NodeSame DEF peopleVars
  <1>2. ASSUME NEW t \in Threads, UserRequest(t) PROVE NodeInv'
    <2>1. /\ \A s \in Threads \ {t} : task'[s] = task[s]
          /\ UNCHANGED <<ops, peopleVars>> /\ task[t].step = "idle"
      BY <1>2, UserRequestFlow, BecomeFlow DEF Flows
    <2>2. Placed(task[t])'
      BY <1>2, UserAsked DEF Creates, Changes, Placed
    <2>3. QED
      BY <2>1, <2>2, NodeSame DEF peopleVars
  <1>3. ASSUME Jobs \/ (\E r \in Rows : Discard(r)) \/ UNCHANGED deskAll PROVE NodeInv'
    BY <1>3, ElsewhereUsers, NodeSame DEF peopleVars
  <1>4. ASSUME Outside PROVE NodeInv'
    <2>1. UNCHANGED <<ops, task, user>> /\ nodes \subseteq nodes'
      BY <1>4 DEF Outside, OwnEdit, ByHand, deskVars
    <2>2. \A n \in Names : os[n] # None => os'[n] # None
      BY <1>4, OutsideKeeps
    <2>3. QED
      BY <2>1, <2>2, NodeSame
  <1>5. QED
    BY <1>1, <1>2, <1>3, <1>4, NodeStepUser DEF Next

(* A provisioned user has an account on the management node and the       *)
(* compute nodes until his deletion has begun, and nobody without an       *)
(* account is a member of an account in Slurm.                             *)
THEOREM RowHasLoginCorrect == TenantsSpec => []RowHasLogin
  <1>1. ASSUME TypeInv, Init PROVE NodeInv
    <2>1. /\ \A t \in Threads : task[t].step = "idle"
          /\ \A n \in Names : user[n] # None => os[n] # None /\ n \in nodes
      <3>1. [keys |-> {}, quota |-> FirstQuota] \in Login
        BY TenantsAssumption DEF Login
      <3>2. QED
        BY <1>1, <3>1, UsersAssumption DEF Init, DeskInit, UsersInit, Idle
    <2>2. QED
      BY <2>1 DEF NodeInv, HasLogins, Placed
  <1>2. TypeInv /\ TypeInv' /\ SingleInv /\ LoginInv /\ NodeInv /\ [Next]_deskAll => NodeInv'
    BY NodeStep
  <1>3. LoginInv /\ NodeInv => RowHasLogin
    BY DEF LoginInv, NoneCharged, NodeInv, Reliable, HasLogins, RowHasLogin
  <1>4. QED
    BY <1>1, <1>2, <1>3, TypesCorrect, SingleCorrect, LoginCorrect, PTL DEF TenantsSpec
-----------------------------------------------------------------------------
(* Quotas                                                                  *)

Agrees(n) ==
    user[n] # None /\ os[n] # None => user[n].quota = os[n].quota \/ Serving(n, {"resized"})

(* The quota a handler is about to record is the one it has set.           *)
Sized(l) ==
    /\ l.step \in {"spread", "insert"} => os[l.name].quota = l.quota
    /\ l.step = "resized" => os[l.name] # None /\ os[l.name].quota = l.quota

Measured == Orderly /\ "set-quota" \notin ops

QuotaInv ==
    Measured => /\ \A n \in Names : Agrees(n)
                /\ \A t \in Threads : Sized(task[t])

LEMMA QuotaSame ==
    ASSUME TypeInv, LoginInv, QuotaInv, UNCHANGED <<ops, user>>,
           Measured => \A n \in Names :
               /\ os[n] # None => os'[n] # None /\ os'[n].quota = os[n].quota
               /\ os[n] = None => os'[n] = None \/ user[n] = None,
           Measured => \A s \in Threads :
               \/ task'[s] = task[s]
               \/ task[s].step # "resized" /\ Sized(task[s])'
    PROVE  QuotaInv'
  <1>1. Measured' = Measured /\ (Measured => Orderly)
    BY DEF Measured, Orderly
  <1>2. ASSUME Measured, NEW n \in Names PROVE Agrees(n)'
    BY <1>2 DEF QuotaInv, Agrees, Serving
  <1>3. ASSUME Measured, NEW s \in Threads PROVE Sized(task[s])'
    <2>1. CASE task'[s] = task[s]
      <3>1. PICK l : l = task[s] /\ l = task'[s]
        BY <2>1
      <3>2. Sized(l) /\ Logged(l)
        BY <1>1, <1>3, <3>1 DEF QuotaInv, LoginInv
      <3>3. l.step \in UserSteps => l.name \in Names
        BY <3>1, UserTask
      <3>4. /\ l.step \in {"spread", "insert"} => os'[l.name].quota = l.quota
            /\ l.step = "resized" => os'[l.name] # None /\ os'[l.name].quota = l.quota
        BY <1>3, <3>2, <3>3 DEF Sized, Logged, UserSteps
      <3>5. QED
        BY <3>1, <3>4 DEF Sized
    <2>2. QED
      BY <1>3, <2>1
  <1>4. QED
    BY <1>1, <1>2, <1>3 DEF QuotaInv

LEMMA QuotaWork ==
    ASSUME TypeInv, SingleInv, QuotaInv, UNCHANGED ops, NEW t \in Threads, UserStep(t),
           task[t].step \notin Quiet, NEW o, o = task[t].name,
           Measured => Agrees(o)' /\ Sized(task[t])'
    PROVE  QuotaInv'
  <1>1. Measured' = Measured /\ (Measured => Calm)
    BY DEF Measured, Orderly, Calm
  <1>2. \A s \in Threads \ {t} : task'[s] = task[s]
    BY UserFlow, BecomeFlow DEF Flows
  <1>3. ASSUME Measured, NEW n \in Names PROVE Agrees(n)'
    <2>1. CASE n = o
      BY <1>3, <2>1
    <2>2. CASE n # o
      <3>1. ~Serving(n, {"resized"})
        BY <1>1, <1>3, <2>2, Alone DEF Serving, Quiet, SaveSteps, ViewSteps
      <3>2. Agrees(n)
        BY <1>3 DEF QuotaInv
      <3>3. user'[n] = user[n] /\ os'[n] = os[n]
        BY <2>2, UserTouches
      <3>4. QED
        BY <3>1, <3>2, <3>3 DEF Agrees
    <2>3. QED
      BY <2>1, <2>2
  <1>4. ASSUME Measured, NEW s \in Threads PROVE Sized(task[s])'
    <2>1. CASE s = t
      BY <1>4, <2>1
    <2>2. CASE s # t
      <3>1. task'[s] = task[s] /\ task[s].step \in Quiet
        BY <1>1, <1>2, <1>4, <2>2, Alone
      <3>2. QED
        BY <3>1 DEF Sized, Quiet, SaveSteps, ViewSteps
    <2>3. QED
      BY <2>1, <2>2
  <1>5. QED
    BY <1>1, <1>3, <1>4 DEF QuotaInv

LEMMA QuotaStepUser ==
    ASSUME TypeInv, TypeInv', SingleInv, LoginInv, QuotaInv, NEW t \in Threads, UserStep(t)
    PROVE  QuotaInv'
  <1>1. PICK m \in UserLocals : m = task[t] /\ m.name \in Names
    BY UserFlow, UserTask DEF Flows
  <1>2. /\ Become(t, task'[t]) /\ UNCHANGED ops
        /\ \A s \in Threads \ {t} : task'[s] = task[s]
    BY UserFlow, BecomeFlow DEF Flows
  <1>3. \/ task'[t].step = "idle"
        \/ /\ Follows(m.step, task'[t].step)
           /\ task'[t].name = m.name /\ task'[t].quota = m.quota
    BY <1>1, UserMoves DEF Carries
  <1>4. /\ user \in [Names -> UserRow \cup {None}] /\ os \in [Names -> Login \cup {None}]
    BY SameTypes DEF UsersTypeOK
  <1>5. Measured => Orderly /\ Logged(m) /\ Sized(m) /\ Agrees(m.name) /\ "lost" \notin ops
    BY <1>1 DEF LoginInv, QuotaInv, Measured, Orderly
  <1>6. task'[t].step \notin {"spread", "insert", "resized"} => Sized(task[t])'
    BY DEF Sized
  <1>7. CASE \/ HelperFails(t) \/ ReplyLost(t) \/ Note(t) \/ KeepKey(t) \/ StrikeKey(t)
             \/ Look(t) \/ Gather(t) \/ Merge(t) \/ InitLogin(t) \/ EmptyNodes(t)
    <2>1. UNCHANGED <<user, os>>
      BY <1>7 DEF HelperFails, ReplyLost, Note, KeepKey, StrikeKey, Look, Gather, GetKeys, Merge,
                  InitLogin, EmptyNodes, RowsUnchanged, MachinesUnchanged
    <2>2. \/ Measured => m.step \notin {"resized", "spread", "limit", "provision", "resize"}
          \/ HelperFails(t) /\ m.step # "resized"
      BY <1>1, <1>5, <1>7 DEF HelperFails, ReplyLost, Note, KeepKey, StrikeKey, Look, Gather, GetKeys,
                              Merge, InitLogin, EmptyNodes, At
    <2>3. Measured => m.step # "resized" /\ task'[t].step \notin {"spread", "insert", "resized"}
      BY <1>3, <2>2, FinishFlow DEF Follows, HelperFails
    <2>4. QED
      BY <1>1, <1>2, <1>6, <2>1, <2>3, QuotaSame
  <1>8. CASE Provision(t)
    <2>1. UNCHANGED user /\ m.step = "provision"
      BY <1>1, <1>8 DEF Provision, RowsUnchanged, At
    <2>2. CASE Finish(t) /\ UNCHANGED os
      BY <1>1, <1>2, <1>6, <2>1, <2>2, FinishFlow, QuotaSame
    <2>3. CASE ~(Finish(t) /\ UNCHANGED os)
      <3>1. /\ os[m.name] = None
            /\ \E q : /\ os' = [os EXCEPT ![m.name] = [keys |-> {}, quota |-> q]]
                      /\ Measured => q = m.quota
        BY <1>1, <1>8, <2>3 DEF Provision, MachinesUnchanged, Name, Measured
      <3>2. PICK q, a : /\ os' = [os EXCEPT ![m.name] = a] /\ a = [keys |-> {}, quota |-> q]
                        /\ Measured => q = m.quota
        BY <3>1
      <3>3. os'[m.name] = a /\ a.quota = q /\ \A n \in Names \ {m.name} : os'[n] = os[n]
        BY <1>1, <1>4, <3>2
      <3>4. Measured => user[m.name] = None
        BY <1>5, <2>1 DEF Logged
      <3>5. Measured => Sized(task[t])'
        BY <1>3, <2>1, <3>2, <3>3 DEF Sized, Follows
      <3>6. QED
        BY <1>1, <1>2, <2>1, <3>1, <3>3, <3>4, <3>5, QuotaSame
    <2>4. QED
      BY <2>2, <2>3
  <1>9. CASE Spread(t)
    <2>1. UNCHANGED <<user, os>> /\ m.step = "spread"
      BY <1>1, <1>9 DEF Spread, RowsUnchanged, At
    <2>2. Measured => os[m.name].quota = m.quota
      BY <1>5, <2>1 DEF Sized
    <2>3. Measured => Sized(task[t])'
      BY <1>3, <2>1, <2>2 DEF Sized, Follows
    <2>4. QED
      BY <1>1, <1>2, <2>1, <2>3, QuotaSame
  <1>10. CASE Limit(t) \/ Resize(t)
    <2>1. UNCHANGED user /\ m.step \in {"limit", "resize"}
      BY <1>1, <1>10 DEF Limit, Resize, SetQuota, RowsUnchanged, At
    <2>2. CASE Finish(t) /\ UNCHANGED os
      BY <1>1, <1>2, <1>6, <2>1, <2>2, FinishFlow, QuotaSame
    <2>3. CASE ~(Finish(t) /\ UNCHANGED os)
      <3>1. /\ os[m.name] # None /\ os' = [os EXCEPT ![m.name].quota = m.quota]
            /\ Goto(t, IF m.step = "limit" THEN "insert" ELSE "resized")
        BY <1>1, <1>10, <2>3 DEF Limit, Resize, SetQuota, Name, At
      <3>2. os'[m.name] # None /\ os'[m.name].quota = m.quota
        <4>1. PICK a \in Login : a = os[m.name]
          BY <1>1, <1>4, <3>1
        <4>2. PICK b : os' = [os EXCEPT ![m.name] = b] /\ b = [a EXCEPT !.quota = m.quota]
          BY <3>1, <4>1
        <4>3. b.quota = m.quota
          BY <4>2 DEF Login
        <4>4. os'[m.name] = b
          BY <1>1, <1>4, <4>2
        <4>5. m.quota \in Quotas \cup {NoLimit}
          BY DEF UserLocals
        <4>6. QED
          BY <1>1, <3>1, <4>3, <4>4, <4>5, LoginsWritten
      <3>3. /\ task'[t].name = m.name /\ task'[t].quota = m.quota
            /\ task'[t].step = IF m.step = "limit" THEN "insert" ELSE "resized"
        BY <1>1, <3>1, UserGoes DEF Carries
      <3>4. Sized(task[t])'
        BY <3>2, <3>3 DEF Sized
      <3>5. Measured => Agrees(m.name)'
        <4>1. CASE m.step = "limit"
          BY <1>5, <2>1, <4>1 DEF Logged, Agrees
        <4>2. CASE m.step = "resize"
          BY <3>3, <4>2 DEF Agrees, Serving
        <4>3. QED
          BY <2>1, <4>1, <4>2
      <3>6. QED
        BY <1>1, <1>2, <2>1, <3>4, <3>5, QuotaWork DEF Quiet, SaveSteps, ViewSteps
    <2>4. QED
      BY <2>2, <2>3
  <1>11. CASE WriteKeys(t) \/ RewriteKeys(t)
    <2>1. UNCHANGED user /\ m.step \in {"set", "reset"}
      BY <1>1, <1>11 DEF WriteKeys, RewriteKeys, SetKeys, RowsUnchanged, At
    <2>2. UNCHANGED os \/ (os[m.name] # None /\ os' = [os EXCEPT ![m.name].keys = m.keys])
      BY <1>1, <1>11 DEF WriteKeys, RewriteKeys, SetKeys, Name
    <2>3. \A n \in Names : /\ os[n] # None => os'[n] # None /\ os'[n].quota = os[n].quota
                           /\ os[n] = None => os'[n] = None
      <3>1. CASE UNCHANGED os
        BY <3>1
      <3>2. CASE os[m.name] # None /\ os' = [os EXCEPT ![m.name].keys = m.keys]
        <4>1. PICK a \in Login : a = os[m.name]
          BY <1>1, <1>4, <3>2
        <4>2. PICK b : os' = [os EXCEPT ![m.name] = b] /\ b = [a EXCEPT !.keys = m.keys]
          BY <3>2, <4>1
        <4>3. b.quota = a.quota
          BY <4>2 DEF Login
        <4>4. os'[m.name] = b
          BY <1>1, <1>4, <4>2
        <4>5. os'[m.name] # None /\ \A o \in Names \ {m.name} : os'[o] = os[o]
          BY <1>1, <3>2, LoginsWritten DEF UserLocals
        <4>6. QED
          BY <3>2, <4>1, <4>3, <4>4, <4>5
      <3>3. QED
        BY <2>2, <3>1, <3>2
    <2>4. task'[t].step \notin {"spread", "insert", "resized"}
      BY <1>3, <2>1 DEF Follows
    <2>5. QED
      BY <1>1, <1>2, <1>6, <2>1, <2>3, <2>4, QuotaSame
  <1>12. CASE RemoveLogin(t)
    <2>1. /\ UNCHANGED user /\ m.step = "remove"
          /\ os' = [os EXCEPT ![m.name] = None] \/ (Finish(t) /\ UNCHANGED os)
      BY <1>1, <1>12, RemoveEffect
    <2>2. CASE Finish(t) /\ UNCHANGED os
      BY <1>1, <1>2, <1>6, <2>1, <2>2, FinishFlow, QuotaSame
    <2>3. CASE os' = [os EXCEPT ![m.name] = None]
      <3>1. Agrees(m.name)'
        BY <1>1, <1>4, <2>3 DEF Agrees
      <3>2. Sized(task[t])'
        BY <1>3, <1>6, <2>1 DEF Follows
      <3>3. QED
        BY <1>1, <1>2, <2>1, <3>1, <3>2, QuotaWork DEF Quiet, SaveSteps, ViewSteps
    <2>4. QED
      BY <2>1, <2>2, <2>3
  <1>13. CASE InsertUser(t) \/ RecordQuota(t) \/ DeleteUserRow(t)
    <2>1. UNCHANGED os /\ m.step \in {"insert", "resized", "delete"}
      BY <1>1, <1>13 DEF InsertUser, RecordQuota, DeleteUserRow, MachinesUnchanged, At
    <2>2. Measured => Agrees(m.name)'
      <3>1. CASE DeleteUserRow(t)
        <4>1. m.step = "delete" /\ (user' = [user EXCEPT ![m.name] = None] \/ user[m.name] = None
                                    \/ user[m.name].id # m.id)
          BY <1>1, <3>1 DEF DeleteUserRow, At, Mine, Name
        <4>2. Measured => user'[m.name] = None
          BY <1>1, <1>4, <1>5, <4>1 DEF Logged, OwnedSteps
        <4>3. QED
          BY <4>2 DEF Agrees
      <3>2. CASE RecordQuota(t)
        <4>1. m.step = "resized" /\ \/ user[m.name] = None \/ user[m.name].id # m.id
                                    \/ user' = [user EXCEPT ![m.name].quota = m.quota]
          BY <1>1, <3>2 DEF RecordQuota, At, Mine, Name
        <4>2. ASSUME Measured PROVE user'[m.name].quota = m.quota
          <5>1. PICK u \in UserRow : u = user[m.name]
            BY <1>1, <1>4, <1>5, <4>1, <4>2 DEF Logged, OwnedSteps
          <5>2. PICK v : v = [u EXCEPT !.quota = m.quota] /\ user' = [user EXCEPT ![m.name] = v]
            BY <1>5, <4>1, <4>2, <5>1 DEF Logged, OwnedSteps
          <5>3. v.quota = m.quota
            BY <5>2 DEF UserRow
          <5>4. QED
            BY <1>1, <1>4, <5>2, <5>3
        <4>3. Measured => os[m.name].quota = m.quota
          BY <1>5, <4>1 DEF Sized
        <4>4. QED
          BY <2>1, <4>2, <4>3 DEF Agrees
      <3>3. CASE InsertUser(t)
        <4>1. m.step = "insert"
          BY <1>1, <3>3 DEF InsertUser, At
        <4>2. Measured => user[m.name] = None /\ os[m.name].quota = m.quota
          BY <1>5, <4>1 DEF Logged, Sized
        <4>3. ASSUME Measured PROVE user'[m.name].quota = m.quota
          <5>1. PICK v, i : user' = [user EXCEPT ![m.name] = v] /\ v = [id |-> i, mode |-> m.mode, quota |-> m.quota]
            BY <1>1, <3>3, <4>2, <4>3 DEF InsertUser, Name
          <5>2. v.quota = m.quota
            BY <5>1
          <5>3. QED
            BY <1>1, <1>4, <5>1, <5>2
        <4>4. QED
          BY <2>1, <4>2, <4>3 DEF Agrees
      <3>4. QED
        BY <1>13, <3>1, <3>2, <3>3
    <2>3. Sized(task[t])'
      BY <1>3, <1>6, <2>1 DEF Follows
    <2>4. QED
      BY <1>1, <1>2, <2>1, <2>2, <2>3, QuotaWork DEF Quiet, SaveSteps, ViewSteps
  <1>14. QED
    BY <1>7, <1>8, <1>9, <1>10, <1>11, <1>12, <1>13 DEF UserStep

LEMMA QuotaStep ==
    ASSUME TypeInv, TypeInv', SingleInv, LoginInv, QuotaInv, [Next]_deskAll
    PROVE  QuotaInv'
  <1>1. ASSUME NEW t \in Threads, \/ AccountRequest(t) \/ AccountStep(t) \/ ImageRequest(t)
                                  \/ ImageStep(t) \/ PlanRequest(t) \/ PlanStep(t)
        PROVE  QuotaInv'
    <2>1. /\ \A s \in Threads \ {t} : task'[s] = task[s]
          /\ UNCHANGED <<ops, peopleVars>>
          /\ task[t].step \notin UserSteps /\ task'[t].step \notin UserSteps
      BY <1>1, NotUsers, BecomeFlow
    <2>2. Sized(task[t])' /\ task[t].step # "resized"
      BY <2>1 DEF Sized, UserSteps
    <2>3. QED
      BY <2>1, <2>2, QuotaSame DEF peopleVars
  <1>2. ASSUME NEW t \in Threads, UserRequest(t) PROVE QuotaInv'
    <2>1. /\ \A s \in Threads \ {t} : task'[s] = task[s]
          /\ UNCHANGED <<ops, peopleVars>> /\ task[t].step = "idle"
      BY <1>2, UserRequestFlow, BecomeFlow DEF Flows
    <2>2. Sized(task[t])'
      BY <1>2, UserAsked DEF Creates, Changes, Sized
    <2>3. QED
      BY <2>1, <2>2, QuotaSame DEF peopleVars
  <1>3. ASSUME Jobs \/ (\E r \in Rows : Discard(r)) \/ UNCHANGED deskAll PROVE QuotaInv'
    BY <1>3, ElsewhereUsers, QuotaSame DEF peopleVars
  <1>4. ASSUME Outside PROVE QuotaInv'
    <2>1. UNCHANGED <<ops, task, user>>
      BY <1>4 DEF Outside, OwnEdit, ByHand, deskVars
    <2>2. QED
      BY <1>4, <2>1, OutsideKeeps, QuotaSame
  <1>5. QED
    BY <1>1, <1>2, <1>3, <1>4, QuotaStepUser DEF Next

(* The quota in the row of a user is the one in force on the management    *)
(* node, but while it is being changed.                                    *)
THEOREM QuotaAgreesCorrect == TenantsSpec => []QuotaAgrees
  <1>1. ASSUME Init PROVE QuotaInv
    <2>1. PICK p, r : /\ p = [keys |-> {}, quota |-> FirstQuota]
                      /\ r = [id |-> 0, mode |-> "provision", quota |-> FirstQuota]
      OBVIOUS
    <2>2. p.quota = FirstQuota /\ r.quota = FirstQuota
      BY <2>1
    <2>3. /\ \A t \in Threads : task[t].step = "idle"
          /\ user = [n \in Names |-> IF n \in Present THEN r ELSE None]
          /\ os = [n \in Names |-> IF n \in Present THEN p ELSE None]
      BY <1>1, <2>1 DEF Init, DeskInit, UsersInit, Idle
    <2>4. QED
      BY <2>2, <2>3 DEF QuotaInv, Agrees, Sized
  <1>2. TypeInv /\ TypeInv' /\ SingleInv /\ LoginInv /\ QuotaInv /\ [Next]_deskAll => QuotaInv'
    BY QuotaStep
  <1>3. QuotaInv => QuotaAgrees
    BY DEF QuotaInv, Measured, Agrees, QuotaAgrees
  <1>4. QED
    BY <1>1, <1>2, <1>3, TypesCorrect, SingleCorrect, LoginCorrect, PTL DEF TenantsSpec
-----------------------------------------------------------------------------
(* Keys                                                                    *)

Sorted == Orderly /\ ~({"turns", "key-delete"} \subseteq ops)

Opens(n) ==
    user[n] # None /\ os[n] # None => keyRow[n] \subseteq os[n].keys \/ Serving(n, {"strike"})

(* Ids are not given twice, and keys go with their row.                    *)
Numbered(n) ==
    /\ user[n] # None => user[n].id <= lastId
    /\ user[n] = None => keyRow[n] = {}

(* What has been read for a row that is still there is in its file.        *)
Imports(l) ==
    user[l.name] # None /\ user[l.name].id = l.id /\ os[l.name] # None =>
        l.keys \subseteq os[l.name].keys

(* The file that is about to be written has every key of a row, and so has *)
(* the file that was.                                                      *)
ReadKeys(l) ==
    /\ l.step \in UserSteps => l.id <= lastId
    /\ l.step \in {"note", "merge"} => Imports(l)
    /\ l.step = "merge" /\ "turns" \in ops => os[l.name] # None /\ os[l.name].keys = l.keys
    /\ l.step = "set" =>
         /\ keyRow[l.name] \subseteq l.keys /\ l.key \subseteq l.keys
         /\ "turns" \in ops => os[l.name] # None /\ os[l.name].keys \subseteq l.keys
    /\ l.step = "keep" /\ os[l.name] # None => l.key \subseteq os[l.name].keys
    /\ l.step = "reset" => "key-delete" \in ops /\ keyRow[l.name] \ l.key \subseteq l.keys
    /\ l.step = "strike" =>
         /\ "key-delete" \in ops
         /\ os[l.name] # None => keyRow[l.name] \ l.key \subseteq os[l.name].keys

KeyInv ==
    Sorted => /\ \A n \in Names : Opens(n) /\ Numbered(n)
              /\ \A t \in Threads : ReadKeys(task[t])

LEMMA ReadNothing ==
    ASSUME NEW l, l.step \notin UserSteps
    PROVE  ReadKeys(l)
  BY DEF ReadKeys, UserSteps

(* No row is written, and no file but by the user himself.                 *)
LEMMA KeySame ==
    ASSUME TypeInv, LoginInv, KeyInv, UNCHANGED <<ops, user, keyRow, lastId>>,
           Sorted => \A n \in Names :
               /\ os[n] # None => os'[n] # None /\ os[n].keys \subseteq os'[n].keys
               /\ os[n] = None => os'[n] = None \/ user[n] = None
               /\ "turns" \in ops /\ os[n] # None =>
                      os'[n].keys = os[n].keys \/ \A s \in Threads : task[s].step \in ViewSteps,
           Sorted => \A s \in Threads :
               \/ task'[s] = task[s]
               \/ task[s].step # "strike" /\ ReadKeys(task[s])'
    PROVE  KeyInv'
  <1>1. Sorted' = Sorted /\ (Sorted => Orderly)
    BY DEF Sorted, Orderly
  <1>2. ASSUME Sorted, NEW n \in Names PROVE Opens(n)' /\ Numbered(n)'
    <2>1. Numbered(n)'
      BY <1>2 DEF KeyInv, Numbered
    <2>2. Opens(n)'
      BY <1>2 DEF KeyInv, Opens, Serving
    <2>3. QED
      BY <2>1, <2>2
  <1>3. ASSUME Sorted, NEW s \in Threads PROVE ReadKeys(task[s])'
    <2>1. CASE task'[s] = task[s] /\ task[s].step \in UserSteps
      <3>1. PICK l : l = task[s] /\ l = task'[s] /\ l.name \in Names
        BY <2>1, UserTask
      <3>2. ReadKeys(l) /\ Logged(l) /\ (l.step \in ViewSteps \/ ~\A r \in Threads : task[r].step \in ViewSteps)
        BY <1>1, <1>3, <3>1 DEF KeyInv, LoginInv
      <3>3. Imports(l) => Imports(l)'
        BY <1>3, <3>1 DEF Imports
      <3>4. ReadKeys(l)'
        <4>1. l.step \in UserSteps => l.id <= lastId'
          BY <3>2 DEF ReadKeys
        <4>2. l.step \in {"note", "merge"} => Imports(l)'
          BY <3>2, <3>3 DEF ReadKeys
        <4>3. l.step = "merge" /\ "turns" \in ops => os'[l.name] # None /\ os'[l.name].keys = l.keys
          BY <1>3, <3>1, <3>2 DEF ReadKeys, ViewSteps
        <4>4. l.step = "set" =>
                /\ keyRow[l.name] \subseteq l.keys /\ l.key \subseteq l.keys
                /\ "turns" \in ops => os'[l.name] # None /\ os'[l.name].keys \subseteq l.keys
          BY <1>3, <3>1, <3>2 DEF ReadKeys, ViewSteps
        <4>5. l.step \in {"keep", "strike"} => user[l.name] # None
          BY <3>2 DEF Logged, OwnedSteps
        <4>6. l.step = "keep" /\ os'[l.name] # None => l.key \subseteq os'[l.name].keys
          BY <1>3, <3>1, <3>2, <4>5 DEF ReadKeys
        <4>7. /\ l.step = "reset" => "key-delete" \in ops /\ keyRow[l.name] \ l.key \subseteq l.keys
              /\ l.step = "strike" =>
                   /\ "key-delete" \in ops
                   /\ os'[l.name] # None => keyRow[l.name] \ l.key \subseteq os'[l.name].keys
          BY <1>3, <3>1, <3>2, <4>5 DEF ReadKeys
        <4>8. QED
          BY <4>1, <4>2, <4>3, <4>4, <4>6, <4>7 DEF ReadKeys
      <3>5. QED
        BY <3>1, <3>4 DEF ReadKeys, Imports
    <2>2. CASE task'[s] = task[s] /\ task[s].step \notin UserSteps
      BY <2>2 DEF ReadKeys, UserSteps
    <2>3. QED
      BY <1>3, <2>1, <2>2
  <1>4. QED
    BY <1>1, <1>2, <1>3 DEF KeyInv

(* A file keeps the keys of a row that is still there.                     *)
Grows(n) ==
    \/ user'[n] = None \/ os'[n] = None \/ user'[n].id > lastId
    \/ /\ user[n] # None /\ user'[n].id = user[n].id
       /\ os[n] # None /\ os[n].keys \subseteq os'[n].keys

LEMMA KeyWork ==
    ASSUME TypeInv, TypeInv', SingleInv, KeyInv, UNCHANGED ops, NEW t \in Threads, UserStep(t),
           task[t].step \notin Quiet, NEW o, o = task[t].name, lastId <= lastId',
           Sorted => Opens(o)' /\ Numbered(o)' /\ ReadKeys(task[t])',
           Sorted /\ "turns" \in ops => Grows(o)
    PROVE  KeyInv'
  <1>1. Sorted' = Sorted /\ (Sorted => Calm)
    BY DEF Sorted, Orderly, Calm
  <1>2. \A s \in Threads \ {t} : task'[s] = task[s]
    BY UserFlow, BecomeFlow DEF Flows
  <1>3. /\ lastId \in Nat /\ lastId' \in Nat
        /\ user \in [Names -> UserRow \cup {None}]
    BY DEF TypeInv, TenantsTypeOK, UsersTypeOK
  <1>4. ASSUME Sorted, NEW n \in Names PROVE Opens(n)' /\ Numbered(n)'
    <2>1. CASE n = o
      BY <1>4, <2>1
    <2>2. CASE n # o
      <3>1. ~Serving(n, {"strike"})
        BY <1>1, <1>4, <2>2, Alone DEF Serving, Quiet, SaveSteps, ViewSteps
      <3>2. Opens(n) /\ Numbered(n)
        BY <1>4 DEF KeyInv
      <3>3. user'[n] = user[n] /\ os'[n] = os[n] /\ keyRow'[n] = keyRow[n]
        BY <2>2, UserTouches
      <3>4. user[n] # None => user[n].id \in Nat
        BY <1>3 DEF UserRow
      <3>5. QED
        BY <1>3, <3>1, <3>2, <3>3, <3>4 DEF Opens, Numbered
    <2>3. QED
      BY <2>1, <2>2
  <1>5. ASSUME Sorted, NEW s \in Threads PROVE ReadKeys(task[s])'
    <2>1. CASE s = t
      BY <1>5, <2>1
    <2>2. CASE s # t
      <3>1. task'[s] = task[s] /\ task[s].step \in Quiet
        BY <1>1, <1>2, <1>5, <2>2, Alone
      <3>2. CASE task[s].step \notin UserSteps
        BY <3>1, <3>2 DEF ReadKeys, UserSteps
      <3>3. CASE task[s].step \in UserSteps
        <4>1. PICK l \in UserLocals : l = task[s] /\ l = task'[s] /\ l.name \in Names
          BY <3>1, <3>3, UserTask
        <4>2. l.step \in {"look", "note"} /\ ReadKeys(l)
          BY <1>5, <3>1, <3>3, <4>1 DEF Quiet, SaveSteps, ViewSteps, UserSteps, KeyInv
        <4>3. "turns" \in ops
          BY <1>1, <1>5, <2>2, <4>1, <4>2 DEF SingleInv, Apart, Calm, SaveSteps, Quiet
        <4>4. l.id \in Nat /\ l.id <= lastId /\ (l.step = "note" => Imports(l))
          BY <4>2 DEF ReadKeys, UserLocals, UserSteps
        <4>5. Grows(l.name) \/ (user'[l.name] = user[l.name] /\ os'[l.name] = os[l.name])
          BY <1>5, <4>1, <4>3, UserTouches
        <4>6. user'[l.name] # None => user'[l.name].id \in Nat
          BY <4>1 DEF TypeInv, TenantsTypeOK, UsersTypeOK, UserRow
        <4>7. Imports(l) => Imports(l)'
          BY <1>3, <4>4, <4>5, <4>6 DEF Imports, Grows
        <4>8. l.id <= lastId'
          BY <1>3, <4>4
        <4>9. ReadKeys(l)'
          BY <4>2, <4>4, <4>7, <4>8 DEF ReadKeys
        <4>10. QED
          BY <4>1, <4>9 DEF ReadKeys, Imports
      <3>4. QED
        BY <3>2, <3>3
    <2>3. QED
      BY <2>1, <2>2
  <1>6. QED
    BY <1>1, <1>4, <1>5 DEF KeyInv

(* The page of the profile imports the keys it has found in the file.      *)
LEMMA KeyNote ==
    ASSUME TypeInv, TypeInv', SingleInv, LoginInv, KeyInv, NEW t \in Threads, Note(t)
    PROVE  KeyInv'
  <1>1. PICK m \in UserLocals : m = task[t] /\ m.name \in Names /\ m.step = "note"
    BY UserTask DEF Note, At, UserSteps
  <1>2. /\ UNCHANGED <<ops, user, os, lastId>> /\ task'[t].step = "idle"
        /\ \A s \in Threads \ {t} : task'[s] = task[s]
    BY FinishFlow, BecomeFlow DEF Note, MachinesUnchanged, Finish
  <1>3. Sorted' = Sorted /\ (Sorted => Orderly /\ Calm)
    BY <1>2 DEF Sorted, Orderly, Calm
  <1>4. keyRow \in [Names -> SUBSET Keys]
    BY SameTypes DEF UsersTypeOK
  <1>5. /\ \A n \in Names : keyRow[n] \subseteq keyRow'[n] /\ (n # m.name => keyRow'[n] = keyRow[n])
        /\ keyRow'[m.name] # keyRow[m.name] =>
             /\ user[m.name] # None /\ user[m.name].id = m.id
             /\ keyRow'[m.name] = keyRow[m.name] \cup m.keys
    BY <1>1, <1>4 DEF Note, ImportKeys, Mine, Name
  <1>6. Sorted => Imports(m)
    BY <1>1 DEF KeyInv, ReadKeys
  <1>7. Sorted => \A n \in Names : os[n] # None => \A k \in keyRow'[n] : k \in keyRow[n] \/ k \in os[n].keys
    BY <1>5, <1>6 DEF Imports
  <1>8. ASSUME Sorted, NEW n \in Names PROVE Opens(n)' /\ Numbered(n)'
    <2>1. Opens(n) /\ Numbered(n)
      BY <1>8 DEF KeyInv
    <2>2. Numbered(n)'
      BY <1>2, <1>5, <2>1 DEF Numbered
    <2>3. Serving(n, {"strike"}) => Serving(n, {"strike"})'
      BY <1>1, <1>2 DEF Serving
    <2>4. Opens(n)'
      BY <1>2, <1>7, <1>8, <2>1, <2>3 DEF Opens
    <2>5. QED
      BY <2>2, <2>4
  <1>9. ASSUME Sorted, NEW s \in Threads PROVE ReadKeys(task[s])'
    <2>1. CASE s = t
      BY <1>2, <2>1 DEF ReadKeys, UserSteps
    <2>2. CASE s # t /\ task[s].step \notin UserSteps
      BY <1>2, <2>2 DEF ReadKeys, UserSteps
    <2>3. CASE s # t /\ task[s].step \in UserSteps
      <3>1. PICK l \in UserLocals : l = task[s] /\ l = task'[s] /\ l.name \in Names
        BY <1>2, <2>3, UserTask
      <3>2. "turns" \in ops
        BY <1>1, <1>3, <1>9, <2>3, <3>1 DEF SingleInv, Apart, Calm, SaveSteps, UserSteps
      <3>3. ReadKeys(l) /\ l.step \notin {"reset", "strike"}
        BY <1>9, <3>1, <3>2 DEF KeyInv, ReadKeys, Sorted
      <3>4. ReadKeys(l)'
        <4>1. Imports(l) => Imports(l)'
          BY <1>2 DEF Imports
        <4>2. l.step = "set" => keyRow'[l.name] \subseteq l.keys
          BY <1>7, <1>9, <3>1, <3>2, <3>3 DEF ReadKeys
        <4>3. QED
          BY <1>2, <3>3, <4>1, <4>2 DEF ReadKeys
      <3>5. QED
        BY <3>1, <3>4 DEF ReadKeys, Imports
    <2>4. QED
      BY <2>1, <2>2, <2>3
  <1>10. QED
    BY <1>3, <1>8, <1>9 DEF KeyInv
KeySteps == {"note", "merge", "set", "keep", "reset", "strike"}

(* A handler reads the file.                                               *)
LEMMA KeyRead ==
    ASSUME TypeInv, TypeInv', LoginInv, KeyInv, NEW t \in Threads, Look(t) \/ Gather(t)
    PROVE  KeyInv'
  <1>1. PICK m \in UserLocals : m = task[t] /\ m.name \in Names /\ m.step \in {"look", "gather"}
    BY UserTask DEF Look, Gather, GetKeys, At, UserSteps
  <1>2. /\ UNCHANGED <<ops, user, os, keyRow, lastId>>
        /\ \A s \in Threads \ {t} : task'[s] = task[s]
    BY BecomeFlow DEF Look, Gather, GetKeys, RowsUnchanged, MachinesUnchanged, Finish
  <1>3. Sorted => ReadKeys(m)
    BY <1>1 DEF KeyInv
  <1>4. Sorted => ReadKeys(task[t])'
    <2>1. CASE Finish(t)
      BY <2>1, FinishFlow DEF ReadKeys, UserSteps
    <2>2. CASE ~Finish(t)
      <3>1. PICK s \in {"note", "merge"} :
                 Become(t, [m EXCEPT !.step = s, !.keys = os[m.name].keys]) /\ os[m.name] # None
        BY <1>1, <2>2 DEF Look, Gather, GetKeys, Name
      <3>2. PICK l : /\ l = [m EXCEPT !.step = s, !.keys = os[m.name].keys] /\ Become(t, l)
                     /\ os[m.name] # None
        BY <3>1
      <3>3. l.step = s /\ l.name = m.name /\ l.id = m.id /\ l.keys = os[m.name].keys
        BY <3>2 DEF UserLocals
      <3>4. l = task'[t]
        BY <3>2, BecomeFlow
      <3>5. l.step \in {"note", "merge"} /\ (Sorted => l.id <= lastId)
        BY <1>1, <1>3, <3>2, <3>3 DEF ReadKeys, UserSteps
      <3>6. Sorted => ReadKeys(l)'
        BY <1>2, <3>2, <3>3, <3>5 DEF ReadKeys, Imports
      <3>7. QED
        BY <3>4, <3>6 DEF ReadKeys, Imports
    <2>3. QED
      BY <2>1, <2>2
  <1>5. QED
    BY <1>1, <1>2, <1>4, KeySame

(* The row takes the keys of the file before the new one is added.         *)
LEMMA KeyMerge ==
    ASSUME TypeInv, TypeInv', SingleInv, LoginInv, KeyInv, NEW t \in Threads, Merge(t)
    PROVE  KeyInv'
  <1>1. PICK m \in UserLocals : m = task[t] /\ m.name \in Names /\ m.step = "merge"
    BY UserTask DEF Merge, At, UserSteps
  <1>2. UNCHANGED <<ops, user, os, lastId>>
    BY DEF Merge, MachinesUnchanged
  <1>3. lastId \in Nat /\ keyRow \in [Names -> SUBSET Keys]
    BY DEF TypeInv, TenantsTypeOK, UsersTypeOK
  <1>4. Sorted => /\ Logged(m) /\ ReadKeys(m) /\ Opens(m.name) /\ Numbered(m.name)
                  /\ ~Serving(m.name, {"strike"})
    BY <1>1, Alone DEF LoginInv, KeyInv, Sorted, Orderly, Calm, Serving, Quiet, SaveSteps, ViewSteps
  <1>5. Sorted => user[m.name] # None /\ user[m.name].id = m.id
    BY <1>1, <1>4 DEF Logged, OwnedSteps
  <1>6. Sorted => keyRow'[m.name] = keyRow[m.name] \cup m.keys
    BY <1>1, <1>3, <1>5 DEF Merge, ImportKeys, Mine, Name
  <1>7. Sorted /\ os[m.name] # None => keyRow'[m.name] \subseteq os[m.name].keys
    BY <1>1, <1>4, <1>5, <1>6 DEF ReadKeys, Imports, Opens
  <1>8. Sorted => Opens(m.name)' /\ Numbered(m.name)'
    BY <1>2, <1>4, <1>5, <1>7 DEF Opens, Numbered
  <1>9. Sorted => ReadKeys(task[t])'
    <2>1. CASE Finish(t)
      BY <2>1, FinishFlow DEF ReadKeys, UserSteps
    <2>2. CASE ~Finish(t)
      <3>1. PICK l, ks : /\ l = [m EXCEPT !.step = "set", !.keys = ks] /\ Become(t, l)
                         /\ ks = keyRow'[m.name] \cup m.key
        BY <1>1, <2>2 DEF Merge, Name
      <3>2. l.step = "set" /\ l.name = m.name /\ l.id = m.id /\ l.keys = ks /\ l.key = m.key
        BY <3>1 DEF UserLocals
      <3>3. l = task'[t]
        BY <3>1, BecomeFlow
      <3>4. Sorted => /\ l.id <= lastId
                      /\ "turns" \in ops => os[m.name] # None /\ os[m.name].keys = m.keys
        BY <1>1, <1>4, <3>2 DEF ReadKeys, UserSteps
      <3>5. Sorted => ReadKeys(l)'
        BY <1>2, <1>6, <3>1, <3>2, <3>4 DEF ReadKeys
      <3>6. QED
        BY <3>3, <3>5 DEF ReadKeys, Imports
    <2>3. QED
      BY <2>1, <2>2
  <1>10. Sorted => Grows(m.name)
    BY <1>2, <1>5 DEF Grows
  <1>11. QED
    BY <1>1, <1>2, <1>3, <1>8, <1>9, <1>10, KeyWork DEF Quiet, SaveSteps, ViewSteps, UserStep

(* The file is written: with every key of the row, or without the one that *)
(* goes.                                                                   *)
LEMMA KeyWrite ==
    ASSUME TypeInv, TypeInv', SingleInv, LoginInv, KeyInv, NEW t \in Threads,
           WriteKeys(t) \/ RewriteKeys(t)
    PROVE  KeyInv'
  <1>1. PICK m \in UserLocals : /\ m = task[t] /\ m.name \in Names
                                /\ m.step = IF WriteKeys(t) THEN "set" ELSE "reset"
    BY UserTask DEF WriteKeys, RewriteKeys, SetKeys, At, UserSteps
  <1>2. UNCHANGED <<ops, user, keyRow, lastId>>
    BY DEF WriteKeys, RewriteKeys, SetKeys, RowsUnchanged
  <1>3. os \in [Names -> Login \cup {None}] /\ lastId \in Nat
    BY DEF TypeInv, TenantsTypeOK, UsersTypeOK
  <1>4. Sorted => Logged(m) /\ ReadKeys(m) /\ Opens(m.name) /\ Numbered(m.name)
    BY <1>1 DEF LoginInv, KeyInv, Sorted
  <1>5. CASE Finish(t) /\ UNCHANGED os
    <2>1. ReadKeys(task[t])'
      BY <1>5, FinishFlow DEF ReadKeys, UserSteps
    <2>2. \A s \in Threads \ {t} : task'[s] = task[s]
      BY <1>5, BecomeFlow DEF Finish
    <2>3. QED
      BY <1>1, <1>2, <1>5, <2>1, <2>2, KeySame
  <1>6. CASE ~(Finish(t) /\ UNCHANGED os)
    <2>1. /\ os[m.name] # None /\ os' = [os EXCEPT ![m.name].keys = m.keys]
          /\ Goto(t, IF m.step = "set" THEN "keep" ELSE "strike")
      BY <1>1, <1>6 DEF WriteKeys, RewriteKeys, SetKeys, Name, At
    <2>2. os'[m.name].keys = m.keys /\ os'[m.name] # None
      <3>1. PICK a \in Login : a = os[m.name]
        BY <1>1, <1>3, <2>1
      <3>2. PICK b : os' = [os EXCEPT ![m.name] = b] /\ b = [a EXCEPT !.keys = m.keys]
        BY <2>1, <3>1
      <3>3. b.keys = m.keys
        BY <3>2 DEF Login
      <3>4. os'[m.name] = b
        BY <1>1, <1>3, <3>2
      <3>5. m.keys \in SUBSET Keys
        BY DEF UserLocals
      <3>6. QED
        BY <1>1, <2>1, <3>3, <3>4, <3>5, LoginsWritten
    <2>3. /\ task'[t].step = IF m.step = "set" THEN "keep" ELSE "strike"
          /\ task'[t].name = m.name /\ task'[t].id = m.id
          /\ task'[t].key = m.key /\ task'[t].keys = m.keys
      BY <1>1, <2>1, UserGoes DEF Carries
    <2>4. Sorted => Opens(m.name)'
      <3>1. CASE m.step = "set"
        BY <1>2, <1>4, <2>2, <3>1 DEF Opens, ReadKeys
      <3>2. CASE m.step = "reset"
        BY <2>3, <3>2 DEF Opens, Serving
      <3>3. QED
        BY <1>1, <3>1, <3>2
    <2>5. Sorted => Numbered(m.name)'
      BY <1>2, <1>4 DEF Numbered
    <2>6. Sorted => ReadKeys(task[t])'
      BY <1>1, <1>2, <1>4, <2>2, <2>3 DEF ReadKeys, UserSteps
    <2>7. Sorted /\ "turns" \in ops => Grows(m.name)
      <3>1. Sorted /\ "turns" \in ops => m.step = "set"
        BY <1>1, <1>4 DEF ReadKeys, Sorted
      <3>2. Sorted => user[m.name] # None
        BY <1>1, <1>4 DEF Logged, OwnedSteps
      <3>3. QED
        BY <1>2, <1>4, <2>1, <2>2, <3>1, <3>2 DEF Grows, ReadKeys
    <2>8. QED
      BY <1>1, <1>2, <1>3, <2>4, <2>5, <2>6, <2>7, KeyWork DEF Quiet, SaveSteps, ViewSteps, UserStep
  <1>7. QED
    BY <1>5, <1>6

LEMMA KeyStepUser ==
    ASSUME TypeInv, TypeInv', SingleInv, LoginInv, KeyInv, NEW t \in Threads, UserStep(t)
    PROVE  KeyInv'
  <1>1. PICK m \in UserLocals : m = task[t] /\ m.name \in Names
    BY UserFlow, UserTask DEF Flows
  <1>2. /\ Become(t, task'[t]) /\ UNCHANGED ops
        /\ \A s \in Threads \ {t} : task'[s] = task[s]
    BY UserFlow, BecomeFlow DEF Flows
  <1>3. \/ task'[t].step = "idle"
        \/ /\ Follows(m.step, task'[t].step)
           /\ (m.step = "insert" /\ task'[t].id = lastId') \/ task'[t].id = m.id
    BY <1>1, UserMoves DEF Carries
  <1>4. /\ user \in [Names -> UserRow \cup {None}] /\ os \in [Names -> Login \cup {None}]
        /\ keyRow \in [Names -> SUBSET Keys] /\ lastId \in Nat /\ lastId' \in Nat
    BY DEF TypeInv, TenantsTypeOK, UsersTypeOK
  <1>5. Sorted => /\ Orderly /\ Logged(m) /\ ReadKeys(m) /\ Opens(m.name) /\ Numbered(m.name)
                  /\ "lost" \notin ops
    BY <1>1 DEF LoginInv, KeyInv, Sorted, Orderly
  <1>6. m.step \notin Quiet \cup {"strike"} /\ Sorted => ~Serving(m.name, {"strike"})
    BY <1>1, Alone DEF Serving, Quiet, SaveSteps, ViewSteps, Sorted, Orderly, Calm
  <1>7. /\ m.id \in Nat /\ (Sorted => m.id <= lastId)
        /\ user[m.name] # None => user[m.name].id \in Nat
    BY <1>1, <1>4, <1>5 DEF ReadKeys, UserLocals, UserRow
  <1>8. lastId <= lastId' /\ task'[t].step \notin KeySteps /\ Sorted => ReadKeys(task[t])'
    <2>1. lastId <= lastId' /\ Sorted => (task'[t].step # "idle" => task'[t].id <= lastId')
      BY <1>3, <1>4, <1>7
    <2>2. QED
      BY <2>1 DEF ReadKeys, KeySteps, UserSteps
  <1>9. CASE \/ HelperFails(t) \/ ReplyLost(t) \/ Provision(t) \/ Spread(t) \/ InitLogin(t)
             \/ Limit(t) \/ EmptyNodes(t) \/ Resize(t)
    <2>1. UNCHANGED <<user, keyRow, lastId>>
      BY <1>9 DEF HelperFails, ReplyLost, Provision, Spread, InitLogin, Limit, EmptyNodes, Resize,
                  SetQuota, RowsUnchanged
    <2>2. \/ Finish(t) /\ (Sorted => m.step # "strike")
          \/ m.step \in {"provision", "spread", "init", "limit", "empty", "resize"}
      BY <1>1, <1>5, <1>9
         DEF HelperFails, ReplyLost, Provision, Spread, InitLogin, Limit, EmptyNodes, Resize, SetQuota, At
    <2>3. task'[t].step \notin KeySteps /\ (Sorted => m.step # "strike")
      <3>1. CASE Finish(t)
        BY <2>2, <3>1, FinishFlow DEF KeySteps
      <3>2. CASE m.step \in {"provision", "spread", "init", "limit", "empty", "resize"}
        BY <1>3, <3>2 DEF Follows, KeySteps
      <3>3. QED
        BY <2>2, <3>1, <3>2
    <2>4. \/ UNCHANGED os
          \/ os[m.name] # None /\ os' = [os EXCEPT ![m.name].quota = m.quota]
          \/ /\ os[m.name] = None /\ m.step = "provision"
             /\ \E a : os' = [os EXCEPT ![m.name] = a]
      BY <1>1, <1>9 DEF HelperFails, ReplyLost, Provision, Spread, InitLogin, Limit, EmptyNodes, Resize,
                        SetQuota, MachinesUnchanged, Name, At
    <2>5. Sorted => \A n \in Names :
              /\ os[n] # None => os'[n] # None /\ os'[n].keys = os[n].keys
              /\ os[n] = None => os'[n] = None \/ user[n] = None
      <3>1. CASE UNCHANGED os
        BY <3>1
      <3>2. CASE os[m.name] # None /\ os' = [os EXCEPT ![m.name].quota = m.quota]
        <4>1. PICK a \in Login : a = os[m.name]
          BY <1>1, <1>4, <3>2
        <4>2. PICK b : os' = [os EXCEPT ![m.name] = b] /\ b = [a EXCEPT !.quota = m.quota]
          BY <3>2, <4>1
        <4>3. b.keys = a.keys
          BY <4>2 DEF Login
        <4>4. os'[m.name] = b
          BY <1>1, <1>4, <4>2
        <4>5. os'[m.name] # None /\ \A o \in Names \ {m.name} : os'[o] = os[o]
          BY <1>1, <3>2, LoginsWritten DEF UserLocals
        <4>6. QED
          BY <3>2, <4>1, <4>3, <4>4, <4>5
      <3>3. CASE os[m.name] = None /\ m.step = "provision" /\ \E a : os' = [os EXCEPT ![m.name] = a]
        BY <1>1, <1>4, <1>5, <3>3 DEF Logged
      <3>4. QED
        BY <2>4, <3>1, <3>2, <3>3
    <2>6. Sorted => ReadKeys(task[t])'
      BY <1>4, <1>8, <2>1, <2>3
    <2>7. QED
      BY <1>1, <1>2, <2>1, <2>3, <2>5, <2>6, KeySame
  <1>10. CASE RemoveLogin(t)
    <2>1. /\ UNCHANGED <<user, keyRow, lastId>> /\ m.step = "remove"
          /\ os' = [os EXCEPT ![m.name] = None] \/ UNCHANGED os
      BY <1>1, <1>10, RemoveEffect
    <2>2. task'[t].step \notin KeySteps
      BY <1>3, <2>1 DEF Follows, KeySteps
    <2>3. CASE UNCHANGED os
      <3>1. Sorted => ReadKeys(task[t])'
        BY <1>4, <1>8, <2>1, <2>2
      <3>2. Sorted => \A s \in Threads : task'[s] = task[s]
                                         \/ (task[s].step # "strike" /\ ReadKeys(task[s])')
        BY <1>1, <1>2, <2>1, <3>1
      <3>3. QED
        BY <1>2, <2>1, <2>3, <3>2, KeySame
    <2>4. CASE os' = [os EXCEPT ![m.name] = None]
      <3>1. os'[m.name] = None
        BY <1>1, <1>4, <2>4
      <3>2. Sorted => Opens(m.name)' /\ Numbered(m.name)' /\ Grows(m.name)
        BY <1>5, <2>1, <3>1 DEF Opens, Numbered, Grows
      <3>3. QED
        BY <1>1, <1>2, <1>4, <1>8, <2>1, <2>2, <3>2, KeyWork DEF Quiet, SaveSteps, ViewSteps
    <2>5. QED
      BY <2>1, <2>3, <2>4
  <1>11. CASE KeepKey(t) \/ StrikeKey(t)
    <2>1. UNCHANGED <<user, os, lastId>> /\ m.step \in {"keep", "strike"}
      BY <1>1, <1>11 DEF KeepKey, StrikeKey, MachinesUnchanged, At
    <2>2. Sorted => user[m.name] # None /\ user[m.name].id = m.id
      BY <1>5, <2>1 DEF Logged, OwnedSteps
    <2>3. Sorted => keyRow'[m.name] = IF m.step = "keep" THEN keyRow[m.name] \cup m.key
                                                         ELSE keyRow[m.name] \ m.key
      BY <1>1, <1>4, <1>11, <2>2 DEF KeepKey, StrikeKey, Mine, Name, At
    <2>4. Sorted => Opens(m.name)'
      <3>1. CASE m.step = "keep"
        BY <1>5, <1>6, <2>1, <2>3, <3>1 DEF Opens, ReadKeys, Quiet, SaveSteps, ViewSteps
      <3>2. CASE m.step = "strike"
        BY <1>5, <2>1, <2>3, <3>2 DEF Opens, ReadKeys
      <3>3. QED
        BY <2>1, <3>1, <3>2
    <2>5. Sorted => Numbered(m.name)' /\ Grows(m.name)
      BY <1>5, <2>1, <2>2 DEF Numbered, Grows
    <2>6. task'[t].step \notin KeySteps
      BY <1>3, <2>1 DEF Follows, KeySteps
    <2>7. QED
      BY <1>1, <1>2, <1>4, <1>8, <2>1, <2>4, <2>5, <2>6, KeyWork DEF Quiet, SaveSteps, ViewSteps
  <1>12. CASE DeleteUserRow(t)
    <2>1. UNCHANGED <<os, lastId>> /\ m.step = "delete"
      BY <1>1, <1>12 DEF DeleteUserRow, MachinesUnchanged, At
    <2>2. Sorted => user[m.name] # None /\ user[m.name].id = m.id
      BY <1>5, <2>1 DEF Logged, OwnedSteps
    <2>3. Sorted => user'[m.name] = None /\ keyRow'[m.name] = {}
      BY <1>1, <1>4, <1>12, <2>2 DEF DeleteUserRow, Mine, Name
    <2>4. Sorted => Opens(m.name)' /\ Numbered(m.name)' /\ Grows(m.name)
      BY <2>3 DEF Opens, Numbered, Grows
    <2>5. task'[t].step \notin KeySteps
      BY <1>3, <2>1 DEF Follows, KeySteps
    <2>6. QED
      BY <1>1, <1>2, <1>4, <1>8, <2>1, <2>4, <2>5, KeyWork DEF Quiet, SaveSteps, ViewSteps
  <1>13. CASE RecordQuota(t)
    <2>1. UNCHANGED <<os, keyRow, lastId>> /\ m.step = "resized"
      BY <1>1, <1>13 DEF RecordQuota, MachinesUnchanged, At
    <2>2. Sorted => user[m.name] # None
      BY <1>5, <2>1 DEF Logged, OwnedSteps
    <2>3. user[m.name] # None => user'[m.name] # None /\ user'[m.name].id = user[m.name].id
      <3>1. CASE UNCHANGED user
        BY <3>1
      <3>2. CASE user[m.name] # None /\ ~UNCHANGED user
        <4>1. PICK u \in UserRow : u = user[m.name]
          BY <1>1, <1>4, <3>2
        <4>2. PICK v : v = [u EXCEPT !.quota = m.quota] /\ user' = [user EXCEPT ![m.name] = v]
          BY <1>1, <1>13, <3>2, <4>1 DEF RecordQuota, Name
        <4>3. m.quota \in Quotas
          BY <1>1, <2>1, TaskTyped DEF AsksQuota, QuotaSteps
        <4>4. v.id = u.id /\ v \in UserRow
          BY <4>2, <4>3 DEF UserRow
        <4>5. QED
          BY <1>1, <1>4, <4>1, <4>2, <4>4, UsersAssumption
      <3>3. QED
        BY <3>1, <3>2
    <2>4. Sorted => Opens(m.name)' /\ Numbered(m.name)' /\ Grows(m.name)
      BY <1>5, <1>6, <2>1, <2>2, <2>3 DEF Opens, Numbered, Grows, Quiet, SaveSteps, ViewSteps
    <2>5. task'[t].step \notin KeySteps
      BY <1>3, <2>1 DEF Follows, KeySteps
    <2>6. QED
      BY <1>1, <1>2, <1>4, <1>8, <2>1, <2>4, <2>5, KeyWork DEF Quiet, SaveSteps, ViewSteps
  <1>14. CASE InsertUser(t)
    <2>1. UNCHANGED <<os, keyRow>> /\ m.step = "insert"
      BY <1>1, <1>14 DEF InsertUser, MachinesUnchanged, RowsUnchanged, At
    <2>2. lastId' = lastId \/ lastId' = lastId + 1
      BY <1>14 DEF InsertUser, RowsUnchanged
    <2>3. lastId <= lastId'
      BY <1>4, <2>2
    <2>4. Sorted => user[m.name] = None
      BY <1>5, <2>1 DEF Logged
    <2>5. ASSUME Sorted PROVE user'[m.name].id = lastId' /\ lastId' > lastId
      <3>1. PICK v : /\ user' = [user EXCEPT ![m.name] = v] /\ lastId' = lastId + 1
                     /\ v = [id |-> lastId', mode |-> m.mode, quota |-> m.quota]
        BY <1>1, <1>14, <2>4, <2>5 DEF InsertUser, Name
      <3>2. v.id = lastId'
        BY <3>1
      <3>3. QED
        BY <1>1, <1>4, <3>1, <3>2
    <2>6. Sorted => keyRow'[m.name] = {}
      BY <1>5, <2>1, <2>4 DEF Numbered
    <2>7. Sorted => Opens(m.name)' /\ Numbered(m.name)' /\ Grows(m.name)
      BY <1>4, <2>5, <2>6 DEF Opens, Numbered, Grows
    <2>8. task'[t].step \notin KeySteps
      BY <1>3, <2>1 DEF Follows, KeySteps
    <2>9. QED
      BY <1>1, <1>2, <1>4, <1>8, <2>1, <2>3, <2>7, <2>8, KeyWork DEF Quiet, SaveSteps, ViewSteps
  <1>15. QED
    BY <1>9, <1>10, <1>11, <1>12, <1>13, <1>14, KeyNote, KeyRead, KeyMerge, KeyWrite DEF UserStep

LEMMA KeyStep ==
    ASSUME TypeInv, TypeInv', SingleInv, LoginInv, KeyInv, [Next]_deskAll
    PROVE  KeyInv'
  <1>1. ASSUME NEW t \in Threads, \/ AccountRequest(t) \/ AccountStep(t) \/ ImageRequest(t)
                                  \/ ImageStep(t) \/ PlanRequest(t) \/ PlanStep(t)
        PROVE  KeyInv'
    <2>1. /\ \A s \in Threads \ {t} : task'[s] = task[s]
          /\ UNCHANGED <<ops, peopleVars>>
          /\ task[t].step \notin UserSteps /\ task'[t].step \notin UserSteps
      BY <1>1, NotUsers, BecomeFlow
    <2>2. ReadKeys(task[t])' /\ task[t].step # "strike"
      BY <2>1 DEF ReadKeys, UserSteps
    <2>3. QED
      BY <2>1, <2>2, KeySame DEF peopleVars
  <1>2. ASSUME NEW t \in Threads, UserRequest(t) PROVE KeyInv'
    <2>1. /\ \A s \in Threads \ {t} : task'[s] = task[s]
          /\ UNCHANGED <<ops, peopleVars>> /\ task[t].step = "idle"
      BY <1>2, UserRequestFlow, BecomeFlow DEF Flows
    <2>2. PICK l : /\ l = task'[t] /\ (l.id <= lastId \/ user[l.name] # None)
                   /\ Creates(l) \/ Changes(l)
                   /\ l.name \in Names
      <3>1. task'[t].step \in UserSteps
        BY <1>2, UserRequestFlow DEF Flows, UserSteps
      <3>2. QED
        BY <1>2, <3>1, UserAsked, NamesTyped
    <2>3. Sorted => l.id <= lastId
      BY <2>2 DEF Creates, Changes, KeyInv, Numbered
    <2>4. Sorted => ReadKeys(l)'
      BY <2>1, <2>2, <2>3 DEF Creates, Changes, ReadKeys, peopleVars
    <2>5. Sorted => ReadKeys(task[t])'
      BY <2>2, <2>4 DEF ReadKeys, Imports
    <2>6. QED
      BY <2>1, <2>5, KeySame DEF peopleVars
  <1>3. ASSUME Jobs \/ (\E r \in Rows : Discard(r)) \/ UNCHANGED deskAll PROVE KeyInv'
    BY <1>3, ElsewhereUsers, KeySame DEF peopleVars
  <1>4. ASSUME Outside PROVE KeyInv'
    <2>1. UNCHANGED <<ops, task, user, keyRow, lastId>>
      BY <1>4 DEF Outside, OwnEdit, ByHand, deskVars
    <2>2. "turns" \in ops => \A n \in Names : os[n] # None =>
              os'[n] = os[n] \/ \A s \in Threads : task[s].step \in ViewSteps
      <3>1. os \in [Names -> Login \cup {None}]
        BY SameTypes DEF UsersTypeOK
      <3>2. QED
        BY <1>4, <3>1 DEF Outside, OwnEdit, ByHand
    <2>3. QED
      BY <1>4, <2>1, <2>2, OutsideKeeps, KeySame
  <1>5. QED
    BY <1>1, <1>2, <1>3, <1>4, KeyStepUser DEF Next

(* Every key in the rows of a user is in the file of his account: what the *)
(* profile shows as registered opens it.                                   *)
THEOREM RegisteredKeyWorksCorrect == TenantsSpec => []RegisteredKeyWorks
  <1>1. ASSUME Init PROVE KeyInv
    <2>1. /\ \A t \in Threads : task[t].step = "idle"
          /\ \A n \in Names : keyRow[n] = {}
          /\ \A n \in Names : user[n] # None => user[n].id = 0
          /\ lastId = 0
      BY <1>1 DEF Init, DeskInit, UsersInit, Idle
    <2>2. QED
      BY <2>1 DEF KeyInv, Opens, Numbered, ReadKeys, UserSteps
  <1>2. TypeInv /\ TypeInv' /\ SingleInv /\ LoginInv /\ KeyInv /\ [Next]_deskAll => KeyInv'
    BY KeyStep
  <1>3. KeyInv => RegisteredKeyWorks
    BY DEF KeyInv, Sorted, Opens, RegisteredKeyWorks
  <1>4. QED
    BY <1>1, <1>2, <1>3, TypesCorrect, SingleCorrect, LoginCorrect, PTL DEF TenantsSpec
-----------------------------------------------------------------------------
(* Accounts in Slurm and who pays                                          *)

(* The steps that rely on what has been read of the accounts.              *)
Relying == {"ensure", "apply", "raw", "charge"}

(* Whoever changes accounts works, and nobody else does then.              *)
LEMMA AccountsAtWork ==
    ASSUME TypeInv, [Next]_deskAll
    PROVE  /\ UNCHANGED ops
           /\ \/ UNCHANGED <<accountVars, task>>
              \/ \E t \in Threads :
                    /\ Become(t, task'[t])
                    /\ UNCHANGED accountVars \/ task[t].step \notin Quiet
                    /\ \/ AccountStep(t) \/ PlanRequest(t) \/ PlanStep(t)
                       \/ task'[t].step \notin Relying
  <1>1. ASSUME NEW t \in Threads, AccountRequest(t) \/ UserRequest(t) \/ ImageRequest(t) \/ ImageStep(t)
        PROVE  /\ Become(t, task'[t]) /\ UNCHANGED <<ops, accountVars>>
               /\ task'[t].step \notin Relying
    <2>1. CASE AccountRequest(t)
      BY <2>1, AccountRequestFlow DEF Flows, Relying
    <2>2. CASE UserRequest(t)
      BY <2>2, UserRequestFlow DEF Flows, Relying
    <2>3. CASE ImageRequest(t)
      BY <2>3, ImageRequestFlow DEF Flows, Relying
    <2>4. CASE ImageStep(t)
      BY <2>4, ImageFlow DEF Flows, Relying, ImageSteps, SaveSteps
    <2>5. QED
      BY <1>1, <2>1, <2>2, <2>3, <2>4
  <1>2. ASSUME NEW t \in Threads, UserStep(t)
        PROVE  /\ Become(t, task'[t]) /\ UNCHANGED ops
               /\ UNCHANGED accountVars \/ task[t].step \notin Quiet
               /\ task'[t].step \notin Relying
    <2>1. Become(t, task'[t]) /\ UNCHANGED ops /\ task'[t].step \notin Relying
      BY <1>2, UserFlow DEF Flows, UserSteps, Relying
    <2>2. UNCHANGED accountVars \/ Provision(t) \/ InitLogin(t) \/ RemoveLogin(t)
      BY <1>2 DEF UserStep, HelperFails, ReplyLost, Spread, Limit, InsertUser, EmptyNodes, DeleteUserRow,
           Resize, RecordQuota, Look, Note, Gather, Merge, WriteKeys, KeepKey, RewriteKeys,
           StrikeKey, SetQuota, GetKeys, SetKeys, MachinesUnchanged
    <2>3. QED
      BY <2>1, <2>2 DEF Provision, InitLogin, RemoveLogin, At, Quiet, SaveSteps, ViewSteps
  <1>3. ASSUME NEW t \in Threads, AccountStep(t) \/ PlanStep(t)
        PROVE  /\ Become(t, task'[t]) /\ UNCHANGED ops /\ task[t].step \notin Quiet
    <2>1. CASE AccountStep(t)
      BY <2>1, AccountFlow DEF Flows, AddSteps, DeleteSteps, MemberSteps, Quiet, SaveSteps, ViewSteps
    <2>2. CASE PlanStep(t)
      BY <2>2, PlanFlow DEF Flows, PlanSteps, BookSteps, Quiet, SaveSteps, ViewSteps
    <2>3. QED
      BY <1>3, <2>1, <2>2
  <1>4. ASSUME NEW t \in Threads, PlanRequest(t)
        PROVE  Become(t, task'[t]) /\ UNCHANGED <<ops, accountVars>>
    BY <1>4, PlanRequestFlow DEF Flows
  <1>5. ASSUME Outside \/ Jobs \/ (\E r \in Rows : Discard(r)) \/ UNCHANGED deskAll
        PROVE  UNCHANGED <<ops, task, accountVars>>
    BY <1>5 DEF Outside, Jobs, OwnEdit, ByHand, JobStart, JobEnd, Discard, deskAll, deskVars
  <1>6. QED
    BY <1>1, <1>2, <1>3, <1>4, <1>5 DEF Next

(* What a submission pays with has been looked up and still holds.         *)
Billed(l) ==
    /\ l.step = "raw" => l.account = None
    /\ l.step = "charge" /\ l.account # None => l.account \in Offer(l.name)
    /\ l.step = "charge" /\ l.account = None /\ ~l.again => member[l.name] = {}

Answering == "serial" \in ops /\ "helper" \notin ops

ChargeInv == Answering => \A t \in Threads : Billed(task[t])

LEMMA ChargeSame ==
    ASSUME TypeInv, ChargeInv, UNCHANGED <<ops, accountVars>>,
           Answering => \A s \in Threads : task'[s] = task[s] \/ Billed(task'[s])
    PROVE  ChargeInv'
  <1>1. Answering' = Answering
    BY DEF Answering
  <1>2. ASSUME Answering, NEW s \in Threads PROVE Billed(task[s])'
    <2>1. Billed(task'[s])
      BY <1>2 DEF ChargeInv
    <2>2. QED
      BY <2>1 DEF Billed, Offer, Open, accountVars
  <1>3. QED
    BY <1>1, <1>2 DEF ChargeInv

(* Nobody relies on what a handler that works changes.                     *)
LEMMA ChargeWork ==
    ASSUME TypeInv, SingleInv, ChargeInv, UNCHANGED ops, NEW t \in Threads, Become(t, task'[t]),
           task[t].step \notin Quiet, task'[t].step \notin {"raw", "charge"}
    PROVE  ChargeInv'
  <1>1. ASSUME Answering, NEW s \in Threads PROVE task'[s].step \notin {"raw", "charge"}
    <2>1. CASE s = t
      BY <2>1
    <2>2. CASE s # t
      <3>1. task'[s] = task[s] /\ task[s].step \in Quiet
        BY <1>1, <2>2, BecomeFlow, Alone DEF Answering, Calm
      <3>2. QED
        BY <3>1 DEF Quiet, SaveSteps, ViewSteps
    <2>3. QED
      BY <2>1, <2>2
  <1>2. Answering' = Answering
    BY DEF Answering
  <1>3. QED
    BY <1>1, <1>2 DEF ChargeInv, Billed

LEMMA ChargeAsk ==
    ASSUME TypeInv, SingleInv, ChargeInv, NEW t \in Threads, PlanStep(t)
    PROVE  ChargeInv'
  <1>1. Become(t, task'[t]) /\ UNCHANGED ops /\ task[t].step \notin Quiet
    BY PlanFlow DEF Flows, PlanSteps, BookSteps, Quiet, SaveSteps, ViewSteps
  <1>2. CASE task'[t].step \notin Relying
    BY <1>1, <1>2, ChargeWork DEF Relying
  <1>3. CASE task'[t].step \in Relying
    <2>1. \/ AskAccounts(t) \/ AskRaw(t)
          \/ "helper" \in ops
      <3>1. CASE FlipPlan(t) \/ DropPlan(t) \/ Book(t) \/ ChargeFails(t)
        <4>1. task'[t].step = "idle"
          BY <3>1, FinishFlow DEF FlipPlan, DropPlan, Book, ChargeFails
        <4>2. QED
          BY <1>3, <4>1 DEF Relying
      <3>2. CASE ChargeNamed(t) \/ ChargeDefault(t)
        <4>1. PICK m \in BookLocals : m = task[t]
          BY <3>2, TaskTyped, Kinds DEF ChargeNamed, ChargeDefault, At
        <4>2. PICK a, l : Finish(t) \/ (l = [m EXCEPT !.step = "book", !.paid = a] /\ Become(t, l))
          BY <3>2, <4>1 DEF ChargeNamed, ChargeDefault, Pay
        <4>3. CASE Finish(t)
          BY <1>3, <4>3, FinishFlow DEF Relying
        <4>4. CASE l = [m EXCEPT !.step = "book", !.paid = a] /\ Become(t, l)
          <5>1. l.step = "book"
            BY <4>4 DEF BookLocals
          <5>2. QED
            BY <1>3, <4>4, <5>1, BecomeFlow DEF Relying
        <4>5. QED
          BY <4>2, <4>3, <4>4
      <3>3. QED
        BY <3>1, <3>2 DEF PlanStep, AskFails, AskRawFails
    <2>2. CASE "helper" \in ops
      BY <1>1, <2>2 DEF ChargeInv, Answering
    <2>3. CASE AskAccounts(t) \/ AskRaw(t)
      <3>1. PICK m \in BookLocals : m = task[t]
        BY <2>3, TaskTyped, Kinds DEF AskAccounts, AskRaw, At
      <3>2. UNCHANGED accountVars
        BY <2>3 DEF AskAccounts, AskRaw, OnlyTaskChanges
      <3>3. Answering => Billed(m)
        BY <3>1 DEF ChargeInv
      <3>4. PICK a, l : /\ Become(t, l)
                        /\ \/ l = Idle
                           \/ l = [m EXCEPT !.step = "charge"] /\ m.account # None /\ m.account \in Offer(m.name)
                           \/ l = [m EXCEPT !.step = "raw"] /\ m.account = None
                           \/ l = [m EXCEPT !.step = "charge", !.account = a] /\ a \in Offer(m.name)
                           \/ /\ l = [m EXCEPT !.step = "charge"]
                              /\ m.step = "raw" /\ member[m.name] = {}
        <4>1. CASE AskAccounts(t)
          BY <3>1, <4>1 DEF AskAccounts, Finish, Goto, Preferred
        <4>2. CASE AskRaw(t)
          BY <3>1, <4>2 DEF AskRaw, Finish, Goto, At
        <4>3. QED
          BY <2>3, <4>1, <4>2
      <3>5. ASSUME Answering PROVE Billed(l)
        <4>1. CASE l = Idle
          BY <4>1 DEF Idle, Billed
        <4>2. CASE l = [m EXCEPT !.step = "charge"]
                   /\ m.account # None /\ m.account \in Offer(m.name)
          <5>1. l.step = "charge" /\ l.account = m.account /\ l.name = m.name
            BY <4>2 DEF BookLocals
          <5>2. QED
            BY <4>2, <5>1 DEF Billed
        <4>3. CASE l = [m EXCEPT !.step = "raw"] /\ m.account = None
          <5>1. l.step = "raw" /\ l.account = m.account
            BY <4>3 DEF BookLocals
          <5>2. QED
            BY <4>3, <5>1 DEF Billed
        <4>4. CASE l = [m EXCEPT !.step = "charge", !.account = a] /\ a \in Offer(m.name)
          <5>1. l.step = "charge" /\ l.account = a /\ l.name = m.name
            BY <4>4 DEF BookLocals
          <5>2. a # None
            <6>1. member[m.name] \in SUBSET Accounts
              BY SameTypes DEF AccountsTypeOK, BookLocals
            <6>2. QED
              BY <4>4, <6>1, AccountsAssumption DEF Offer
          <5>3. QED
            BY <4>4, <5>1, <5>2 DEF Billed
        <4>5. CASE l = [m EXCEPT !.step = "charge"] /\ m.step = "raw" /\ member[m.name] = {}
          <5>1. l.step = "charge" /\ l.account = m.account /\ l.name = m.name
            BY <4>5 DEF BookLocals
          <5>2. m.account = None
            BY <3>3, <3>5, <4>5 DEF Billed
          <5>3. QED
            BY <4>5, <5>1, <5>2 DEF Billed
        <4>6. QED
          BY <3>4, <4>1, <4>2, <4>3, <4>4, <4>5
      <3>6. task'[t] = l /\ \A s \in Threads \ {t} : task'[s] = task[s]
        BY <3>4, BecomeFlow
      <3>7. QED
        BY <1>1, <3>2, <3>5, <3>6, ChargeSame
    <2>4. QED
      BY <2>1, <2>2, <2>3
  <1>4. QED
    BY <1>2, <1>3

LEMMA ChargeRequest ==
    ASSUME TypeInv, ChargeInv, NEW t \in Threads, PlanRequest(t)
    PROVE  ChargeInv'
  <1>1. Become(t, task'[t]) /\ UNCHANGED <<ops, accountVars>>
    BY PlanRequestFlow DEF Flows
  <1>2. Billed(task'[t])
    <2>1. CASE \E r \in Rows : BeginRebook(t, r)
      <3>1. PICK r, v, l : /\ r \in Rows
                           /\ v = Booked(booked[r].user, booked[r].plan, booked[r].account, r, TRUE)
                           /\ l = IF booked[r].account = None THEN [v EXCEPT !.step = "charge"] ELSE v
                           /\ Become(t, l)
        BY <2>1 DEF BeginRebook, Begin
      <3>2. l.again = TRUE /\ l.step \in {"ask", "charge"} /\ (l.step = "charge" => l.account = None)
        BY <3>1 DEF Booked
      <3>3. QED
        BY <3>1, <3>2, BecomeFlow DEF Billed
    <2>2. CASE ~\E r \in Rows : BeginRebook(t, r)
      <3>1. PICK p, n, d, r : /\ p \in Plans
                              /\ \/ AddPlan(t, p) \/ BeginPlanToggle(t, p) \/ BeginPlanDelete(t, p)
                                 \/ BeginBook(t, n, p, d, r) \/ BeginProxyBook(t, n, p, d, r)
        BY <2>2 DEF PlanRequest
      <3>2. CASE AddPlan(t, p) \/ BeginPlanToggle(t, p) \/ BeginPlanDelete(t, p)
        BY <3>2, BecomeFlow DEF AddPlan, BeginPlanToggle, BeginPlanDelete, Begin, Idle, Billed
      <3>3. CASE BeginBook(t, n, p, d, r) \/ BeginProxyBook(t, n, p, d, r)
        <4>1. Become(t, Booked(n, p, d, r, FALSE))
          BY <3>3 DEF BeginBook, BeginProxyBook, Begin
        <4>2. QED
          BY <4>1, BecomeFlow DEF Booked, Billed
      <3>4. QED
        BY <3>1, <3>2, <3>3
    <2>3. QED
      BY <2>1, <2>2
  <1>3. QED
    BY <1>1, <1>2, BecomeFlow, ChargeSame

LEMMA ChargeStep ==
    ASSUME TypeInv, SingleInv, ChargeInv, [Next]_deskAll PROVE ChargeInv'
  <1>1. CASE UNCHANGED <<ops, accountVars, task>>
    BY <1>1, ChargeSame
  <1>2. CASE ~UNCHANGED <<ops, accountVars, task>>
    <2>1. PICK t \in Threads :
             /\ Become(t, task'[t]) /\ UNCHANGED ops
             /\ UNCHANGED accountVars \/ task[t].step \notin Quiet
             /\ \/ AccountStep(t) \/ PlanRequest(t) \/ PlanStep(t)
                \/ task'[t].step \notin Relying
      BY <1>2, AccountsAtWork
    <2>2. CASE PlanRequest(t) \/ PlanStep(t)
      BY <2>2, ChargeRequest, ChargeAsk
    <2>3. CASE AccountStep(t)
      <3>1. task[t].step \notin Quiet /\ task'[t].step \notin {"raw", "charge"}
        BY <2>3, AccountFlow DEF Flows, AddSteps, DeleteSteps, MemberSteps, Quiet, SaveSteps, ViewSteps
      <3>2. QED
        BY <2>1, <3>1, ChargeWork
    <2>4. CASE task'[t].step \notin Relying
      <3>1. CASE task[t].step \notin Quiet
        BY <2>1, <2>4, <3>1, ChargeWork DEF Relying
      <3>2. CASE UNCHANGED accountVars
        <4>1. Billed(task'[t])
          BY <2>4 DEF Billed, Relying
        <4>2. QED
          BY <2>1, <3>2, <4>1, BecomeFlow, ChargeSame
      <3>3. QED
        BY <2>1, <3>1, <3>2
    <2>5. QED
      BY <2>1, <2>2, <2>3, <2>4
  <1>3. QED
    BY <1>1, <1>2
LEMMA ChargeCorrect == TenantsSpec => []ChargeInv
  <1>1. Init => ChargeInv
    BY DEF Init, DeskInit, Idle, ChargeInv, Billed
  <1>2. TypeInv /\ SingleInv /\ ChargeInv /\ [Next]_deskAll => ChargeInv'
    BY ChargeStep
  <1>3. QED
    BY <1>1, <1>2, TypesCorrect, SingleCorrect, PTL DEF TenantsSpec

(* Only the helper charges.                                                *)
LEMMA WhoCharges ==
    ASSUME TypeInv, [Next]_deskAll, NEW t \in Threads, Charged(t)
    PROVE  ChargeNamed(t) \/ ChargeDefault(t)
  <1>1. task[t].step = "charge" /\ task'[t].step = "book" /\ task'[t] # task[t]
    BY DEF Charged, At
  <1>2. ~(Outside \/ Jobs \/ (\E r \in Rows : Discard(r)) \/ UNCHANGED deskAll)
    BY <1>1 DEF Outside, Jobs, OwnEdit, ByHand, JobStart, JobEnd, Discard, deskAll, deskVars
  <1>3. PICK s \in Threads : \/ AccountRequest(s) \/ AccountStep(s) \/ UserRequest(s) \/ UserStep(s)
                             \/ ImageRequest(s) \/ ImageStep(s) \/ PlanRequest(s) \/ PlanStep(s)
    BY <1>2 DEF Next
  <1>4. Become(s, task'[s])
    BY <1>3, AccountRequestFlow, AccountFlow, UserRequestFlow, UserFlow, ImageRequestFlow, ImageFlow,
       PlanRequestFlow, PlanFlow DEF Flows
  <1>5. s = t
    BY <1>1, <1>4, BecomeFlow
  <1>6. ~(AccountRequest(t) \/ UserRequest(t) \/ ImageRequest(t) \/ PlanRequest(t))
    BY <1>1, AccountRequestFlow, UserRequestFlow, ImageRequestFlow, PlanRequestFlow DEF Flows
  <1>7. ~(AccountStep(t) \/ UserStep(t) \/ ImageStep(t))
    BY <1>1, AccountFlow, UserFlow, ImageFlow
       DEF Flows, AddSteps, DeleteSteps, MemberSteps, UserSteps, ImageSteps, SaveSteps
  <1>8. ChargeNamed(t) \/ ChargeDefault(t) \/ ChargeFails(t)
    BY <1>1, <1>3, <1>5, <1>6, <1>7
       DEF PlanStep, FlipPlan, DropPlan, AskAccounts, AskFails, AskRaw, AskRawFails, Book, At
  <1>9. ~ChargeFails(t)
    BY <1>1, FinishFlow DEF ChargeFails
  <1>10. QED
    BY <1>8, <1>9

(* Whoever has an account pays with one he is a member of and that has not *)
(* expired, named or not.                                                  *)
THEOREM ChargedOpenAccountCorrect == TenantsSpec => ChargedOpenAccount
  <1> DEFINE Paid(t, n, paid) ==
                /\ paid \in member'[n]
                /\ member[n] # {} /\ ~(task[t].again /\ task[t].account = None) => Open(paid)
             Step == ("serial" \in ops /\ "helper" \notin ops) =>
                        \A t \in Threads : Charged(t) =>
                            LET n == task[t].name
                                paid == task'[t].paid
                            IN  /\ paid \in member'[n]
                                /\ member[n] # {} /\ ~(task[t].again /\ task[t].account = None) =>
                                     Open(paid)
  <1>1. ASSUME TypeInv, SingleInv, DefaultInv, ChargeInv, [Next]_deskAll, Answering,
               NEW t \in Threads, Charged(t)
        PROVE  Paid(t, task[t].name, task'[t].paid)
    <2>1. ChargeNamed(t) \/ ChargeDefault(t)
      BY <1>1, WhoCharges
    <2>2. PICK m \in BookLocals : m = task[t] /\ m.step = "charge" /\ m.name \in Names
      <3>1. task[t].step = "charge"
        BY <1>1 DEF Charged, At
      <3>2. task[t] \in BookLocals
        BY <1>1, <3>1, TaskTyped, Kinds
      <3>3. QED
        BY <3>1, <3>2 DEF BookLocals
    <2>3. ~Finish(t)
      BY <1>1, FinishFlow DEF Charged
    <2>4. Billed(m)
      BY <1>1, <2>2 DEF ChargeInv
    <2>5. member \in [Names -> SUBSET Accounts] /\ default \in [Names -> Accounts \cup {None}]
      BY <1>1, SameTypes DEF AccountsTypeOK
    <2>6. ASSUME NEW a, Pay(t, a) PROVE task'[t].paid = a
      <3>1. PICK l : l = [m EXCEPT !.step = "book", !.paid = a] /\ Become(t, l)
        BY <2>2, <2>6 DEF Pay
      <3>2. l.paid = a
        BY <3>1 DEF BookLocals
      <3>3. QED
        BY <1>1, <3>1, <3>2, BecomeFlow
    <2>7. CASE ChargeNamed(t)
      <3>1. /\ m.account # None /\ m.account \in member[m.name] /\ Pay(t, m.account)
            /\ UNCHANGED member
        BY <2>2, <2>3, <2>7 DEF ChargeNamed, OnlyTaskChanges, accountVars
      <3>2. task'[t].paid = m.account /\ Open(m.account)
        BY <2>2, <2>4, <2>6, <3>1 DEF Billed, Offer
      <3>3. QED
        BY <2>2, <3>1, <3>2
    <2>8. CASE ChargeDefault(t)
      <3>1. m.account = None /\ Associate(m.name, Site) /\ Pay(t, default'[m.name])
        BY <2>2, <2>3, <2>8 DEF ChargeDefault
      <3>2. task'[t].paid = default'[m.name]
        BY <2>6, <3>1
      <3>3. HasDefault(m.name)
        BY <1>1, <2>2 DEF DefaultInv, Calm, Answering
      <3>4. default'[m.name] \in member'[m.name]
        BY <2>2, <2>5, <3>1, <3>3, AccountsAssumption DEF Associate, HasDefault
      <3>5. m.again \/ member[m.name] = {}
        BY <2>2, <2>4, <3>1 DEF Billed
      <3>6. QED
        BY <2>2, <3>1, <3>2, <3>4, <3>5
    <2>9. QED
      BY <2>1, <2>7, <2>8
  <1>2. TypeInv /\ SingleInv /\ DefaultInv /\ ChargeInv /\ [Next]_deskAll => [Step]_deskAll
    BY <1>1 DEF Answering
  <1>3. TenantsSpec => [][Step]_deskAll
    <2> HIDE DEF Step
    <2>1. QED
      BY <1>2, TypesCorrect, SingleCorrect, DefaultsCorrect, ChargeCorrect, PTL DEF TenantsSpec
  <1>4. QED
    BY <1>3 DEF ChargedOpenAccount
Ensured(a) == a \in slurm /\ qos[a] # None

(* What the helper has done of the rows it was sent, which are the rows    *)
(* there are.                                                              *)
Synced(l) ==
    /\ l.step \in {"ensure", "apply"} => l.sent = acctRow
    /\ l.step = "ensure" =>
         \A a \in Accounts : acctRow[a] # None => a \in l.ensure \/ Ensured(a)
    /\ l.step = "apply" =>
         \A a \in Accounts :
            /\ acctRow[a] # None => Ensured(a)
            /\ l.todo[a] # None => qos[a] # None /\ l.todo[a] = Desired(l.sent, a)
            /\ l.todo[a] = None /\ qos[a] # None => qos[a] = Desired(l.sent, a)

SyncInv == "serial" \in ops => \A t \in Threads : Synced(task[t])

LEMMA SyncSame ==
    ASSUME TypeInv, SyncInv, UNCHANGED <<ops, accountVars>>,
           "serial" \in ops => \A s \in Threads : task'[s] = task[s] \/ Synced(task'[s])
    PROVE  SyncInv'
  <1>1. ASSUME "serial" \in ops, NEW s \in Threads PROVE Synced(task[s])'
    <2>1. Synced(task'[s])
      BY <1>1 DEF SyncInv
    <2>2. QED
      BY <2>1 DEF Synced, Ensured, Desired, Lower, Known, Priority, accountVars
  <1>2. QED
    BY <1>1 DEF SyncInv

LEMMA SyncWork ==
    ASSUME TypeInv, SingleInv, SyncInv, UNCHANGED ops, NEW t \in Threads, Become(t, task'[t]),
           task[t].step \notin Quiet, "serial" \in ops => Synced(task[t])'
    PROVE  SyncInv'
  <1>1. ASSUME "serial" \in ops, NEW s \in Threads PROVE Synced(task[s])'
    <2>1. CASE s = t
      BY <1>1, <2>1
    <2>2. CASE s # t
      <3>1. task'[s] = task[s] /\ task[s].step \in Quiet
        BY <1>1, <2>2, BecomeFlow, Alone DEF Calm
      <3>2. QED
        BY <3>1 DEF Synced, Quiet, SaveSteps, ViewSteps
    <2>3. QED
      BY <2>1, <2>2
  <1>2. QED
    BY <1>1 DEF SyncInv

(* To set a QoS as wanted changes nothing that is wanted.                  *)
LEMMA DesiredStays ==
    ASSUME TypeInv, NEW sent \in [Accounts -> Settings \cup {None}], NEW a \in Accounts, qos[a] # None,
           qos' = [qos EXCEPT ![a] = Desired(sent, a)]
    PROVE  /\ qos'[a] # None /\ \A b \in Accounts \ {a} : qos'[b] = qos[b]
           /\ qos'[a] = Desired(sent, a)
           /\ \A b \in Accounts : Desired(sent, b)' = Desired(sent, b)
  <1>1. qos \in [Accounts -> Qos \cup {None}]
    BY SameTypes DEF AccountsTypeOK
  <1>2. Desired(sent, a) \in Qos
    BY <1>1, SameTypes, DesiredTyped DEF Known
  <1>3. /\ qos'[a] = Desired(sent, a) /\ qos'[a] # None
        /\ \A b \in Accounts \ {a} : qos'[b] = qos[b]
    BY <1>1, <1>2, NoneAssumption
  <1>4. qos'[a].priority = Priority(sent, a)
    BY <1>3 DEF Desired
  <1>5. \A b \in Accounts : Priority(sent, b)' = Priority(sent, b)
    BY <1>3, <1>4 DEF Priority
  <1>6. Known(sent)' = Known(sent)
    BY <1>3 DEF Known
  <1>7. \A b \in Accounts : Lower(sent, b)' = Lower(sent, b)
    BY <1>5, <1>6 DEF Lower, Known
  <1>8. \A b \in Accounts : Desired(sent, b)' = Desired(sent, b)
    BY <1>5, <1>7 DEF Desired
  <1>9. QED
    BY <1>3, <1>8

LEMMA SyncReads ==
    ASSUME TypeInv, SingleInv, SyncInv, NEW t \in Threads, ReadRows(t) \/ SyncRead(t)
    PROVE  SyncInv'
  <1>1. PICK m \in ChangeLocals : m = task[t] /\ m.step \in {"payload", "ensure"}
    BY TaskTyped, Kinds DEF ReadRows, SyncRead, At, ChangeSteps
  <1>2. UNCHANGED <<ops, accountVars>>
    BY DEF ReadRows, SyncRead
  <1>3. /\ acctRow \in [Accounts -> Settings \cup {None}]
        /\ m.sent \in [Accounts -> Settings \cup {None}]
    BY SameTypes DEF AccountsTypeOK, ChangeLocals
  <1>4. CASE ReadRows(t)
    <2>1. PICK r, e, l : /\ r = acctRow /\ e = {a \in Accounts : r[a] # None}
                         /\ l = [m EXCEPT !.step = "ensure", !.sent = r, !.ensure = e] /\ Become(t, l)
      BY <1>1, <1>4 DEF ReadRows
    <2>2. l.step = "ensure" /\ l.sent = r /\ l.ensure = e
      BY <2>1 DEF ChangeLocals
    <2>3. Synced(l)
      BY <2>1, <2>2 DEF Synced
    <2>4. QED
      BY <1>2, <2>1, <2>3, BecomeFlow, SyncSame
  <1>5. CASE SyncRead(t)
    <2>1. PICK f, l : /\ f = [a \in Accounts |-> IF a \in Known(m.sent) THEN Desired(m.sent, a) ELSE None]
                      /\ l = [m EXCEPT !.step = "apply", !.todo = f] /\ Become(t, l)
                      /\ m.ensure = {} /\ m.step = "ensure"
      BY <1>1, <1>5 DEF SyncRead, At
    <2>2. l.step = "apply" /\ l.sent = m.sent /\ l.todo = f
      BY <2>1 DEF ChangeLocals
    <2>3. ASSUME "serial" \in ops PROVE Synced(l)
      <3>1. m.sent = acctRow /\ \A a \in Accounts : acctRow[a] # None => Ensured(a)
        BY <1>1, <2>1, <2>3 DEF SyncInv, Synced
      <3>2. \A a \in Accounts : a \in Known(m.sent) <=> qos[a] # None
        BY <3>1 DEF Known, Ensured
      <3>3. \A a \in Known(m.sent) : Desired(m.sent, a) # None
        BY <1>3, SameTypes, DesiredTyped, NoneAssumption
      <3>4. \A a \in Accounts : l.todo[a] = IF qos[a] # None THEN Desired(l.sent, a) ELSE None
        BY <2>1, <2>2, <3>2
      <3>5. \A a \in Accounts : qos[a] # None => l.todo[a] # None
        BY <2>2, <3>2, <3>3, <3>4
      <3>6. QED
        BY <2>2, <3>1, <3>4, <3>5 DEF Synced
    <2>4. QED
      BY <1>2, <2>1, <2>3, BecomeFlow, SyncSame
  <1>6. QED
    BY <1>4, <1>5

LEMMA SyncChanges ==
    ASSUME TypeInv, SingleInv, SyncInv, NEW t \in Threads, NEW a \in Accounts,
           SyncEnsure(t, a) \/ SyncApply(t, a)
    PROVE  SyncInv'
  <1>1. PICK m \in ChangeLocals : m = task[t] /\ m.step \in {"ensure", "apply"}
    BY TaskTyped, Kinds DEF SyncEnsure, SyncApply, At, ChangeSteps
  <1>2. UNCHANGED <<ops, acctRow>> /\ task[t].step \notin Quiet
    BY <1>1 DEF SyncEnsure, SyncApply, Quiet, SaveSteps, ViewSteps
  <1>3. /\ acctRow \in [Accounts -> Settings \cup {None}] /\ qos \in [Accounts -> Qos \cup {None}]
        /\ m.sent \in [Accounts -> Settings \cup {None}]
        /\ m.todo \in [Accounts -> Qos \cup {None}]
    BY SameTypes DEF AccountsTypeOK, ChangeLocals
  <1>4. "serial" \in ops => Synced(m)
    BY <1>1 DEF SyncInv
  <1>5. CASE SyncEnsure(t, a)
    <2>1. PICK e, l : /\ e = m.ensure \ {a} /\ l = [m EXCEPT !.ensure = e] /\ Become(t, l)
                      /\ m.step = "ensure" /\ EnsureAccount(a)
      BY <1>1, <1>5 DEF SyncEnsure, At
    <2>2. l.step = "ensure" /\ l.sent = m.sent /\ l.ensure = e
      BY <2>1 DEF ChangeLocals
    <2>3. Fresh \in Qos
      BY AccountsAssumption DEF Fresh, Qos
    <2>4. Ensured(a)' /\ \A b \in Accounts : Ensured(b) => Ensured(b)'
      BY <1>3, <2>1, <2>3, NoneAssumption DEF EnsureAccount, Ensured
    <2>5. "serial" \in ops => Synced(l)'
      BY <1>2, <1>4, <2>1, <2>2, <2>4 DEF Synced
    <2>6. l = task'[t] /\ Become(t, task'[t])
      BY <2>1, BecomeFlow
    <2>7. "serial" \in ops => Synced(task[t])'
      BY <2>5, <2>6 DEF Synced
    <2>8. QED
      BY <1>2, <2>6, <2>7, SyncWork
  <1>6. CASE SyncApply(t, a) /\ qos[a] = None
    <2>1. Goto(t, "undo")
      BY <1>6 DEF SyncApply
    <2>2. Become(t, task'[t]) /\ task'[t].step = "undo"
      BY <2>1, GotoFlow
    <2>3. Synced(task[t])'
      BY <2>2 DEF Synced
    <2>4. QED
      BY <1>2, <2>2, <2>3, SyncWork
  <1>7. CASE SyncApply(t, a) /\ qos[a] # None
    <2>1. PICK f, l : /\ f = [m.todo EXCEPT ![a] = None] /\ l = [m EXCEPT !.todo = f] /\ Become(t, l)
                      /\ m.step = "apply" /\ m.todo[a] # None /\ qos' = [qos EXCEPT ![a] = m.todo[a]]
                      /\ UNCHANGED slurm
      BY <1>1, <1>7 DEF SyncApply, At
    <2>2. l.step = "apply" /\ l.sent = m.sent /\ l.todo = f
      BY <2>1 DEF ChangeLocals
    <2>3. l.todo[a] = None /\ \A b \in Accounts \ {a} : l.todo[b] = m.todo[b]
      BY <1>3, <2>1, <2>2
    <2>4. ASSUME "serial" \in ops PROVE Synced(l)'
      <3>1. m.todo[a] = Desired(m.sent, a)
        BY <1>4, <2>1, <2>4 DEF Synced
      <3>2. /\ qos'[a] # None /\ \A b \in Accounts \ {a} : qos'[b] = qos[b]
            /\ qos'[a] = Desired(m.sent, a)
            /\ \A b \in Accounts : Desired(m.sent, b)' = Desired(m.sent, b)
        BY <1>3, <1>7, <2>1, <3>1, DesiredStays
      <3>3. \A b \in Accounts : acctRow[b] # None => Ensured(b)'
        BY <1>4, <2>1, <2>4, <3>2 DEF Synced, Ensured
      <3>4. ASSUME NEW b \in Accounts
            PROVE  /\ l.todo[b] # None => qos'[b] # None /\ l.todo[b] = Desired(m.sent, b)'
                   /\ l.todo[b] = None /\ qos'[b] # None => qos'[b] = Desired(m.sent, b)'
        <4>1. CASE b = a
          BY <2>3, <3>2, <4>1
        <4>2. CASE b # a
          <5>1. qos'[b] = qos[b] /\ l.todo[b] = m.todo[b] /\ Desired(m.sent, b)' = Desired(m.sent, b)
            BY <2>3, <3>2, <4>2
          <5>2. /\ m.todo[b] # None => qos[b] # None /\ m.todo[b] = Desired(m.sent, b)
                /\ m.todo[b] = None /\ qos[b] # None => qos[b] = Desired(m.sent, b)
            BY <1>4, <2>1, <2>4 DEF Synced
          <5>3. QED
            BY <5>1, <5>2
        <4>3. QED
          BY <4>1, <4>2
      <3>5. l.sent = acctRow
        BY <1>4, <2>1, <2>2, <2>4 DEF Synced
      <3>6. QED
        BY <1>2, <2>2, <3>3, <3>4, <3>5 DEF Synced
    <2>5. l = task'[t] /\ Become(t, task'[t])
      BY <2>1, BecomeFlow
    <2>6. "serial" \in ops => Synced(task[t])'
      BY <2>4, <2>5 DEF Synced
    <2>7. QED
      BY <1>2, <2>5, <2>6, SyncWork
  <1>8. QED
    BY <1>5, <1>6, <1>7

LEMMA SyncStep ==
    ASSUME TypeInv, SingleInv, SyncInv, [Next]_deskAll PROVE SyncInv'
  <1>1. CASE UNCHANGED <<ops, accountVars, task>>
    BY <1>1, SyncSame
  <1>2. CASE ~UNCHANGED <<ops, accountVars, task>>
    <2>1. PICK t \in Threads :
             /\ Become(t, task'[t]) /\ UNCHANGED ops
             /\ UNCHANGED accountVars \/ task[t].step \notin Quiet
             /\ \/ AccountStep(t) \/ PlanRequest(t) \/ PlanStep(t)
                \/ task'[t].step \notin Relying
      BY <1>2, AccountsAtWork
    <2>2. CASE task'[t].step \notin {"ensure", "apply"}
      <3>1. Synced(task'[t]) /\ Synced(task[t])'
        BY <2>2 DEF Synced
      <3>2. CASE task[t].step \notin Quiet
        BY <2>1, <3>1, <3>2, SyncWork
      <3>3. CASE UNCHANGED accountVars
        BY <2>1, <3>1, <3>3, BecomeFlow, SyncSame
      <3>4. QED
        BY <2>1, <3>2, <3>3
    <2>3. CASE task'[t].step \in {"ensure", "apply"}
      <3>1. AccountStep(t)
        <4>1. PlanRequest(t) => task'[t].step \notin {"ensure", "apply"}
          BY PlanRequestFlow DEF Flows
        <4>2. PlanStep(t) => task'[t].step \notin {"ensure", "apply"}
          BY PlanFlow DEF Flows, BookSteps
        <4>3. QED
          BY <2>1, <2>3, <4>1, <4>2 DEF Relying
      <3>2. CASE \/ WriteRow(t) \/ SyncReturns(t) \/ SyncFails(t) \/ Undo(t)
                 \/ CheckDelete(t) \/ DropAccount(t) \/ DropQos(t) \/ DeleteFails(t) \/ DeleteRow(t)
                 \/ CheckJoin(t) \/ Join(t) \/ MakeDefault(t) \/ CheckLeave(t) \/ Leave(t)
        <4>1. \/ Finish(t)
              \/ \E s \in {"payload", "undo", "dropqos", "drop", "unrow", "assoc", "default", "disjoin"} :
                     Goto(t, s)
          BY <3>2 DEF WriteRow, SyncReturns, SyncFails, Undo, CheckDelete, DropAccount, DropQos,
                      DeleteFails, DeleteRow, CheckJoin, Join, MakeDefault, CheckLeave, Leave
        <4>2. task'[t].step \in {"idle", "payload", "undo", "dropqos", "drop", "unrow", "assoc",
                                "default", "disjoin"}
          BY <4>1, FinishFlow, GotoFlow
        <4>3. QED
          BY <2>3, <4>2
      <3>3. CASE ReadRows(t) \/ SyncRead(t)
        BY <3>3, SyncReads
      <3>4. CASE \E a \in Accounts : SyncEnsure(t, a) \/ SyncApply(t, a)
        BY <3>4, SyncChanges
      <3>5. QED
        BY <3>1, <3>2, <3>3, <3>4 DEF AccountStep
    <2>4. QED
      BY <2>2, <2>3
  <1>3. QED
    BY <1>1, <1>2

LEMMA SyncCorrect == TenantsSpec => []SyncInv
  <1>1. Init => SyncInv
    BY DEF Init, DeskInit, Idle, SyncInv, Synced
  <1>2. TypeInv /\ SingleInv /\ SyncInv /\ [Next]_deskAll => SyncInv'
    BY SyncStep
  <1>3. QED
    BY <1>1, <1>2, TypesCorrect, SingleCorrect, PTL DEF TenantsSpec

LEMMA DesiredFields ==
    ASSUME NEW a \in Accounts, NEW q, q = Desired(acctRow, a)
    PROVE  /\ q.priority = Priority(acctRow, a)
           /\ q.over = IF acctRow[a] # None /\ acctRow[a].preempt THEN Lower(acctRow, a) ELSE {}
  BY DEF Desired

(* Slurm is as the rows want it when nothing is left to do.                *)
LEMMA SyncAgrees ==
    ASSUME TypeInv, SyncInv, "serial" \in ops, NEW t \in Threads, SyncReturns(t)
    PROVE  Agree'
  <1>1. PICK m \in ChangeLocals : m = task[t] /\ m.step = "apply" /\ m.todo = Nothing
    BY TaskTyped, Kinds DEF SyncReturns, At, ChangeSteps
  <1>2. UNCHANGED accountVars
    BY DEF SyncReturns
  <1>3. Synced(m) /\ \A a \in Accounts : m.todo[a] = None
    BY <1>1 DEF SyncInv, Nothing
  <1>4. /\ \A a \in Accounts : acctRow[a] # None => Ensured(a)
        /\ \A a \in Accounts : qos[a] # None => qos[a] = Desired(acctRow, a)
    BY <1>1, <1>3 DEF Synced
  <1>5. \A a \in Accounts : qos[a] # None => qos[a].priority = Priority(acctRow, a)
    BY <1>4, DesiredFields
  <1>6. \A a \in Accounts : a \in Known(acctRow) <=> qos[a] # None
    BY <1>4 DEF Known, Ensured
  <1>7. \A a \in Accounts : qos[a] # None =>
            Lower(acctRow, a) = {b \in Accounts \ {a} : qos[b] # None /\ qos[b].priority < qos[a].priority}
    BY <1>5, <1>6 DEF Lower, Known
  <1>8. \A a \in Accounts : acctRow[a] # None =>
            /\ qos[a].priority = acctRow[a].priority
            /\ qos[a].over = IF ~acctRow[a].preempt THEN {} ELSE Lower(acctRow, a)
    <2>1. TAKE a \in Accounts
    <2>2. HAVE acctRow[a] # None
    <2>3. qos[a] = Desired(acctRow, a)
      BY <1>4, <2>2 DEF Ensured
    <2>4. Priority(acctRow, a) = acctRow[a].priority
      BY <2>2 DEF Priority
    <2>5. QED
      BY <2>2, <2>3, <2>4, DesiredFields
  <1>9. Agree
    BY <1>4, <1>7, <1>8 DEF Agree, Ensured
  <1>10. QED
    BY <1>2, <1>9 DEF Agree, accountVars

(* A change of an account that is answered with success leaves Slurm and   *)
(* all rows in agreement, whatever has failed half-way before.             *)
THEOREM SyncedOnSuccessCorrect == TenantsSpec => SyncedOnSuccess
  <1> DEFINE Step == ("serial" \in ops /\ \E t \in Threads : SyncReturns(t)) => Agree'
  <1>1. TypeInv /\ SyncInv /\ [Next]_deskAll => [Step]_deskAll
    BY SyncAgrees
  <1>2. TenantsSpec => [][Step]_deskAll
    <2> HIDE DEF Step
    <2>1. QED
      BY <1>1, TypesCorrect, SyncCorrect, PTL DEF TenantsSpec
  <1>3. QED
    BY <1>2 DEF SyncedOnSuccess
=============================================================================
