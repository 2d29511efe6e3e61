------------------------- MODULE OrbitTenantsProofs -------------------------
(***************************************************************************)
(* Proofs about OrbitTenants: in every behaviour, for any number of        *)
(* threads, users, accounts, plans and images.                             *)
(***************************************************************************)
EXTENDS OrbitTenants, TLAPS

Tasks == {Idle} \cup ChangeLocals \cup MemberLocals \cup UserLocals
         \cup ImageLocals \cup PlanLocals \cup BookLocals

(* Until the row is written a creation or a change of the quota knows the  *)
(* size it was asked for.                                                  *)
QuotaSteps == {"provision", "spread", "init", "limit", "insert", "resize", "resized"}
AsksQuota(l) == l.step \in QuotaSteps => l.quota \in Quotas
QuotasGiven == \A t \in Threads : AsksQuota(task[t])

TypeInv == TenantsTypeOK /\ QuotasGiven

-----------------------------------------------------------------------------
(* The step of a task tells which locals it has.                           *)
LEMMA Kinds ==
    ASSUME NEW m \in Tasks
    PROVE  /\ m.step \in ChangeSteps => m \in ChangeLocals
           /\ m.step \in {"join", "assoc", "default", "leave", "disjoin"} => m \in MemberLocals
           /\ m.step \in UserSteps => m \in UserLocals
           /\ m.step \in ImageSteps => m \in ImageLocals
           /\ m.step \in {"flip", "unplan"} => m \in PlanLocals
           /\ m.step \in {"ask", "raw", "charge", "book"} => m \in BookLocals
BY DEF Tasks, Idle, ChangeSteps, ChangeLocals, MemberLocals, UserSteps, UserLocals,
       ImageSteps, ImageLocals, PlanLocals, BookLocals

Puts(t, l) == l \in Tasks /\ AsksQuota(l) /\ Become(t, l) /\ UNCHANGED ops

LEMMA Typed ==
    ASSUME TypeInv, NEW t \in Threads, NEW l, Puts(t, l), begun' \in Nat,
           UsersTypeOK', AccountsTypeOK', ImagesTypeOK', PlansTypeOK'
    PROVE  TypeInv'
<1>1. TenantsTypeOK'
  BY DEF TypeInv, TenantsTypeOK, Puts, Become, Tasks
<1>2. QuotasGiven'
  BY DEF TypeInv, TenantsTypeOK, QuotasGiven, Puts, Become
<1> QED
  BY <1>1, <1>2 DEF TypeInv

LEMMA SameTypes ==
    ASSUME TypeInv
    PROVE  /\ UsersTypeOK /\ AccountsTypeOK /\ ImagesTypeOK /\ PlansTypeOK
           /\ UNCHANGED peopleVars => UsersTypeOK'
           /\ UNCHANGED accountVars => AccountsTypeOK'
           /\ UNCHANGED imageVars => ImagesTypeOK'
           /\ UNCHANGED planVars => PlansTypeOK'
  BY DEF TypeInv, TenantsTypeOK, UsersTypeOK, AccountsTypeOK, ImagesTypeOK, PlansTypeOK,
         peopleVars, accountVars, imageVars, planVars

LEMMA TaskTyped ==
    ASSUME TypeInv, NEW t \in Threads
    PROVE  task[t] \in Tasks /\ ops \in Scenarios /\ begun \in Nat /\ AsksQuota(task[t])
  BY DEF TypeInv, TenantsTypeOK, QuotasGiven, Tasks

(* What a synchronisation sets is a QoS.                                   *)
LEMMA DesiredTyped ==
    ASSUME AccountsTypeOK, NEW sent \in [Accounts -> Settings \cup {None}],
           NEW a \in Known(sent)
    PROVE  Desired(sent, a) \in Qos
  BY DEF AccountsTypeOK, Known, Desired, Priority, Lower, Settings, Qos

LEMMA BeginTyped ==
    ASSUME TypeInv, NEW t \in Threads, NEW op, NEW l \in Tasks, AsksQuota(l), Begin(t, op, l)
    PROVE  (\E k : Puts(t, k)) /\ begun' \in Nat
  BY TaskTyped DEF Begin, Puts

(* Accounts: a request that begins.                                        *)
LEMMA AccountRequestTyped ==
    ASSUME TypeInv, NEW t \in Threads,
           \/ \E a \in Accounts, v \in Settings : BeginAccountAdd(t, a, v)
           \/ \E a \in Accounts, v \in Settings : BeginAccountEdit(t, a, v)
           \/ \E a \in Accounts : BeginAccountDelete(t, a)
           \/ \E a \in Accounts, u \in Names, d \in BOOLEAN : BeginJoin(t, a, u, d)
           \/ \E a \in Accounts, u \in Names : BeginLeave(t, a, u)
    PROVE  TypeInv'
  <1>1. PICK m \in Tasks : m = task[t] /\ AsksQuota(m)
    BY TaskTyped
  <1>2. ASSUME NEW a \in Accounts, NEW v \in Settings, BeginAccountAdd(t, a, v)
        PROVE  TypeInv'
    <2> DEFINE l == Change("update", "account-add", a, v)
    <2>1. l \in Tasks /\ AsksQuota(l)
      BY <1>1, <1>2 DEF BeginAccountAdd, Tasks, AsksQuota, QuotaSteps,
             ChangeLocals, Change, Nothing, Seed, Settings, AccountsTypeOK
    <2>2. Begin(t, "account-add", l)
      BY <1>2 DEF BeginAccountAdd
    <2> HIDE DEF l
    <2>3. (\E k : Puts(t, k)) /\ begun' \in Nat
      BY <2>1, <2>2, BeginTyped
    <2>4. UsersTypeOK' /\ AccountsTypeOK' /\ ImagesTypeOK' /\ PlansTypeOK'
      BY <1>2, SameTypes DEF BeginAccountAdd, peopleVars, accountVars,
             imageVars, planVars
    <2>5. QED
      BY <2>3, <2>4, Typed
  <1>3. ASSUME NEW a \in Accounts, NEW v \in Settings, BeginAccountEdit(t, a, v)
        PROVE  TypeInv'
    <2> DEFINE l == [Change("update", "account-edit", a, v) EXCEPT !.old = acctRow[a]]
    <2>1. l \in Tasks /\ AsksQuota(l)
      BY <1>1, <1>3, SameTypes DEF BeginAccountEdit, Tasks, AsksQuota,
             QuotaSteps, ChangeLocals, Change, Nothing, Seed, Settings,
             AccountsTypeOK
    <2>2. Begin(t, "account-edit", l)
      BY <1>3 DEF BeginAccountEdit
    <2> HIDE DEF l
    <2>3. (\E k : Puts(t, k)) /\ begun' \in Nat
      BY <2>1, <2>2, BeginTyped
    <2>4. UsersTypeOK' /\ AccountsTypeOK' /\ ImagesTypeOK' /\ PlansTypeOK'
      BY <1>3, SameTypes DEF BeginAccountEdit, peopleVars, accountVars,
             imageVars, planVars
    <2>5. QED
      BY <2>3, <2>4, Typed
  <1>4. ASSUME NEW a \in Accounts, BeginAccountDelete(t, a) PROVE TypeInv'
    <2> DEFINE l == Change("check", "account-delete", a, Seed)
    <2>1. l \in Tasks /\ AsksQuota(l)
      BY <1>1, <1>4, AccountsAssumption DEF BeginAccountDelete, Tasks,
             AsksQuota, QuotaSteps, ChangeLocals, Change, Nothing, Seed,
             Settings, AccountsTypeOK
    <2>2. Begin(t, "account-delete", l)
      BY <1>4 DEF BeginAccountDelete
    <2> HIDE DEF l
    <2>3. (\E k : Puts(t, k)) /\ begun' \in Nat
      BY <2>1, <2>2, BeginTyped
    <2>4. UsersTypeOK' /\ AccountsTypeOK' /\ ImagesTypeOK' /\ PlansTypeOK'
      BY <1>4, SameTypes DEF BeginAccountDelete, peopleVars, accountVars,
             imageVars, planVars
    <2>5. QED
      BY <2>3, <2>4, Typed
  <1>5. ASSUME NEW a \in Accounts, NEW u \in Names, NEW d \in BOOLEAN, BeginJoin(t, a, u, d)
        PROVE  TypeInv'
    <2> DEFINE l == MemberChange("join", "member-add", a, u, d)
    <2>1. l \in Tasks /\ AsksQuota(l)
      BY <1>1, <1>5 DEF BeginJoin, Tasks, AsksQuota, QuotaSteps, MemberChange,
             MemberLocals
    <2>2. Begin(t, "member-add", l)
      BY <1>5 DEF BeginJoin
    <2> HIDE DEF l
    <2>3. (\E k : Puts(t, k)) /\ begun' \in Nat
      BY <2>1, <2>2, BeginTyped
    <2>4. UsersTypeOK' /\ AccountsTypeOK' /\ ImagesTypeOK' /\ PlansTypeOK'
      BY <1>5, SameTypes DEF BeginJoin, peopleVars, accountVars, imageVars,
             planVars
    <2>5. QED
      BY <2>3, <2>4, Typed
  <1>6. ASSUME NEW a \in Accounts, NEW u \in Names, BeginLeave(t, a, u)
        PROVE  TypeInv'
    <2> DEFINE l == MemberChange("leave", "member-remove", a, u, FALSE)
    <2>1. l \in Tasks /\ AsksQuota(l)
      BY <1>1, <1>6 DEF BeginLeave, Tasks, AsksQuota, QuotaSteps,
             MemberChange, MemberLocals
    <2>2. Begin(t, "member-remove", l)
      BY <1>6 DEF BeginLeave
    <2> HIDE DEF l
    <2>3. (\E k : Puts(t, k)) /\ begun' \in Nat
      BY <2>1, <2>2, BeginTyped
    <2>4. UsersTypeOK' /\ AccountsTypeOK' /\ ImagesTypeOK' /\ PlansTypeOK'
      BY <1>6, SameTypes DEF BeginLeave, peopleVars, accountVars, imageVars,
             planVars
    <2>5. QED
      BY <2>3, <2>4, Typed
  <1>7. QED
    BY <1>2, <1>3, <1>4, <1>5, <1>6

(* ... a change of the settings, written, sent to Slurm, put back.         *)
LEMMA ChangeTyped ==
    ASSUME TypeInv, NEW t \in Threads,
           \/ WriteRow(t)
           \/ ReadRows(t)
           \/ \E a \in Accounts : SyncEnsure(t, a)
           \/ SyncRead(t)
           \/ \E a \in Accounts : SyncApply(t, a)
           \/ SyncReturns(t)
           \/ SyncFails(t)
           \/ Undo(t)
    PROVE  TypeInv'
  <1>1. PICK m \in Tasks : m = task[t] /\ AsksQuota(m)
    BY TaskTyped
  <1>2. ASSUME WriteRow(t) PROVE TypeInv'
    <2>1. m \in ChangeLocals
      BY <1>1, <1>2, Kinds DEF WriteRow, At, ChangeSteps, UserSteps,
             ImageSteps
    <2>2. (\E k : Puts(t, k)) /\ begun' \in Nat
      BY <1>1, <1>2, <2>1, TaskTyped DEF WriteRow, Puts, Goto, Finish, Tasks,
             ChangeLocals, AsksQuota, QuotaSteps, Idle
    <2>3. AccountsTypeOK'
      BY <1>1, <1>2, <2>1, SameTypes DEF WriteRow, AccountsTypeOK,
             ChangeLocals
    <2>4. UsersTypeOK' /\ ImagesTypeOK' /\ PlansTypeOK'
      BY <1>2, SameTypes DEF WriteRow, peopleVars, imageVars, planVars
    <2>5. QED
      BY <2>2, <2>3, <2>4, Typed
  <1>3. ASSUME ReadRows(t) PROVE TypeInv'
    <2>1. m \in ChangeLocals
      BY <1>1, <1>3, Kinds DEF ReadRows, At, ChangeSteps, UserSteps,
             ImageSteps
    <2>2. (\E k : Puts(t, k)) /\ begun' \in Nat
      BY <1>1, <1>3, <2>1, TaskTyped, SameTypes DEF ReadRows, Puts, Become,
             Tasks, ChangeLocals, AccountsTypeOK, AsksQuota, QuotaSteps, Idle
    <2>3. UsersTypeOK' /\ AccountsTypeOK' /\ ImagesTypeOK' /\ PlansTypeOK'
      BY <1>3, SameTypes DEF ReadRows, peopleVars, accountVars, imageVars,
             planVars
    <2>4. QED
      BY <2>2, <2>3, Typed
  <1>4. ASSUME NEW a \in Accounts, SyncEnsure(t, a) PROVE TypeInv'
    <2>1. m \in ChangeLocals
      BY <1>1, <1>4, Kinds DEF SyncEnsure, At, ChangeSteps, UserSteps,
             ImageSteps
    <2>2. (\E k : Puts(t, k)) /\ begun' \in Nat
      BY <1>1, <1>4, <2>1, TaskTyped DEF SyncEnsure, Puts, Become, Tasks,
             ChangeLocals, AsksQuota, QuotaSteps, Idle
    <2>3. AccountsTypeOK'
      BY <1>1, <1>4, <2>1, SameTypes, AccountsAssumption DEF SyncEnsure,
             AccountsTypeOK, ChangeLocals, EnsureAccount, Fresh, Qos
    <2>4. UsersTypeOK' /\ ImagesTypeOK' /\ PlansTypeOK'
      BY <1>4, SameTypes DEF SyncEnsure, peopleVars, imageVars, planVars
    <2>5. QED
      BY <2>2, <2>3, <2>4, Typed
  <1>5. ASSUME SyncRead(t) PROVE TypeInv'
    <2>1. m \in ChangeLocals
      BY <1>1, <1>5, Kinds DEF SyncRead, At, ChangeSteps, UserSteps,
             ImageSteps
    <2>2. (\E k : Puts(t, k)) /\ begun' \in Nat
      BY <1>1, <1>5, <2>1, TaskTyped, DesiredTyped, SameTypes DEF SyncRead,
             Puts, Become, Tasks, ChangeLocals, AsksQuota, QuotaSteps, Idle
    <2>3. UsersTypeOK' /\ AccountsTypeOK' /\ ImagesTypeOK' /\ PlansTypeOK'
      BY <1>5, SameTypes DEF SyncRead, peopleVars, accountVars, imageVars,
             planVars
    <2>4. QED
      BY <2>2, <2>3, Typed
  <1>6. ASSUME NEW a \in Accounts, SyncApply(t, a) PROVE TypeInv'
    <2>1. m \in ChangeLocals
      BY <1>1, <1>6, Kinds DEF SyncApply, At, ChangeSteps, UserSteps,
             ImageSteps
    <2>2. (\E k : Puts(t, k)) /\ begun' \in Nat
      BY <1>1, <1>6, <2>1, TaskTyped DEF SyncApply, Puts, Goto, Become, Tasks,
             ChangeLocals, AsksQuota, QuotaSteps, Idle
    <2>3. AccountsTypeOK'
      BY <1>1, <1>6, <2>1, SameTypes DEF SyncApply, AccountsTypeOK,
             ChangeLocals
    <2>4. UsersTypeOK' /\ ImagesTypeOK' /\ PlansTypeOK'
      BY <1>6, SameTypes DEF SyncApply, peopleVars, imageVars, planVars
    <2>5. QED
      BY <2>2, <2>3, <2>4, Typed
  <1>7. ASSUME SyncReturns(t) PROVE TypeInv'
    <2>1. m \in ChangeLocals
      BY <1>1, <1>7, Kinds DEF SyncReturns, At, ChangeSteps, UserSteps,
             ImageSteps
    <2>2. (\E k : Puts(t, k)) /\ begun' \in Nat
      BY <1>1, <1>7, <2>1, TaskTyped DEF SyncReturns, Puts, Goto, Finish,
             Tasks, ChangeLocals, AsksQuota, QuotaSteps, Idle
    <2>3. UsersTypeOK' /\ AccountsTypeOK' /\ ImagesTypeOK' /\ PlansTypeOK'
      BY <1>7, SameTypes DEF SyncReturns, peopleVars, accountVars, imageVars,
             planVars
    <2>4. QED
      BY <2>2, <2>3, Typed
  <1>8. ASSUME SyncFails(t) PROVE TypeInv'
    <2>1. m \in ChangeLocals
      BY <1>1, <1>8, Kinds DEF SyncFails, At, ChangeSteps, UserSteps,
             ImageSteps
    <2>2. (\E k : Puts(t, k)) /\ begun' \in Nat
      BY <1>1, <1>8, <2>1, TaskTyped DEF SyncFails, Puts, Goto, Finish, Tasks,
             ChangeLocals, AsksQuota, QuotaSteps, Idle
    <2>3. UsersTypeOK' /\ AccountsTypeOK' /\ ImagesTypeOK' /\ PlansTypeOK'
      BY <1>8, SameTypes DEF SyncFails, peopleVars, accountVars, imageVars,
             planVars
    <2>4. QED
      BY <2>2, <2>3, Typed
  <1>9. ASSUME Undo(t) PROVE TypeInv'
    <2>1. m \in ChangeLocals
      BY <1>1, <1>9, Kinds DEF Undo, At, ChangeSteps, UserSteps, ImageSteps
    <2>2. (\E k : Puts(t, k)) /\ begun' \in Nat
      BY <1>1, <1>9, <2>1, TaskTyped DEF Undo, Puts, Goto, Finish, Tasks,
             ChangeLocals, AsksQuota, QuotaSteps, Idle
    <2>3. AccountsTypeOK'
      BY <1>1, <1>9, <2>1, SameTypes DEF Undo, AccountsTypeOK, ChangeLocals
    <2>4. UsersTypeOK' /\ ImagesTypeOK' /\ PlansTypeOK'
      BY <1>9, SameTypes DEF Undo, peopleVars, imageVars, planVars
    <2>5. QED
      BY <2>2, <2>3, <2>4, Typed
  <1>10. QED
    BY <1>2, <1>3, <1>4, <1>5, <1>6, <1>7, <1>8, <1>9

(* ... a deletion.                                                         *)
LEMMA AccountDeleteTyped ==
    ASSUME TypeInv, NEW t \in Threads,
           \/ CheckDelete(t)
           \/ DropAccount(t)
           \/ DropQos(t)
           \/ DeleteFails(t)
           \/ DeleteRow(t)
    PROVE  TypeInv'
  <1>1. PICK m \in Tasks : m = task[t] /\ AsksQuota(m)
    BY TaskTyped
  <1>2. ASSUME CheckDelete(t) PROVE TypeInv'
    <2>1. m \in ChangeLocals
      BY <1>1, <1>2, Kinds DEF CheckDelete, At, ChangeSteps, UserSteps,
             ImageSteps
    <2>2. (\E k : Puts(t, k)) /\ begun' \in Nat
      BY <1>1, <1>2, <2>1, TaskTyped DEF CheckDelete, Puts, Goto, Finish,
             Tasks, ChangeLocals, AsksQuota, QuotaSteps, Idle
    <2>3. UsersTypeOK' /\ AccountsTypeOK' /\ ImagesTypeOK' /\ PlansTypeOK'
      BY <1>2, SameTypes DEF CheckDelete, peopleVars, accountVars, imageVars,
             planVars
    <2>4. QED
      BY <2>2, <2>3, Typed
  <1>3. ASSUME DropAccount(t) PROVE TypeInv'
    <2>1. m \in ChangeLocals
      BY <1>1, <1>3, Kinds DEF DropAccount, At, ChangeSteps, UserSteps,
             ImageSteps
    <2>2. (\E k : Puts(t, k)) /\ begun' \in Nat
      BY <1>1, <1>3, <2>1, TaskTyped DEF DropAccount, Puts, Goto, Finish,
             Tasks, ChangeLocals, AsksQuota, QuotaSteps, Idle
    <2>3. AccountsTypeOK'
      BY <1>1, <1>3, <2>1, SameTypes DEF DropAccount, AccountsTypeOK,
             ChangeLocals
    <2>4. UsersTypeOK' /\ ImagesTypeOK' /\ PlansTypeOK'
      BY <1>3, SameTypes DEF DropAccount, peopleVars, imageVars, planVars
    <2>5. QED
      BY <2>2, <2>3, <2>4, Typed
  <1>4. ASSUME DropQos(t) PROVE TypeInv'
    <2>1. m \in ChangeLocals
      BY <1>1, <1>4, Kinds DEF DropQos, At, ChangeSteps, UserSteps, ImageSteps
    <2>2. (\E k : Puts(t, k)) /\ begun' \in Nat
      BY <1>1, <1>4, <2>1, TaskTyped DEF DropQos, Puts, Goto, Finish, Tasks,
             ChangeLocals, AsksQuota, QuotaSteps, Idle
    <2>3. AccountsTypeOK'
      BY <1>1, <1>4, <2>1, SameTypes DEF DropQos, AccountsTypeOK, ChangeLocals
    <2>4. UsersTypeOK' /\ ImagesTypeOK' /\ PlansTypeOK'
      BY <1>4, SameTypes DEF DropQos, peopleVars, imageVars, planVars
    <2>5. QED
      BY <2>2, <2>3, <2>4, Typed
  <1>5. ASSUME DeleteFails(t) PROVE TypeInv'
    <2>1. m \in ChangeLocals
      BY <1>1, <1>5, Kinds DEF DeleteFails, At, ChangeSteps, UserSteps,
             ImageSteps
    <2>2. (\E k : Puts(t, k)) /\ begun' \in Nat
      BY <1>1, <1>5, <2>1, TaskTyped DEF DeleteFails, Puts, Goto, Finish,
             Tasks, ChangeLocals, AsksQuota, QuotaSteps, Idle
    <2>3. UsersTypeOK' /\ AccountsTypeOK' /\ ImagesTypeOK' /\ PlansTypeOK'
      BY <1>5, SameTypes DEF DeleteFails, peopleVars, accountVars, imageVars,
             planVars
    <2>4. QED
      BY <2>2, <2>3, Typed
  <1>6. ASSUME DeleteRow(t) PROVE TypeInv'
    <2>1. m \in ChangeLocals
      BY <1>1, <1>6, Kinds DEF DeleteRow, At, ChangeSteps, UserSteps,
             ImageSteps
    <2>2. (\E k : Puts(t, k)) /\ begun' \in Nat
      BY <1>1, <1>6, <2>1, TaskTyped DEF DeleteRow, Puts, Goto, Finish, Tasks,
             ChangeLocals, AsksQuota, QuotaSteps, Idle
    <2>3. AccountsTypeOK'
      BY <1>1, <1>6, <2>1, SameTypes DEF DeleteRow, AccountsTypeOK,
             ChangeLocals
    <2>4. UsersTypeOK' /\ ImagesTypeOK' /\ PlansTypeOK'
      BY <1>6, SameTypes DEF DeleteRow, peopleVars, imageVars, planVars
    <2>5. QED
      BY <2>2, <2>3, <2>4, Typed
  <1>7. QED
    BY <1>2, <1>3, <1>4, <1>5, <1>6

(* ... a membership.                                                       *)
LEMMA MemberTyped ==
    ASSUME TypeInv, NEW t \in Threads,
           \/ CheckJoin(t)
           \/ Join(t)
           \/ MakeDefault(t)
           \/ CheckLeave(t)
           \/ Leave(t)
    PROVE  TypeInv'
  <1>1. PICK m \in Tasks : m = task[t] /\ AsksQuota(m)
    BY TaskTyped
  <1>2. ASSUME CheckJoin(t) PROVE TypeInv'
    <2>1. m \in MemberLocals
      BY <1>1, <1>2, Kinds DEF CheckJoin, At, ChangeSteps, UserSteps,
             ImageSteps
    <2>2. (\E k : Puts(t, k)) /\ begun' \in Nat
      BY <1>1, <1>2, <2>1, TaskTyped DEF CheckJoin, Puts, Goto, Finish, Tasks,
             MemberLocals, AsksQuota, QuotaSteps, Idle
    <2>3. UsersTypeOK' /\ AccountsTypeOK' /\ ImagesTypeOK' /\ PlansTypeOK'
      BY <1>2, SameTypes DEF CheckJoin, peopleVars, accountVars, imageVars,
             planVars
    <2>4. QED
      BY <2>2, <2>3, Typed
  <1>3. ASSUME Join(t) PROVE TypeInv'
    <2>1. m \in MemberLocals
      BY <1>1, <1>3, Kinds DEF Join, At, ChangeSteps, UserSteps, ImageSteps
    <2>2. (\E k : Puts(t, k)) /\ begun' \in Nat
      BY <1>1, <1>3, <2>1, TaskTyped DEF Join, Puts, Goto, Finish, Tasks,
             MemberLocals, AsksQuota, QuotaSteps, Idle
    <2>3. AccountsTypeOK'
      BY <1>1, <1>3, <2>1, SameTypes, AccountsAssumption DEF Join,
             AccountsTypeOK, MemberLocals, EnsureAccount, Fresh, Qos,
             Associate
    <2>4. UsersTypeOK' /\ ImagesTypeOK' /\ PlansTypeOK'
      BY <1>3, SameTypes DEF Join, peopleVars, imageVars, planVars
    <2>5. QED
      BY <2>2, <2>3, <2>4, Typed
  <1>4. ASSUME MakeDefault(t) PROVE TypeInv'
    <2>1. m \in MemberLocals
      BY <1>1, <1>4, Kinds DEF MakeDefault, At, ChangeSteps, UserSteps,
             ImageSteps
    <2>2. (\E k : Puts(t, k)) /\ begun' \in Nat
      BY <1>1, <1>4, <2>1, TaskTyped DEF MakeDefault, Puts, Goto, Finish,
             Tasks, MemberLocals, AsksQuota, QuotaSteps, Idle
    <2>3. AccountsTypeOK'
      BY <1>1, <1>4, <2>1, SameTypes DEF MakeDefault, AccountsTypeOK,
             MemberLocals
    <2>4. UsersTypeOK' /\ ImagesTypeOK' /\ PlansTypeOK'
      BY <1>4, SameTypes DEF MakeDefault, peopleVars, imageVars, planVars
    <2>5. QED
      BY <2>2, <2>3, <2>4, Typed
  <1>5. ASSUME CheckLeave(t) PROVE TypeInv'
    <2>1. m \in MemberLocals
      BY <1>1, <1>5, Kinds DEF CheckLeave, At, ChangeSteps, UserSteps,
             ImageSteps
    <2>2. (\E k : Puts(t, k)) /\ begun' \in Nat
      BY <1>1, <1>5, <2>1, TaskTyped DEF CheckLeave, Puts, Goto, Finish,
             Tasks, MemberLocals, AsksQuota, QuotaSteps, Idle
    <2>3. UsersTypeOK' /\ AccountsTypeOK' /\ ImagesTypeOK' /\ PlansTypeOK'
      BY <1>5, SameTypes DEF CheckLeave, peopleVars, accountVars, imageVars,
             planVars
    <2>4. QED
      BY <2>2, <2>3, Typed
  <1>6. ASSUME Leave(t) PROVE TypeInv'
    <2>1. m \in MemberLocals
      BY <1>1, <1>6, Kinds DEF Leave, At, ChangeSteps, UserSteps, ImageSteps
    <2>2. (\E k : Puts(t, k)) /\ begun' \in Nat
      BY <1>1, <1>6, <2>1, TaskTyped DEF Leave, Puts, Goto, Finish, Tasks,
             MemberLocals, AsksQuota, QuotaSteps, Idle
    <2>3. AccountsTypeOK'
      BY <1>1, <1>6, <2>1, SameTypes DEF Leave, AccountsTypeOK, MemberLocals
    <2>4. UsersTypeOK' /\ ImagesTypeOK' /\ PlansTypeOK'
      BY <1>6, SameTypes DEF Leave, peopleVars, imageVars, planVars
    <2>5. QED
      BY <2>2, <2>3, <2>4, Typed
  <1>7. QED
    BY <1>2, <1>3, <1>4, <1>5, <1>6

(* Users: a request that begins.                                           *)
LEMMA UserRequestTyped ==
    ASSUME TypeInv, NEW t \in Threads,
           \/ \E n \in Names, m \in {"provision", "existing"}, q \in Quotas : BeginCreate(t, n, m, q)
           \/ \E n \in Names : BeginUserDelete(t, n)
           \/ \E n \in Names, q \in Quotas : BeginQuota(t, n, q)
           \/ \E n \in Names : BeginView(t, n)
           \/ \E n \in Names, k \in Keys : BeginKeyAdd(t, n, k)
           \/ \E n \in Names, k \in Keys : BeginKeyDelete(t, n, k)
    PROVE  TypeInv'
  <1>1. PICK m \in Tasks : m = task[t] /\ AsksQuota(m)
    BY TaskTyped
  <1>2. ASSUME NEW n \in Names, NEW o \in {"provision", "existing"}, NEW q \in Quotas, BeginCreate(t, n, o, q)
        PROVE  TypeInv'
    <2> DEFINE l == [Work(IF o = "provision" THEN "provision" ELSE "init", n) EXCEPT
                      !.mode = o, !.quota = q]
    <2>1. l \in Tasks /\ AsksQuota(l)
      BY <1>1, <1>2, SameTypes DEF BeginCreate, Tasks, AsksQuota, QuotaSteps,
             Work, UserLocals, UserSteps, UserRow, UsersTypeOK
    <2>2. Begin(t, "user-create", l)
      BY <1>2 DEF BeginCreate
    <2> HIDE DEF l
    <2>3. (\E k : Puts(t, k)) /\ begun' \in Nat
      BY <2>1, <2>2, BeginTyped
    <2>4. UsersTypeOK' /\ AccountsTypeOK' /\ ImagesTypeOK' /\ PlansTypeOK'
      BY <1>2, SameTypes DEF BeginCreate, RowsUnchanged, MachinesUnchanged,
             peopleVars, accountVars, imageVars, planVars
    <2>5. QED
      BY <2>3, <2>4, Typed
  <1>3. ASSUME NEW n \in Names, BeginUserDelete(t, n) PROVE TypeInv'
    <2> DEFINE l == Work(IF user[n].mode = "provision" THEN "empty" ELSE "delete", n)
    <2>1. l \in Tasks /\ AsksQuota(l)
      BY <1>1, <1>3, SameTypes DEF BeginUserDelete, Tasks, AsksQuota,
             QuotaSteps, Work, UserLocals, UserSteps, UserRow, UsersTypeOK
    <2>2. Begin(t, "user-delete", l)
      BY <1>3 DEF BeginUserDelete
    <2> HIDE DEF l
    <2>3. (\E k : Puts(t, k)) /\ begun' \in Nat
      BY <2>1, <2>2, BeginTyped
    <2>4. UsersTypeOK' /\ AccountsTypeOK' /\ ImagesTypeOK' /\ PlansTypeOK'
      BY <1>3, SameTypes DEF BeginUserDelete, RowsUnchanged,
             MachinesUnchanged, peopleVars, accountVars, imageVars, planVars
    <2>5. QED
      BY <2>3, <2>4, Typed
  <1>4. ASSUME NEW n \in Names, NEW q \in Quotas, BeginQuota(t, n, q)
        PROVE  TypeInv'
    <2> DEFINE l == [Work("resize", n) EXCEPT !.quota = q]
    <2>1. l \in Tasks /\ AsksQuota(l)
      BY <1>1, <1>4, SameTypes DEF BeginQuota, Tasks, AsksQuota, QuotaSteps,
             Work, UserLocals, UserSteps, UserRow, UsersTypeOK
    <2>2. Begin(t, "quota", l)
      BY <1>4 DEF BeginQuota
    <2> HIDE DEF l
    <2>3. (\E k : Puts(t, k)) /\ begun' \in Nat
      BY <2>1, <2>2, BeginTyped
    <2>4. UsersTypeOK' /\ AccountsTypeOK' /\ ImagesTypeOK' /\ PlansTypeOK'
      BY <1>4, SameTypes DEF BeginQuota, RowsUnchanged, MachinesUnchanged,
             peopleVars, accountVars, imageVars, planVars
    <2>5. QED
      BY <2>3, <2>4, Typed
  <1>5. ASSUME NEW n \in Names, BeginView(t, n) PROVE TypeInv'
    <2> DEFINE l == Work("look", n)
    <2>1. l \in Tasks /\ AsksQuota(l)
      BY <1>1, <1>5, SameTypes DEF BeginView, Tasks, AsksQuota, QuotaSteps,
             Work, UserLocals, UserSteps, UserRow, UsersTypeOK
    <2>2. Begin(t, "view", l)
      BY <1>5 DEF BeginView
    <2> HIDE DEF l
    <2>3. (\E k : Puts(t, k)) /\ begun' \in Nat
      BY <2>1, <2>2, BeginTyped
    <2>4. UsersTypeOK' /\ AccountsTypeOK' /\ ImagesTypeOK' /\ PlansTypeOK'
      BY <1>5, SameTypes DEF BeginView, RowsUnchanged, MachinesUnchanged,
             peopleVars, accountVars, imageVars, planVars
    <2>5. QED
      BY <2>3, <2>4, Typed
  <1>6. ASSUME NEW n \in Names, NEW k \in Keys, BeginKeyAdd(t, n, k)
        PROVE  TypeInv'
    <2> DEFINE l == [Work("gather", n) EXCEPT !.key = {k}]
    <2>1. l \in Tasks /\ AsksQuota(l)
      BY <1>1, <1>6, SameTypes DEF BeginKeyAdd, Tasks, AsksQuota, QuotaSteps,
             Work, UserLocals, UserSteps, UserRow, UsersTypeOK
    <2>2. Begin(t, "key-add", l)
      BY <1>6 DEF BeginKeyAdd
    <2> HIDE DEF l
    <2>3. (\E w : Puts(t, w)) /\ begun' \in Nat
      BY <2>1, <2>2, BeginTyped
    <2>4. UsersTypeOK' /\ AccountsTypeOK' /\ ImagesTypeOK' /\ PlansTypeOK'
      BY <1>6, SameTypes DEF BeginKeyAdd, RowsUnchanged, MachinesUnchanged,
             peopleVars, accountVars, imageVars, planVars
    <2>5. QED
      BY <2>3, <2>4, Typed
  <1>7. ASSUME NEW n \in Names, NEW k \in Keys, BeginKeyDelete(t, n, k)
        PROVE  TypeInv'
    <2> DEFINE l == [Work("reset", n) EXCEPT !.key = {k}, !.keys = keyRow[n] \ {k}]
    <2>1. l \in Tasks /\ AsksQuota(l)
      BY <1>1, <1>7, SameTypes DEF BeginKeyDelete, Tasks, AsksQuota,
             QuotaSteps, Work, UserLocals, UserSteps, UserRow, UsersTypeOK
    <2>2. Begin(t, "key-delete", l)
      BY <1>7 DEF BeginKeyDelete
    <2> HIDE DEF l
    <2>3. (\E w : Puts(t, w)) /\ begun' \in Nat
      BY <2>1, <2>2, BeginTyped
    <2>4. UsersTypeOK' /\ AccountsTypeOK' /\ ImagesTypeOK' /\ PlansTypeOK'
      BY <1>7, SameTypes DEF BeginKeyDelete, RowsUnchanged, MachinesUnchanged,
             peopleVars, accountVars, imageVars, planVars
    <2>5. QED
      BY <2>3, <2>4, Typed
  <1>8. QED
    BY <1>2, <1>3, <1>4, <1>5, <1>6, <1>7

(* What a handler does with its task.                                      *)
LEMMA FinishPuts ==
    ASSUME NEW t \in Threads, Finish(t), UNCHANGED ops PROVE \E k : Puts(t, k)
  BY DEF Finish, Puts, Tasks, AsksQuota, QuotaSteps, Idle

LEMMA UserPuts ==
    ASSUME NEW t \in Threads, NEW l \in UserLocals, AsksQuota(l), Become(t, l), UNCHANGED ops
    PROVE  \E k : Puts(t, k)
  BY DEF Puts, Tasks

LEMMA UserEdited ==
    ASSUME NEW m \in UserLocals, NEW s \in UserSteps, s \in QuotaSteps => m.quota \in Quotas,
           NEW i \in Nat, NEW ks \in SUBSET Keys
    PROVE  /\ [m EXCEPT !.step = s, !.id = i] \in UserLocals
           /\ [m EXCEPT !.step = s, !.keys = ks] \in UserLocals
           /\ [m EXCEPT !.step = s, !.failed = TRUE] \in UserLocals
           /\ AsksQuota([m EXCEPT !.step = s, !.id = i])
           /\ AsksQuota([m EXCEPT !.step = s, !.keys = ks])
           /\ AsksQuota([m EXCEPT !.step = s, !.failed = TRUE])
  BY DEF UserLocals, AsksQuota

LEMMA UserGoto ==
    ASSUME TypeInv, NEW t \in Threads, task[t] \in UserLocals, NEW s \in UserSteps,
           s \in QuotaSteps => task[t].step \in QuotaSteps, Goto(t, s), UNCHANGED ops
    PROVE  \E k : Puts(t, k)
  <1>1. PICK m \in UserLocals : m = task[t] /\ AsksQuota(m)
    BY TaskTyped
  <1>2. [m EXCEPT !.step = s] \in UserLocals /\ AsksQuota([m EXCEPT !.step = s])
    BY <1>1 DEF UserLocals, AsksQuota
  <1>3. QED
    BY <1>1, <1>2, UserPuts DEF Goto

(* ... an account that is created or taken over.                           *)
LEMMA CreateTyped ==
    ASSUME TypeInv, NEW t \in Threads,
           \/ HelperFails(t)
           \/ ReplyLost(t)
           \/ Provision(t)
           \/ Spread(t)
           \/ InitLogin(t)
           \/ Limit(t)
           \/ InsertUser(t)
    PROVE  TypeInv'
  <1>1. PICK m \in Tasks : m = task[t] /\ AsksQuota(m)
    BY TaskTyped
  <1>2. ASSUME HelperFails(t) PROVE TypeInv'
    <2>1. (\E k : Puts(t, k)) /\ begun' \in Nat
      BY <1>1, <1>2, TaskTyped, FinishPuts, UserGoto DEF HelperFails, At,
             UserSteps, QuotaSteps
    <2>2. UsersTypeOK' /\ AccountsTypeOK' /\ ImagesTypeOK' /\ PlansTypeOK'
      BY <1>2, SameTypes DEF HelperFails, RowsUnchanged, MachinesUnchanged,
             peopleVars, accountVars, imageVars, planVars
    <2>3. QED
      BY <2>1, <2>2, Typed
  <1>3. ASSUME ReplyLost(t) PROVE TypeInv'
    <2>1. (\E k : Puts(t, k)) /\ begun' \in Nat
      BY <1>1, <1>3, TaskTyped, FinishPuts, UserGoto DEF ReplyLost, At,
             UserSteps, QuotaSteps
    <2>2. UsersTypeOK' /\ AccountsTypeOK' /\ ImagesTypeOK' /\ PlansTypeOK'
      BY <1>3, SameTypes DEF ReplyLost, RowsUnchanged, MachinesUnchanged,
             peopleVars, accountVars, imageVars, planVars
    <2>3. QED
      BY <2>1, <2>2, Typed
  <1>4. ASSUME Provision(t) PROVE TypeInv'
    <2>1. m \in UserLocals
      BY <1>1, <1>4, Kinds DEF Provision, At, ChangeSteps, UserSteps,
             ImageSteps
    <2>2. (\E k : Puts(t, k)) /\ begun' \in Nat
      BY <1>1, <1>4, <2>1, TaskTyped, FinishPuts, UserGoto DEF Provision, At,
             UserSteps, QuotaSteps
    <2>3. UsersTypeOK'
      <3>1. PICK q \in {m.quota} \cup (IF "set-quota" \in ops THEN {NoLimit} ELSE {}) :
               \/ os' = [os EXCEPT ![Name(t)] = [keys |-> {}, quota |-> q]]
               \/ UNCHANGED os
        BY <1>1, <1>4 DEF Provision, MachinesUnchanged
      <3>2. q \in Quotas \cup {NoLimit}
        BY <1>1, <1>4, <3>1 DEF Provision, At, AsksQuota, QuotaSteps
      <3>3. [keys |-> {}, quota |-> q] \in Login
        BY <3>2 DEF Login
      <3>4. UNCHANGED <<user, nodes, keyRow, lastId>>
        BY <1>4 DEF Provision, RowsUnchanged, MachinesUnchanged
      <3>5. QED
        BY <3>1, <3>3, <3>4, SameTypes DEF UsersTypeOK
    <2>4. AccountsTypeOK'
      BY <1>1, <1>4, <2>1, SameTypes, AccountsAssumption DEF Provision,
             AccountsTypeOK, UserLocals, Name, Login, Enrol, EnsureAccount,
             Fresh, Qos, RowsUnchanged, MachinesUnchanged, UserRow, UserSteps,
             Mine, AsksQuota, QuotaSteps, At
    <2>5. ImagesTypeOK' /\ PlansTypeOK'
      BY <1>4, SameTypes DEF Provision, RowsUnchanged, MachinesUnchanged,
             imageVars, planVars
    <2>6. QED
      BY <2>2, <2>3, <2>4, <2>5, Typed
  <1>5. ASSUME Spread(t) PROVE TypeInv'
    <2>1. m \in UserLocals
      BY <1>1, <1>5, Kinds DEF Spread, At, ChangeSteps, UserSteps, ImageSteps
    <2>2. (\E k : Puts(t, k)) /\ begun' \in Nat
      BY <1>1, <1>5, <2>1, TaskTyped, FinishPuts, UserGoto DEF Spread, At,
             UserSteps, QuotaSteps
    <2>3. UsersTypeOK'
      BY <1>1, <1>5, <2>1, SameTypes DEF Spread, UsersTypeOK, UserLocals,
             Name, Login, Enrol, EnsureAccount, Fresh, Qos, RowsUnchanged,
             MachinesUnchanged, UserRow, UserSteps, Mine, AsksQuota,
             QuotaSteps, At
    <2>4. AccountsTypeOK' /\ ImagesTypeOK' /\ PlansTypeOK'
      BY <1>5, SameTypes DEF Spread, RowsUnchanged, MachinesUnchanged,
             accountVars, imageVars, planVars
    <2>5. QED
      BY <2>2, <2>3, <2>4, Typed
  <1>6. ASSUME InitLogin(t) PROVE TypeInv'
    <2>1. m \in UserLocals
      BY <1>1, <1>6, Kinds DEF InitLogin, At, ChangeSteps, UserSteps,
             ImageSteps
    <2>2. (\E k : Puts(t, k)) /\ begun' \in Nat
      BY <1>1, <1>6, <2>1, TaskTyped, FinishPuts, UserGoto DEF InitLogin, At,
             UserSteps, QuotaSteps
    <2>3. AccountsTypeOK'
      BY <1>1, <1>6, <2>1, SameTypes, AccountsAssumption DEF InitLogin,
             AccountsTypeOK, UserLocals, Name, Login, Enrol, EnsureAccount,
             Fresh, Qos, RowsUnchanged, MachinesUnchanged, UserRow, UserSteps,
             Mine, AsksQuota, QuotaSteps, At
    <2>4. UsersTypeOK' /\ ImagesTypeOK' /\ PlansTypeOK'
      BY <1>6, SameTypes DEF InitLogin, RowsUnchanged, MachinesUnchanged,
             peopleVars, imageVars, planVars
    <2>5. QED
      BY <2>2, <2>3, <2>4, Typed
  <1>7. ASSUME Limit(t) PROVE TypeInv'
    <2>1. m \in UserLocals
      BY <1>1, <1>7, Kinds DEF Limit, At, ChangeSteps, UserSteps, ImageSteps,
             SetQuota
    <2>2. (\E k : Puts(t, k)) /\ begun' \in Nat
      BY <1>1, <1>7, <2>1, TaskTyped, FinishPuts, UserGoto DEF Limit, At,
             UserSteps, QuotaSteps, SetQuota
    <2>3. UsersTypeOK'
      BY <1>1, <1>7, <2>1, SameTypes DEF Limit, UsersTypeOK, UserLocals, Name,
             Login, Enrol, EnsureAccount, Fresh, Qos, RowsUnchanged,
             MachinesUnchanged, SetQuota
    <2>4. AccountsTypeOK' /\ ImagesTypeOK' /\ PlansTypeOK'
      BY <1>7, SameTypes DEF Limit, RowsUnchanged, MachinesUnchanged,
             SetQuota, accountVars, imageVars, planVars
    <2>5. QED
      BY <2>2, <2>3, <2>4, Typed
  <1>8. ASSUME InsertUser(t) PROVE TypeInv'
    <2>1. m \in UserLocals
      BY <1>1, <1>8, Kinds DEF InsertUser, At, ChangeSteps, UserSteps,
             ImageSteps
    <2>2. (\E k : Puts(t, k)) /\ begun' \in Nat
      <3>1. UNCHANGED <<ops, begun>> /\ begun \in Nat
        BY <1>8, TaskTyped DEF InsertUser
      <3>2. CASE Finish(t)
        BY <3>1, <3>2, FinishPuts
      <3>3. CASE ~Finish(t)
        <4>1. PICK l : l = [m EXCEPT !.step = "look", !.id = lastId + 1] /\ Become(t, l)
          BY <1>1, <1>8, <3>3 DEF InsertUser
        <4>2. l \in UserLocals /\ AsksQuota(l)
          <5>1. PICK i \in Nat : i = lastId + 1
            BY SameTypes DEF UsersTypeOK
          <5>2. l = [m EXCEPT !.step = "look", !.id = i]
            BY <4>1, <5>1
          <5>3. QED
            BY <2>1, <5>2 DEF UserSteps, QuotaSteps, UserLocals, AsksQuota
        <4>3. QED
          BY <3>1, <4>1, <4>2, UserPuts
      <3>4. QED
        BY <3>2, <3>3
    <2>3. UsersTypeOK'
      BY <1>1, <1>8, <2>1, SameTypes DEF InsertUser, UsersTypeOK, UserLocals,
             Name, Login, Enrol, EnsureAccount, Fresh, Qos, RowsUnchanged,
             MachinesUnchanged, UserRow, UserSteps, Mine, AsksQuota,
             QuotaSteps, At
    <2>4. AccountsTypeOK' /\ ImagesTypeOK' /\ PlansTypeOK'
      BY <1>8, SameTypes DEF InsertUser, RowsUnchanged, MachinesUnchanged,
             accountVars, imageVars, planVars
    <2>5. QED
      BY <2>2, <2>3, <2>4, Typed
  <1>9. QED
    BY <1>2, <1>3, <1>4, <1>5, <1>6, <1>7, <1>8

(* ... an account that is deleted or gets another quota.                   *)
LEMMA UserChangeTyped ==
    ASSUME TypeInv, NEW t \in Threads,
           \/ EmptyNodes(t)
           \/ RemoveLogin(t)
           \/ DeleteUserRow(t)
           \/ Resize(t)
           \/ RecordQuota(t)
    PROVE  TypeInv'
  <1>1. PICK m \in Tasks : m = task[t] /\ AsksQuota(m)
    BY TaskTyped
  <1>2. ASSUME EmptyNodes(t) PROVE TypeInv'
    <2>1. m \in UserLocals
      BY <1>1, <1>2, Kinds DEF EmptyNodes, At, ChangeSteps, UserSteps,
             ImageSteps
    <2>2. (\E k : Puts(t, k)) /\ begun' \in Nat
      <3>1. UNCHANGED <<ops, begun>> /\ begun \in Nat /\ m.step = "empty"
        BY <1>1, <1>2, TaskTyped DEF EmptyNodes, At
      <3>2. CASE Goto(t, "delete") \/ Goto(t, "remove")
        BY <1>1, <2>1, <3>1, <3>2, UserGoto DEF UserSteps, QuotaSteps
      <3>3. CASE Become(t, [m EXCEPT !.step = "remove", !.failed = TRUE])
        <4>1. PICK l : l = [m EXCEPT !.step = "remove", !.failed = TRUE]
          OBVIOUS
        <4>2. l \in UserLocals /\ AsksQuota(l)
          BY <2>1, <4>1 DEF UserSteps, QuotaSteps, UserLocals, AsksQuota
        <4>3. QED
          BY <3>1, <3>3, <4>1, <4>2, UserPuts
      <3>4. QED
        BY <1>1, <1>2, <3>2, <3>3 DEF EmptyNodes
    <2>3. UsersTypeOK'
      BY <1>1, <1>2, <2>1, SameTypes DEF EmptyNodes, UsersTypeOK, UserLocals,
             Name, Login, Enrol, EnsureAccount, Fresh, Qos, RowsUnchanged,
             MachinesUnchanged, UserRow, UserSteps, Mine, AsksQuota,
             QuotaSteps, At
    <2>4. AccountsTypeOK' /\ ImagesTypeOK' /\ PlansTypeOK'
      BY <1>2, SameTypes DEF EmptyNodes, RowsUnchanged, MachinesUnchanged,
             accountVars, imageVars, planVars
    <2>5. QED
      BY <2>2, <2>3, <2>4, Typed
  <1>3. ASSUME RemoveLogin(t) PROVE TypeInv'
    <2>1. m \in UserLocals
      BY <1>1, <1>3, Kinds DEF RemoveLogin, At, ChangeSteps, UserSteps,
             ImageSteps
    <2>2. (\E k : Puts(t, k)) /\ begun' \in Nat
      BY <1>1, <1>3, <2>1, TaskTyped, FinishPuts, UserGoto DEF RemoveLogin,
             At, UserSteps, QuotaSteps
    <2>3. UsersTypeOK'
      BY <1>1, <1>3, <2>1, SameTypes DEF RemoveLogin, UsersTypeOK, UserLocals,
             Name, Login, Enrol, EnsureAccount, Fresh, Qos, RowsUnchanged,
             MachinesUnchanged, UserRow, UserSteps, Mine, AsksQuota,
             QuotaSteps, At
    <2>4. AccountsTypeOK'
      BY <1>1, <1>3, <2>1, SameTypes DEF RemoveLogin, AccountsTypeOK,
             UserLocals, Name, Login, Enrol, EnsureAccount, Fresh, Qos,
             RowsUnchanged, MachinesUnchanged, UserRow, UserSteps, Mine,
             AsksQuota, QuotaSteps, At
    <2>5. ImagesTypeOK' /\ PlansTypeOK'
      BY <1>3, SameTypes DEF RemoveLogin, RowsUnchanged, MachinesUnchanged,
             imageVars, planVars
    <2>6. QED
      BY <2>2, <2>3, <2>4, <2>5, Typed
  <1>4. ASSUME DeleteUserRow(t) PROVE TypeInv'
    <2>1. m \in UserLocals
      BY <1>1, <1>4, Kinds DEF DeleteUserRow, At, ChangeSteps, UserSteps,
             ImageSteps
    <2>2. (\E k : Puts(t, k)) /\ begun' \in Nat
      BY <1>1, <1>4, <2>1, TaskTyped, FinishPuts, UserGoto DEF DeleteUserRow,
             At, UserSteps, QuotaSteps
    <2>3. UsersTypeOK'
      BY <1>1, <1>4, <2>1, SameTypes DEF DeleteUserRow, UsersTypeOK,
             UserLocals, Orphaned, Name, PlansTypeOK, Booking,
             MachinesUnchanged
    <2>4. PlansTypeOK'
      BY <1>1, <1>4, <2>1, SameTypes DEF DeleteUserRow, PlansTypeOK,
             UserLocals, Orphaned, Name, PlansTypeOK, Booking,
             MachinesUnchanged
    <2>5. AccountsTypeOK' /\ ImagesTypeOK'
      BY <1>4, SameTypes DEF DeleteUserRow, RowsUnchanged, MachinesUnchanged,
             accountVars, imageVars
    <2>6. QED
      BY <2>2, <2>3, <2>4, <2>5, Typed
  <1>5. ASSUME Resize(t) PROVE TypeInv'
    <2>1. m \in UserLocals
      BY <1>1, <1>5, Kinds DEF Resize, At, ChangeSteps, UserSteps, ImageSteps,
             SetQuota
    <2>2. (\E k : Puts(t, k)) /\ begun' \in Nat
      BY <1>1, <1>5, <2>1, TaskTyped, FinishPuts, UserGoto DEF Resize, At,
             UserSteps, QuotaSteps, SetQuota
    <2>3. UsersTypeOK'
      BY <1>1, <1>5, <2>1, SameTypes DEF Resize, UsersTypeOK, UserLocals,
             Name, Login, Enrol, EnsureAccount, Fresh, Qos, RowsUnchanged,
             MachinesUnchanged, SetQuota
    <2>4. AccountsTypeOK' /\ ImagesTypeOK' /\ PlansTypeOK'
      BY <1>5, SameTypes DEF Resize, RowsUnchanged, MachinesUnchanged,
             SetQuota, accountVars, imageVars, planVars
    <2>5. QED
      BY <2>2, <2>3, <2>4, Typed
  <1>6. ASSUME RecordQuota(t) PROVE TypeInv'
    <2>1. m \in UserLocals
      BY <1>1, <1>6, Kinds DEF RecordQuota, At, ChangeSteps, UserSteps,
             ImageSteps
    <2>2. (\E k : Puts(t, k)) /\ begun' \in Nat
      BY <1>1, <1>6, <2>1, TaskTyped, FinishPuts, UserGoto DEF RecordQuota,
             At, UserSteps, QuotaSteps
    <2>3. UsersTypeOK'
      BY <1>1, <1>6, <2>1, SameTypes DEF RecordQuota, UsersTypeOK, UserLocals,
             Mine, Name, UserRow, AsksQuota, QuotaSteps, MachinesUnchanged, At
    <2>4. AccountsTypeOK' /\ ImagesTypeOK' /\ PlansTypeOK'
      BY <1>6, SameTypes DEF RecordQuota, RowsUnchanged, MachinesUnchanged,
             accountVars, imageVars, planVars
    <2>5. QED
      BY <2>2, <2>3, <2>4, Typed
  <1>7. QED
    BY <1>2, <1>3, <1>4, <1>5, <1>6

(* ... keys that are looked up, imported, added and deleted.               *)
LEMMA KeysTyped ==
    ASSUME TypeInv, NEW t \in Threads,
           \/ Look(t)
           \/ Note(t)
           \/ Gather(t)
           \/ Merge(t)
           \/ WriteKeys(t)
           \/ KeepKey(t)
           \/ RewriteKeys(t)
           \/ StrikeKey(t)
    PROVE  TypeInv'
  <1>1. PICK m \in Tasks : m = task[t] /\ AsksQuota(m)
    BY TaskTyped
  <1>2. ASSUME Look(t) PROVE TypeInv'
    <2>1. m \in UserLocals
      BY <1>1, <1>2, Kinds DEF Look, At, ChangeSteps, UserSteps, ImageSteps,
             GetKeys
    <2>2. (\E k : Puts(t, k)) /\ begun' \in Nat
      <3>1. UNCHANGED <<ops, begun>> /\ begun \in Nat
        BY <1>2, TaskTyped DEF Look, GetKeys
      <3>2. CASE Finish(t)
        BY <3>1, <3>2, FinishPuts
      <3>3. CASE ~Finish(t)
        <4>1. PICK ks : ks = os[Name(t)].keys /\ os[Name(t)] # None /\ Name(t) \in Names
          BY <1>1, <2>1, <1>2, <3>3 DEF Look, GetKeys, Name, UserLocals
        <4>2. ks \in SUBSET Keys
          BY <4>1, SameTypes DEF UsersTypeOK, Login
        <4>3. PICK l : l = [m EXCEPT !.step = "note", !.keys = ks] /\ Become(t, l)
          BY <1>1, <1>2, <3>3, <4>1 DEF Look, GetKeys
        <4>4. l \in UserLocals /\ AsksQuota(l)
          BY <2>1, <4>2, <4>3 DEF UserSteps, QuotaSteps, UserLocals, AsksQuota
        <4>5. QED
          BY <3>1, <4>3, <4>4, UserPuts
      <3>4. QED
        BY <3>2, <3>3
    <2>3. UsersTypeOK' /\ AccountsTypeOK' /\ ImagesTypeOK' /\ PlansTypeOK'
      BY <1>2, SameTypes DEF Look, RowsUnchanged, MachinesUnchanged, GetKeys,
             peopleVars, accountVars, imageVars, planVars
    <2>4. QED
      BY <2>2, <2>3, Typed
  <1>3. ASSUME Note(t) PROVE TypeInv'
    <2>1. m \in UserLocals
      BY <1>1, <1>3, Kinds DEF Note, At, ChangeSteps, UserSteps, ImageSteps
    <2>2. (\E k : Puts(t, k)) /\ begun' \in Nat
      BY <1>1, <1>3, <2>1, TaskTyped, FinishPuts, UserGoto DEF Note, At,
             UserSteps, QuotaSteps
    <2>3. UsersTypeOK'
      BY <1>1, <1>3, <2>1, SameTypes DEF Note, UsersTypeOK, UserLocals,
             ImportKeys, Mine, Name, MachinesUnchanged
    <2>4. AccountsTypeOK' /\ ImagesTypeOK' /\ PlansTypeOK'
      BY <1>3, SameTypes DEF Note, RowsUnchanged, MachinesUnchanged,
             accountVars, imageVars, planVars
    <2>5. QED
      BY <2>2, <2>3, <2>4, Typed
  <1>4. ASSUME Gather(t) PROVE TypeInv'
    <2>1. m \in UserLocals
      BY <1>1, <1>4, Kinds DEF Gather, At, ChangeSteps, UserSteps, ImageSteps,
             GetKeys
    <2>2. (\E k : Puts(t, k)) /\ begun' \in Nat
      <3>1. UNCHANGED <<ops, begun>> /\ begun \in Nat
        BY <1>4, TaskTyped DEF Gather, GetKeys
      <3>2. CASE Finish(t)
        BY <3>1, <3>2, FinishPuts
      <3>3. CASE ~Finish(t)
        <4>1. PICK ks : ks = os[Name(t)].keys /\ os[Name(t)] # None /\ Name(t) \in Names
          BY <1>1, <2>1, <1>4, <3>3 DEF Gather, GetKeys, Name, UserLocals
        <4>2. ks \in SUBSET Keys
          BY <4>1, SameTypes DEF UsersTypeOK, Login
        <4>3. PICK l : l = [m EXCEPT !.step = "merge", !.keys = ks] /\ Become(t, l)
          BY <1>1, <1>4, <3>3, <4>1 DEF Gather, GetKeys
        <4>4. l \in UserLocals /\ AsksQuota(l)
          BY <2>1, <4>2, <4>3 DEF UserSteps, QuotaSteps, UserLocals, AsksQuota
        <4>5. QED
          BY <3>1, <4>3, <4>4, UserPuts
      <3>4. QED
        BY <3>2, <3>3
    <2>3. UsersTypeOK' /\ AccountsTypeOK' /\ ImagesTypeOK' /\ PlansTypeOK'
      BY <1>4, SameTypes DEF Gather, RowsUnchanged, MachinesUnchanged,
             GetKeys, peopleVars, accountVars, imageVars, planVars
    <2>4. QED
      BY <2>2, <2>3, Typed
  <1>5. ASSUME Merge(t) PROVE TypeInv'
    <2>1. m \in UserLocals
      BY <1>1, <1>5, Kinds DEF Merge, At, ChangeSteps, UserSteps, ImageSteps
    <2>2. (\E k : Puts(t, k)) /\ begun' \in Nat
      <3>1. UNCHANGED <<ops, begun>> /\ begun \in Nat
        BY <1>5, TaskTyped DEF Merge
      <3>2. CASE Finish(t)
        BY <3>1, <3>2, FinishPuts
      <3>3. CASE ~Finish(t)
        <4>1. PICK ks : ks = keyRow'[Name(t)] \cup m.key
          OBVIOUS
        <4>2. ks \in SUBSET Keys
          BY <1>1, <2>1, <4>1, <1>5, SameTypes DEF UsersTypeOK, Merge, ImportKeys, Name, UserLocals
        <4>3. PICK l : l = [m EXCEPT !.step = "set", !.keys = ks] /\ Become(t, l)
          BY <1>1, <1>5, <3>3, <4>1 DEF Merge
        <4>4. l \in UserLocals /\ AsksQuota(l)
          BY <2>1, <4>2, <4>3 DEF UserSteps, QuotaSteps, UserLocals, AsksQuota
        <4>5. QED
          BY <3>1, <4>3, <4>4, UserPuts
      <3>4. QED
        BY <3>2, <3>3
    <2>3. UsersTypeOK'
      BY <1>1, <1>5, <2>1, SameTypes DEF Merge, UsersTypeOK, UserLocals,
             ImportKeys, Mine, Name, MachinesUnchanged
    <2>4. AccountsTypeOK' /\ ImagesTypeOK' /\ PlansTypeOK'
      BY <1>5, SameTypes DEF Merge, RowsUnchanged, MachinesUnchanged,
             accountVars, imageVars, planVars
    <2>5. QED
      BY <2>2, <2>3, <2>4, Typed
  <1>6. ASSUME WriteKeys(t) PROVE TypeInv'
    <2>1. m \in UserLocals
      BY <1>1, <1>6, Kinds DEF WriteKeys, At, ChangeSteps, UserSteps,
             ImageSteps, SetKeys
    <2>2. (\E k : Puts(t, k)) /\ begun' \in Nat
      BY <1>1, <1>6, <2>1, TaskTyped, FinishPuts, UserGoto DEF WriteKeys, At,
             UserSteps, QuotaSteps, SetKeys
    <2>3. UsersTypeOK'
      BY <1>1, <1>6, <2>1, SameTypes DEF WriteKeys, UsersTypeOK, UserLocals,
             SetKeys, Name, Login, RowsUnchanged, Goto, Finish
    <2>4. AccountsTypeOK' /\ ImagesTypeOK' /\ PlansTypeOK'
      BY <1>6, SameTypes DEF WriteKeys, RowsUnchanged, MachinesUnchanged,
             SetKeys, accountVars, imageVars, planVars
    <2>5. QED
      BY <2>2, <2>3, <2>4, Typed
  <1>7. ASSUME KeepKey(t) PROVE TypeInv'
    <2>1. m \in UserLocals
      BY <1>1, <1>7, Kinds DEF KeepKey, At, ChangeSteps, UserSteps, ImageSteps
    <2>2. (\E k : Puts(t, k)) /\ begun' \in Nat
      BY <1>1, <1>7, <2>1, TaskTyped, FinishPuts, UserGoto DEF KeepKey, At,
             UserSteps, QuotaSteps
    <2>3. UsersTypeOK'
      BY <1>1, <1>7, <2>1, SameTypes DEF KeepKey, UsersTypeOK, UserLocals,
             ImportKeys, Mine, Name, MachinesUnchanged
    <2>4. AccountsTypeOK' /\ ImagesTypeOK' /\ PlansTypeOK'
      BY <1>7, SameTypes DEF KeepKey, RowsUnchanged, MachinesUnchanged,
             accountVars, imageVars, planVars
    <2>5. QED
      BY <2>2, <2>3, <2>4, Typed
  <1>8. ASSUME RewriteKeys(t) PROVE TypeInv'
    <2>1. m \in UserLocals
      BY <1>1, <1>8, Kinds DEF RewriteKeys, At, ChangeSteps, UserSteps,
             ImageSteps, SetKeys
    <2>2. (\E k : Puts(t, k)) /\ begun' \in Nat
      BY <1>1, <1>8, <2>1, TaskTyped, FinishPuts, UserGoto DEF RewriteKeys,
             At, UserSteps, QuotaSteps, SetKeys
    <2>3. UsersTypeOK'
      BY <1>1, <1>8, <2>1, SameTypes DEF RewriteKeys, UsersTypeOK, UserLocals,
             SetKeys, Name, Login, RowsUnchanged, Goto, Finish
    <2>4. AccountsTypeOK' /\ ImagesTypeOK' /\ PlansTypeOK'
      BY <1>8, SameTypes DEF RewriteKeys, RowsUnchanged, MachinesUnchanged,
             SetKeys, accountVars, imageVars, planVars
    <2>5. QED
      BY <2>2, <2>3, <2>4, Typed
  <1>9. ASSUME StrikeKey(t) PROVE TypeInv'
    <2>1. m \in UserLocals
      BY <1>1, <1>9, Kinds DEF StrikeKey, At, ChangeSteps, UserSteps,
             ImageSteps
    <2>2. (\E k : Puts(t, k)) /\ begun' \in Nat
      BY <1>1, <1>9, <2>1, TaskTyped, FinishPuts, UserGoto DEF StrikeKey, At,
             UserSteps, QuotaSteps
    <2>3. UsersTypeOK'
      BY <1>1, <1>9, <2>1, SameTypes DEF StrikeKey, UsersTypeOK, UserLocals,
             ImportKeys, Mine, Name, MachinesUnchanged
    <2>4. AccountsTypeOK' /\ ImagesTypeOK' /\ PlansTypeOK'
      BY <1>9, SameTypes DEF StrikeKey, RowsUnchanged, MachinesUnchanged,
             accountVars, imageVars, planVars
    <2>5. QED
      BY <2>2, <2>3, <2>4, Typed
  <1>10. QED
    BY <1>2, <1>3, <1>4, <1>5, <1>6, <1>7, <1>8, <1>9

(* Images: a request that begins.                                          *)
LEMMA ImageRequestTyped ==
    ASSUME TypeInv, NEW t \in Threads,
           \/ \E i \in Slots, n \in Images, f \in BOOLEAN : BeginSave(t, i, n, f)
           \/ \E n, m \in Images : BeginRename(t, n, m)
           \/ \E n, m \in Images : BeginRootRename(t, n, m)
           \/ \E n \in Images, by \in {"user", "root"} : BeginImageDelete(t, n, by)
           \/ \E i \in Slots, n \in Images : BeginOrder(t, i, n)
           \/ \E i \in Slots, n \in Images : BeginProxyOrder(t, i, n)
    PROVE  TypeInv'
  <1>1. PICK m \in Tasks : m = task[t] /\ AsksQuota(m)
    BY TaskTyped
  <1>2. ASSUME NEW i \in Slots, NEW n \in Images, NEW f \in BOOLEAN, BeginSave(t, i, n, f)
        PROVE  TypeInv'
    <2> DEFINE l == Act("save", "user", n, n, i, f)
    <2>1. l \in Tasks /\ AsksQuota(l)
      BY <1>1, <1>2 DEF BeginSave, Tasks, AsksQuota, QuotaSteps, Act,
             ImageLocals, ImageSteps
    <2>2. Begin(t, "save", l)
      BY <1>2 DEF BeginSave
    <2> HIDE DEF l
    <2>3. (\E k : Puts(t, k)) /\ begun' \in Nat
      BY <2>1, <2>2, BeginTyped
    <2>4. UsersTypeOK' /\ AccountsTypeOK' /\ ImagesTypeOK' /\ PlansTypeOK'
      BY <1>2, SameTypes DEF BeginSave, peopleVars, accountVars, imageVars,
             planVars
    <2>5. QED
      BY <2>3, <2>4, Typed
  <1>3. ASSUME NEW n \in Images, NEW o \in Images, BeginRename(t, n, o)
        PROVE  TypeInv'
    <2> DEFINE l == Act("rename", "user", n, o, CHOOSE i \in Slots : TRUE, FALSE)
    <2>1. l \in Tasks /\ AsksQuota(l)
      BY <1>1, <1>3, ImagesAssumption DEF BeginRename, Tasks, AsksQuota,
             QuotaSteps, Act, ImageLocals, ImageSteps
    <2>2. Begin(t, "rename", l)
      BY <1>3 DEF BeginRename
    <2> HIDE DEF l
    <2>3. (\E k : Puts(t, k)) /\ begun' \in Nat
      BY <2>1, <2>2, BeginTyped
    <2>4. UsersTypeOK' /\ AccountsTypeOK' /\ ImagesTypeOK' /\ PlansTypeOK'
      BY <1>3, SameTypes DEF BeginRename, peopleVars, accountVars, imageVars,
             planVars
    <2>5. QED
      BY <2>3, <2>4, Typed
  <1>4. ASSUME NEW n \in Images, NEW o \in Images, BeginRootRename(t, n, o)
        PROVE  TypeInv'
    <2> DEFINE l == Act("rename", "root", n, o, CHOOSE i \in Slots : TRUE, FALSE)
    <2>1. l \in Tasks /\ AsksQuota(l)
      BY <1>1, <1>4, ImagesAssumption DEF BeginRootRename, Tasks, AsksQuota,
             QuotaSteps, Act, ImageLocals, ImageSteps
    <2>2. Begin(t, "root-rename", l)
      BY <1>4 DEF BeginRootRename
    <2> HIDE DEF l
    <2>3. (\E k : Puts(t, k)) /\ begun' \in Nat
      BY <2>1, <2>2, BeginTyped
    <2>4. UsersTypeOK' /\ AccountsTypeOK' /\ ImagesTypeOK' /\ PlansTypeOK'
      BY <1>4, SameTypes DEF BeginRootRename, peopleVars, accountVars,
             imageVars, planVars
    <2>5. QED
      BY <2>3, <2>4, Typed
  <1>5. ASSUME NEW n \in Images, NEW by \in {"user", "root"}, BeginImageDelete(t, n, by)
        PROVE  TypeInv'
    <2> DEFINE l == Act("unlink", by, n, n, CHOOSE i \in Slots : TRUE, FALSE)
    <2>1. l \in Tasks /\ AsksQuota(l)
      BY <1>1, <1>5, ImagesAssumption DEF BeginImageDelete, Tasks, AsksQuota,
             QuotaSteps, Act, ImageLocals, ImageSteps
    <2>2. Begin(t, "image-delete", l)
      BY <1>5 DEF BeginImageDelete
    <2> HIDE DEF l
    <2>3. (\E k : Puts(t, k)) /\ begun' \in Nat
      BY <2>1, <2>2, BeginTyped
    <2>4. UsersTypeOK' /\ AccountsTypeOK' /\ ImagesTypeOK' /\ PlansTypeOK'
      BY <1>5, SameTypes DEF BeginImageDelete, peopleVars, accountVars,
             imageVars, planVars
    <2>5. QED
      BY <2>3, <2>4, Typed
  <1>6. ASSUME NEW i \in Slots, NEW n \in Images, BeginOrder(t, i, n)
        PROVE  TypeInv'
    <2> DEFINE l == Act("order", "user", n, n, i, FALSE)
    <2>1. l \in Tasks /\ AsksQuota(l)
      BY <1>1, <1>6 DEF BeginOrder, Tasks, AsksQuota, QuotaSteps, Act,
             ImageLocals, ImageSteps
    <2>2. Begin(t, "order", l)
      BY <1>6 DEF BeginOrder
    <2> HIDE DEF l
    <2>3. (\E k : Puts(t, k)) /\ begun' \in Nat
      BY <2>1, <2>2, BeginTyped
    <2>4. UsersTypeOK' /\ AccountsTypeOK' /\ ImagesTypeOK' /\ PlansTypeOK'
      BY <1>6, SameTypes DEF BeginOrder, peopleVars, accountVars, imageVars,
             planVars
    <2>5. QED
      BY <2>3, <2>4, Typed
  <1>7. ASSUME NEW i \in Slots, NEW n \in Images, BeginProxyOrder(t, i, n)
        PROVE  TypeInv'
    <2> DEFINE l == Act("order", "root", n, n, i, FALSE)
    <2>1. l \in Tasks /\ AsksQuota(l)
      BY <1>1, <1>7 DEF BeginProxyOrder, Tasks, AsksQuota, QuotaSteps, Act,
             ImageLocals, ImageSteps
    <2>2. Begin(t, "proxy", l)
      BY <1>7 DEF BeginProxyOrder
    <2> HIDE DEF l
    <2>3. (\E k : Puts(t, k)) /\ begun' \in Nat
      BY <2>1, <2>2, BeginTyped
    <2>4. UsersTypeOK' /\ AccountsTypeOK' /\ ImagesTypeOK' /\ PlansTypeOK'
      BY <1>7, SameTypes DEF BeginProxyOrder, peopleVars, accountVars,
             imageVars, planVars
    <2>5. QED
      BY <2>3, <2>4, Typed
  <1>8. QED
    BY <1>2, <1>3, <1>4, <1>5, <1>6, <1>7

(* ... a save, a renaming, a deletion, an order.                           *)
LEMMA ImageStepTyped ==
    ASSUME TypeInv, NEW t \in Threads,
           \/ CheckSave(t)
           \/ StartExport(t)
           \/ ExportEnds(t)
           \/ ExportFails(t)
           \/ Swap(t)
           \/ CheckRename(t)
           \/ Move(t)
           \/ RenameRefs(t)
           \/ Unlink(t)
           \/ SubmitOrder(t)
           \/ PlaceOrder(t)
    PROVE  TypeInv'
  <1>1. PICK m \in Tasks : m = task[t] /\ AsksQuota(m)
    BY TaskTyped
  <1>2. ASSUME CheckSave(t) PROVE TypeInv'
    <2>1. m \in ImageLocals
      BY <1>1, <1>2, Kinds DEF CheckSave, At, ChangeSteps, UserSteps,
             ImageSteps
    <2>2. (\E k : Puts(t, k)) /\ begun' \in Nat
      BY <1>1, <1>2, <2>1, TaskTyped DEF CheckSave, Puts, Goto, Finish,
             Become, ImageSteps, Tasks, ImageLocals, AsksQuota, QuotaSteps,
             Idle
    <2>3. UsersTypeOK' /\ AccountsTypeOK' /\ ImagesTypeOK' /\ PlansTypeOK'
      BY <1>2, SameTypes DEF CheckSave, peopleVars, accountVars, imageVars,
             planVars
    <2>4. QED
      BY <2>2, <2>3, Typed
  <1>3. ASSUME StartExport(t) PROVE TypeInv'
    <2>1. m \in ImageLocals
      BY <1>1, <1>3, Kinds DEF StartExport, At, ChangeSteps, UserSteps,
             ImageSteps
    <2>2. (\E k : Puts(t, k)) /\ begun' \in Nat
      <3>1. UNCHANGED <<ops, begun>> /\ begun \in Nat
        BY <1>3, TaskTyped DEF StartExport
      <3>2. CASE Finish(t)
        BY <3>1, <3>2, FinishPuts
      <3>3. CASE ~Finish(t)
        <4>1. PICK l : l = [m EXCEPT !.step = "export", !.id = saves + 1] /\ Become(t, l)
          BY <1>1, <1>3, <3>3 DEF StartExport
        <4>2. l \in Tasks /\ AsksQuota(l)
          <5>1. PICK i \in Nat : i = saves + 1
            BY SameTypes DEF ImagesTypeOK
          <5>2. l = [m EXCEPT !.step = "export", !.id = i]
            BY <4>1, <5>1
          <5>3. l \in ImageLocals /\ AsksQuota(l)
            BY <2>1, <5>2 DEF ImageSteps, ImageLocals, AsksQuota, QuotaSteps
          <5>4. QED
            BY <5>3 DEF Tasks
        <4>3. QED
          BY <3>1, <4>1, <4>2 DEF Puts
      <3>4. QED
        BY <3>2, <3>3
    <2>3. ImagesTypeOK'
      <3>1. m.name \in Images /\ [id |-> saves + 1, whole |-> FALSE] \in Content /\ saves + 1 \in Nat
        BY <2>1, SameTypes DEF ImageLocals, Content, ImagesTypeOK
      <3>2. saves' \in {saves, saves + 1} /\ UNCHANGED <<image, inst>>
        BY <1>3 DEF StartExport
      <3>3. \/ part' = [part EXCEPT ![m.name] = None]
            \/ part' = [part EXCEPT ![m.name] = [id |-> saves + 1, whole |-> FALSE]]
        BY <1>1, <1>3 DEF StartExport, CleanupPartial
      <3>4. QED
        BY <3>1, <3>2, <3>3, SameTypes DEF ImagesTypeOK
    <2>4. UsersTypeOK' /\ AccountsTypeOK' /\ PlansTypeOK'
      BY <1>3, SameTypes DEF StartExport, peopleVars, accountVars, planVars
    <2>5. QED
      BY <2>2, <2>3, <2>4, Typed
  <1>4. ASSUME ExportEnds(t) PROVE TypeInv'
    <2>1. m \in ImageLocals
      BY <1>1, <1>4, Kinds DEF ExportEnds, At, ChangeSteps, UserSteps,
             ImageSteps
    <2>2. (\E k : Puts(t, k)) /\ begun' \in Nat
      BY <1>1, <1>4, <2>1, TaskTyped DEF ExportEnds, Puts, Goto, Finish,
             Become, ImageSteps, Tasks, ImageLocals, AsksQuota, QuotaSteps,
             Idle
    <2>3. ImagesTypeOK'
      BY <1>1, <1>4, <2>1, SameTypes DEF ExportEnds, ImagesTypeOK,
             ImageLocals, Content, Resource, CleanupPartial, Completed
    <2>4. UsersTypeOK' /\ AccountsTypeOK' /\ PlansTypeOK'
      BY <1>4, SameTypes DEF ExportEnds, peopleVars, accountVars, planVars
    <2>5. QED
      BY <2>2, <2>3, <2>4, Typed
  <1>5. ASSUME ExportFails(t) PROVE TypeInv'
    <2>1. m \in ImageLocals
      BY <1>1, <1>5, Kinds DEF ExportFails, At, ChangeSteps, UserSteps,
             ImageSteps
    <2>2. (\E k : Puts(t, k)) /\ begun' \in Nat
      BY <1>1, <1>5, <2>1, TaskTyped DEF ExportFails, Puts, Goto, Finish,
             Become, ImageSteps, Tasks, ImageLocals, AsksQuota, QuotaSteps,
             Idle
    <2>3. ImagesTypeOK'
      BY <1>1, <1>5, <2>1, SameTypes DEF ExportFails, ImagesTypeOK,
             ImageLocals, Content, Resource, CleanupPartial, Completed
    <2>4. UsersTypeOK' /\ AccountsTypeOK' /\ PlansTypeOK'
      BY <1>5, SameTypes DEF ExportFails, peopleVars, accountVars, planVars
    <2>5. QED
      BY <2>2, <2>3, <2>4, Typed
  <1>6. ASSUME Swap(t) PROVE TypeInv'
    <2>1. m \in ImageLocals
      BY <1>1, <1>6, Kinds DEF Swap, At, ChangeSteps, UserSteps, ImageSteps
    <2>2. (\E k : Puts(t, k)) /\ begun' \in Nat
      BY <1>1, <1>6, <2>1, TaskTyped DEF Swap, Puts, Goto, Finish, Become,
             ImageSteps, Tasks, ImageLocals, AsksQuota, QuotaSteps, Idle
    <2>3. ImagesTypeOK'
      BY <1>1, <1>6, <2>1, SameTypes DEF Swap, ImagesTypeOK, ImageLocals,
             Content, Resource, CleanupPartial, Completed
    <2>4. UsersTypeOK' /\ AccountsTypeOK' /\ PlansTypeOK'
      BY <1>6, SameTypes DEF Swap, peopleVars, accountVars, planVars
    <2>5. QED
      BY <2>2, <2>3, <2>4, Typed
  <1>7. ASSUME CheckRename(t) PROVE TypeInv'
    <2>1. m \in ImageLocals
      BY <1>1, <1>7, Kinds DEF CheckRename, At, ChangeSteps, UserSteps,
             ImageSteps
    <2>2. (\E k : Puts(t, k)) /\ begun' \in Nat
      BY <1>1, <1>7, <2>1, TaskTyped DEF CheckRename, Puts, Goto, Finish,
             Become, ImageSteps, Tasks, ImageLocals, AsksQuota, QuotaSteps,
             Idle
    <2>3. UsersTypeOK' /\ AccountsTypeOK' /\ ImagesTypeOK' /\ PlansTypeOK'
      BY <1>7, SameTypes DEF CheckRename, peopleVars, accountVars, imageVars,
             planVars
    <2>4. QED
      BY <2>2, <2>3, Typed
  <1>8. ASSUME Move(t) PROVE TypeInv'
    <2>1. m \in ImageLocals
      BY <1>1, <1>8, Kinds DEF Move, At, ChangeSteps, UserSteps, ImageSteps
    <2>2. (\E k : Puts(t, k)) /\ begun' \in Nat
      BY <1>1, <1>8, <2>1, TaskTyped DEF Move, Puts, Goto, Finish, Become,
             ImageSteps, Tasks, ImageLocals, AsksQuota, QuotaSteps, Idle
    <2>3. ImagesTypeOK'
      BY <1>1, <1>8, <2>1, SameTypes DEF Move, ImagesTypeOK, ImageLocals,
             Content, Resource, CleanupPartial, Completed
    <2>4. UsersTypeOK' /\ AccountsTypeOK' /\ PlansTypeOK'
      BY <1>8, SameTypes DEF Move, peopleVars, accountVars, planVars
    <2>5. QED
      BY <2>2, <2>3, <2>4, Typed
  <1>9. ASSUME RenameRefs(t) PROVE TypeInv'
    <2>1. m \in ImageLocals
      BY <1>1, <1>9, Kinds DEF RenameRefs, At, ChangeSteps, UserSteps,
             ImageSteps
    <2>2. (\E k : Puts(t, k)) /\ begun' \in Nat
      BY <1>1, <1>9, <2>1, TaskTyped DEF RenameRefs, Puts, Goto, Finish,
             Become, ImageSteps, Tasks, ImageLocals, AsksQuota, QuotaSteps,
             Idle
    <2>3. ImagesTypeOK'
      BY <1>1, <1>9, <2>1, SameTypes DEF RenameRefs, ImagesTypeOK,
             ImageLocals, Content, Resource, CleanupPartial, Completed
    <2>4. UsersTypeOK' /\ AccountsTypeOK' /\ PlansTypeOK'
      BY <1>9, SameTypes DEF RenameRefs, peopleVars, accountVars, planVars
    <2>5. QED
      BY <2>2, <2>3, <2>4, Typed
  <1>10. ASSUME Unlink(t) PROVE TypeInv'
    <2>1. m \in ImageLocals
      BY <1>1, <1>10, Kinds DEF Unlink, At, ChangeSteps, UserSteps, ImageSteps
    <2>2. (\E k : Puts(t, k)) /\ begun' \in Nat
      BY <1>1, <1>10, <2>1, TaskTyped DEF Unlink, Puts, Goto, Finish, Become,
             ImageSteps, Tasks, ImageLocals, AsksQuota, QuotaSteps, Idle
    <2>3. ImagesTypeOK'
      BY <1>1, <1>10, <2>1, SameTypes DEF Unlink, ImagesTypeOK, ImageLocals,
             Content, Resource, CleanupPartial, Completed
    <2>4. UsersTypeOK' /\ AccountsTypeOK' /\ PlansTypeOK'
      BY <1>10, SameTypes DEF Unlink, peopleVars, accountVars, planVars
    <2>5. QED
      BY <2>2, <2>3, <2>4, Typed
  <1>11. ASSUME SubmitOrder(t) PROVE TypeInv'
    <2>1. m \in ImageLocals
      BY <1>1, <1>11, Kinds DEF SubmitOrder, At, ChangeSteps, UserSteps,
             ImageSteps
    <2>2. (\E k : Puts(t, k)) /\ begun' \in Nat
      BY <1>1, <1>11, <2>1, TaskTyped DEF SubmitOrder, Puts, Goto, Finish,
             Become, ImageSteps, Tasks, ImageLocals, AsksQuota, QuotaSteps,
             Idle
    <2>3. UsersTypeOK' /\ AccountsTypeOK' /\ ImagesTypeOK' /\ PlansTypeOK'
      BY <1>11, SameTypes DEF SubmitOrder, peopleVars, accountVars, imageVars,
             planVars
    <2>4. QED
      BY <2>2, <2>3, Typed
  <1>12. ASSUME PlaceOrder(t) PROVE TypeInv'
    <2>1. m \in ImageLocals
      BY <1>1, <1>12, Kinds DEF PlaceOrder, At, ChangeSteps, UserSteps,
             ImageSteps
    <2>2. (\E k : Puts(t, k)) /\ begun' \in Nat
      BY <1>1, <1>12, <2>1, TaskTyped DEF PlaceOrder, Puts, Goto, Finish,
             Become, ImageSteps, Tasks, ImageLocals, AsksQuota, QuotaSteps,
             Idle
    <2>3. ImagesTypeOK'
      BY <1>1, <1>12, <2>1, SameTypes DEF PlaceOrder, ImagesTypeOK,
             ImageLocals, Content, Resource, CleanupPartial, Completed
    <2>4. UsersTypeOK' /\ AccountsTypeOK' /\ PlansTypeOK'
      BY <1>12, SameTypes DEF PlaceOrder, peopleVars, accountVars, planVars
    <2>5. QED
      BY <2>2, <2>3, <2>4, Typed
  <1>13. QED
    BY <1>2, <1>3, <1>4, <1>5, <1>6, <1>7, <1>8, <1>9, <1>10, <1>11, <1>12

(* Plans: a request that begins.                                           *)
LEMMA PlanRequestTyped ==
    ASSUME TypeInv, NEW t \in Threads,
           \/ \E p \in Plans : AddPlan(t, p)
           \/ \E p \in Plans : BeginPlanToggle(t, p)
           \/ \E p \in Plans : BeginPlanDelete(t, p)
           \/ \E n \in Names, p \in Plans, a \in Accounts \cup {None}, r \in Rows : BeginBook(t, n, p, a, r)
           \/ \E n \in Names, p \in Plans, a \in Accounts \cup {None}, r \in Rows : BeginProxyBook(t, n, p, a, r)
           \/ \E r \in Rows : BeginRebook(t, r)
    PROVE  TypeInv'
  <1>1. PICK m \in Tasks : m = task[t] /\ AsksQuota(m)
    BY TaskTyped
  <1>2. ASSUME NEW p \in Plans, AddPlan(t, p) PROVE TypeInv'
    <2> DEFINE l == Idle
    <2>1. l \in Tasks /\ AsksQuota(l)
      BY <1>1, <1>2 DEF AddPlan, Tasks, AsksQuota, QuotaSteps, Idle
    <2>2. Begin(t, "plan", l)
      BY <1>2 DEF AddPlan
    <2> HIDE DEF l
    <2>3. (\E k : Puts(t, k)) /\ begun' \in Nat
      BY <2>1, <2>2, BeginTyped
    <2>4. PlansTypeOK'
      BY <1>1, <1>2, <2>1, <2>2, BeginTyped, SameTypes DEF AddPlan,
             PlansTypeOK, Begin
    <2>5. UsersTypeOK' /\ AccountsTypeOK' /\ ImagesTypeOK'
      BY <1>2, SameTypes DEF AddPlan, PeopleUnchanged, peopleVars,
             accountVars, imageVars
    <2>6. QED
      BY <2>3, <2>4, <2>5, Typed
  <1>3. ASSUME NEW p \in Plans, BeginPlanToggle(t, p) PROVE TypeInv'
    <2> DEFINE l == [step |-> "flip", plan |-> p, hide |-> plan[p] = "enabled"]
    <2>1. l \in Tasks /\ AsksQuota(l)
      BY <1>1, <1>3 DEF BeginPlanToggle, Tasks, AsksQuota, QuotaSteps,
             PlanLocals
    <2>2. Begin(t, "plan", l)
      BY <1>3 DEF BeginPlanToggle
    <2> HIDE DEF l
    <2>3. (\E k : Puts(t, k)) /\ begun' \in Nat
      BY <2>1, <2>2, BeginTyped
    <2>4. UsersTypeOK' /\ AccountsTypeOK' /\ ImagesTypeOK' /\ PlansTypeOK'
      BY <1>3, SameTypes DEF BeginPlanToggle, PeopleUnchanged, peopleVars,
             accountVars, imageVars, planVars
    <2>5. QED
      BY <2>3, <2>4, Typed
  <1>4. ASSUME NEW p \in Plans, BeginPlanDelete(t, p) PROVE TypeInv'
    <2> DEFINE l == [step |-> "unplan", plan |-> p, hide |-> FALSE]
    <2>1. l \in Tasks /\ AsksQuota(l)
      BY <1>1, <1>4 DEF BeginPlanDelete, Tasks, AsksQuota, QuotaSteps,
             PlanLocals
    <2>2. Begin(t, "plan", l)
      BY <1>4 DEF BeginPlanDelete
    <2> HIDE DEF l
    <2>3. (\E k : Puts(t, k)) /\ begun' \in Nat
      BY <2>1, <2>2, BeginTyped
    <2>4. UsersTypeOK' /\ AccountsTypeOK' /\ ImagesTypeOK' /\ PlansTypeOK'
      BY <1>4, SameTypes DEF BeginPlanDelete, PeopleUnchanged, peopleVars,
             accountVars, imageVars, planVars
    <2>5. QED
      BY <2>3, <2>4, Typed
  <1>5. ASSUME NEW n \in Names, NEW p \in Plans, NEW a \in Accounts \cup {None}, NEW r \in Rows, BeginBook(t, n, p, a, r)
        PROVE  TypeInv'
    <2> DEFINE l == Booked(n, p, a, r, FALSE)
    <2>1. l \in Tasks /\ AsksQuota(l)
      BY <1>1, <1>5 DEF BeginBook, Tasks, AsksQuota, QuotaSteps, Booked,
             BookLocals, PlansTypeOK, Booking
    <2>2. Begin(t, "book", l)
      BY <1>5 DEF BeginBook
    <2> HIDE DEF l
    <2>3. (\E k : Puts(t, k)) /\ begun' \in Nat
      BY <2>1, <2>2, BeginTyped
    <2>4. UsersTypeOK' /\ AccountsTypeOK' /\ ImagesTypeOK' /\ PlansTypeOK'
      BY <1>5, SameTypes DEF BeginBook, PeopleUnchanged, peopleVars,
             accountVars, imageVars, planVars
    <2>5. QED
      BY <2>3, <2>4, Typed
  <1>6. ASSUME NEW n \in Names, NEW p \in Plans, NEW a \in Accounts \cup {None}, NEW r \in Rows, BeginProxyBook(t, n, p, a, r)
        PROVE  TypeInv'
    <2> DEFINE l == Booked(n, p, a, r, FALSE)
    <2>1. l \in Tasks /\ AsksQuota(l)
      BY <1>1, <1>6 DEF BeginProxyBook, Tasks, AsksQuota, QuotaSteps, Booked,
             BookLocals, PlansTypeOK, Booking
    <2>2. Begin(t, "book", l)
      BY <1>6 DEF BeginProxyBook
    <2> HIDE DEF l
    <2>3. (\E k : Puts(t, k)) /\ begun' \in Nat
      BY <2>1, <2>2, BeginTyped
    <2>4. UsersTypeOK' /\ AccountsTypeOK' /\ ImagesTypeOK' /\ PlansTypeOK'
      BY <1>6, SameTypes DEF BeginProxyBook, PeopleUnchanged, peopleVars,
             accountVars, imageVars, planVars
    <2>5. QED
      BY <2>3, <2>4, Typed
  <1>7. ASSUME NEW r \in Rows, BeginRebook(t, r) PROVE TypeInv'
    <2> DEFINE l == IF booked[r].account = None
                   THEN [Booked(booked[r].user, booked[r].plan, booked[r].account, r, TRUE)
                           EXCEPT !.step = "charge"]
                   ELSE Booked(booked[r].user, booked[r].plan, booked[r].account, r, TRUE)
    <2>1. l \in Tasks /\ AsksQuota(l)
      BY <1>1, <1>7, SameTypes DEF BeginRebook, Tasks, AsksQuota, QuotaSteps,
             Booked, BookLocals, PlansTypeOK, Booking
    <2>2. Begin(t, "book", l)
      BY <1>7 DEF BeginRebook
    <2> HIDE DEF l
    <2>3. (\E k : Puts(t, k)) /\ begun' \in Nat
      BY <2>1, <2>2, BeginTyped
    <2>4. UsersTypeOK' /\ AccountsTypeOK' /\ ImagesTypeOK' /\ PlansTypeOK'
      BY <1>7, SameTypes DEF BeginRebook, PeopleUnchanged, peopleVars,
             accountVars, imageVars, planVars
    <2>5. QED
      BY <2>3, <2>4, Typed
  <1>8. QED
    BY <1>2, <1>3, <1>4, <1>5, <1>6, <1>7

LEMMA BookPuts ==
    ASSUME NEW t \in Threads, NEW l \in BookLocals, Become(t, l), UNCHANGED ops
    PROVE  \E k : Puts(t, k)
  BY DEF Puts, Tasks, AsksQuota, QuotaSteps, BookLocals

LEMMA BookGoto ==
    ASSUME NEW t \in Threads, task[t] \in BookLocals, NEW s \in {"ask", "raw", "charge", "book"},
           Goto(t, s), UNCHANGED ops
    PROVE  \E k : Puts(t, k)
  <1>1. [task[t] EXCEPT !.step = s] \in BookLocals
    BY DEF BookLocals
  <1>2. QED
    BY <1>1, BookPuts DEF Goto

(* ... a plan that is hidden or deleted, a resource that is charged.       *)
LEMMA PlanStepTyped ==
    ASSUME TypeInv, NEW t \in Threads,
           \/ FlipPlan(t)
           \/ DropPlan(t)
           \/ AskAccounts(t)
           \/ AskFails(t)
           \/ AskRaw(t)
           \/ AskRawFails(t)
           \/ ChargeNamed(t)
           \/ ChargeDefault(t)
           \/ ChargeFails(t)
           \/ Book(t)
    PROVE  TypeInv'
  <1>1. PICK m \in Tasks : m = task[t] /\ AsksQuota(m)
    BY TaskTyped
  <1>2. ASSUME FlipPlan(t) PROVE TypeInv'
    <2>1. m \in PlanLocals
      BY <1>1, <1>2, Kinds DEF FlipPlan, At, ChangeSteps, UserSteps,
             ImageSteps
    <2>2. (\E k : Puts(t, k)) /\ begun' \in Nat
      BY <1>1, <1>2, <2>1, TaskTyped DEF FlipPlan, Puts, Goto, Finish, Become,
             Tasks, PlanLocals, AsksQuota, QuotaSteps, Idle
    <2>3. PlansTypeOK'
      BY <1>1, <1>2, <2>1, SameTypes DEF FlipPlan, PlansTypeOK, PlanLocals,
             Listed
    <2>4. UsersTypeOK' /\ AccountsTypeOK' /\ ImagesTypeOK'
      BY <1>2, SameTypes DEF FlipPlan, PeopleUnchanged, OnlyTaskChanges,
             peopleVars, accountVars, imageVars
    <2>5. QED
      BY <2>2, <2>3, <2>4, Typed
  <1>3. ASSUME DropPlan(t) PROVE TypeInv'
    <2>1. m \in PlanLocals
      BY <1>1, <1>3, Kinds DEF DropPlan, At, ChangeSteps, UserSteps,
             ImageSteps
    <2>2. (\E k : Puts(t, k)) /\ begun' \in Nat
      BY <1>1, <1>3, <2>1, TaskTyped DEF DropPlan, Puts, Goto, Finish, Become,
             Tasks, PlanLocals, AsksQuota, QuotaSteps, Idle
    <2>3. PlansTypeOK'
      BY <1>1, <1>3, <2>1, SameTypes DEF DropPlan, PlansTypeOK, PlanLocals,
             Recorded, Booking
    <2>4. UsersTypeOK' /\ AccountsTypeOK' /\ ImagesTypeOK'
      BY <1>3, SameTypes DEF DropPlan, PeopleUnchanged, OnlyTaskChanges,
             peopleVars, accountVars, imageVars
    <2>5. QED
      BY <2>2, <2>3, <2>4, Typed
  <1>4. ASSUME AskAccounts(t) PROVE TypeInv'
    <2>1. m \in BookLocals
      BY <1>1, <1>4, Kinds DEF AskAccounts, At, ChangeSteps, UserSteps,
             ImageSteps
    <2>2. (\E k : Puts(t, k)) /\ begun' \in Nat
      <3>1. UNCHANGED <<ops, begun>> /\ begun \in Nat
        BY <1>4, TaskTyped DEF AskAccounts, OnlyTaskChanges
      <3>2. CASE Finish(t)
        BY <3>1, <3>2, FinishPuts
      <3>3. CASE Goto(t, "charge") \/ Goto(t, "raw")
        BY <1>1, <2>1, <3>1, <3>3, BookGoto
      <3>4. CASE \E a \in Preferred(m.name) :
                     Become(t, [m EXCEPT !.step = "charge", !.account = a])
        <4>1. PICK a \in Preferred(m.name) :
                  Become(t, [m EXCEPT !.step = "charge", !.account = a])
          BY <3>4
        <4>2. m.name \in Names /\ a \in Accounts
          BY <2>1, <4>1, SameTypes, AccountsAssumption DEF Preferred, Offer, AccountsTypeOK, BookLocals
        <4>3. [m EXCEPT !.step = "charge", !.account = a] \in BookLocals
          BY <2>1, <4>2 DEF BookLocals
        <4>4. QED
          BY <3>1, <4>1, <4>3, BookPuts
      <3>5. QED
        BY <1>1, <1>4, <3>2, <3>3, <3>4 DEF AskAccounts
    <2>3. UsersTypeOK' /\ AccountsTypeOK' /\ ImagesTypeOK' /\ PlansTypeOK'
      BY <1>4, SameTypes DEF AskAccounts, PeopleUnchanged, OnlyTaskChanges,
             peopleVars, accountVars, imageVars, planVars
    <2>4. QED
      BY <2>2, <2>3, Typed
  <1>5. ASSUME AskFails(t) PROVE TypeInv'
    <2>1. m \in BookLocals
      BY <1>1, <1>5, Kinds DEF AskFails, At, ChangeSteps, UserSteps,
             ImageSteps
    <2>2. (\E k : Puts(t, k)) /\ begun' \in Nat
      BY <1>1, <1>5, <2>1, TaskTyped DEF AskFails, Puts, Goto, Finish, Become,
             OnlyTaskChanges, Tasks, BookLocals, AsksQuota, QuotaSteps, Idle
    <2>3. UsersTypeOK' /\ AccountsTypeOK' /\ ImagesTypeOK' /\ PlansTypeOK'
      BY <1>5, SameTypes DEF AskFails, PeopleUnchanged, OnlyTaskChanges,
             peopleVars, accountVars, imageVars, planVars
    <2>4. QED
      BY <2>2, <2>3, Typed
  <1>6. ASSUME AskRaw(t) PROVE TypeInv'
    <2>1. m \in BookLocals
      BY <1>1, <1>6, Kinds DEF AskRaw, At, ChangeSteps, UserSteps, ImageSteps
    <2>2. (\E k : Puts(t, k)) /\ begun' \in Nat
      BY <1>1, <1>6, <2>1, TaskTyped DEF AskRaw, Puts, Goto, Finish, Become,
             OnlyTaskChanges, Tasks, BookLocals, AsksQuota, QuotaSteps, Idle
    <2>3. UsersTypeOK' /\ AccountsTypeOK' /\ ImagesTypeOK' /\ PlansTypeOK'
      BY <1>6, SameTypes DEF AskRaw, PeopleUnchanged, OnlyTaskChanges,
             peopleVars, accountVars, imageVars, planVars
    <2>4. QED
      BY <2>2, <2>3, Typed
  <1>7. ASSUME AskRawFails(t) PROVE TypeInv'
    <2>1. m \in BookLocals
      BY <1>1, <1>7, Kinds DEF AskRawFails, At, ChangeSteps, UserSteps,
             ImageSteps
    <2>2. (\E k : Puts(t, k)) /\ begun' \in Nat
      BY <1>1, <1>7, <2>1, TaskTyped DEF AskRawFails, Puts, Goto, Finish,
             Become, OnlyTaskChanges, Tasks, BookLocals, AsksQuota,
             QuotaSteps, Idle
    <2>3. UsersTypeOK' /\ AccountsTypeOK' /\ ImagesTypeOK' /\ PlansTypeOK'
      BY <1>7, SameTypes DEF AskRawFails, PeopleUnchanged, OnlyTaskChanges,
             peopleVars, accountVars, imageVars, planVars
    <2>4. QED
      BY <2>2, <2>3, Typed
  <1>8. ASSUME ChargeNamed(t) PROVE TypeInv'
    <2>1. m \in BookLocals
      BY <1>1, <1>8, Kinds DEF ChargeNamed, At, ChangeSteps, UserSteps,
             ImageSteps
    <2>2. (\E k : Puts(t, k)) /\ begun' \in Nat
      BY <1>1, <1>8, <2>1, TaskTyped DEF ChargeNamed, Puts, Goto, Finish,
             Become, OnlyTaskChanges, Pay, Tasks, BookLocals, AsksQuota,
             QuotaSteps, Idle
    <2>3. UsersTypeOK' /\ AccountsTypeOK' /\ ImagesTypeOK' /\ PlansTypeOK'
      BY <1>8, SameTypes DEF ChargeNamed, PeopleUnchanged, OnlyTaskChanges,
             peopleVars, accountVars, imageVars, planVars
    <2>4. QED
      BY <2>2, <2>3, Typed
  <1>9. ASSUME ChargeDefault(t) PROVE TypeInv'
    <2>1. m \in BookLocals
      BY <1>1, <1>9, Kinds DEF ChargeDefault, At, ChangeSteps, UserSteps,
             ImageSteps
    <2>2. (\E k : Puts(t, k)) /\ begun' \in Nat
      <3>1. UNCHANGED <<ops, begun>> /\ begun \in Nat
        BY <1>9, TaskTyped DEF ChargeDefault
      <3>2. CASE Finish(t)
        BY <3>1, <3>2, FinishPuts
      <3>3. CASE ~Finish(t)
        <4>1. PICK l : l = [m EXCEPT !.step = "book", !.paid = default'[m.name]] /\ Become(t, l)
          BY <1>1, <1>9, <3>3 DEF ChargeDefault, Pay
        <4>2. m.name \in Names /\ default'[m.name] \in Accounts \cup {None}
          BY <1>1, <2>1, <1>9, <3>3, SameTypes, AccountsAssumption
             DEF ChargeDefault, Associate, AccountsTypeOK, BookLocals
        <4>3. l \in BookLocals
          BY <2>1, <4>1, <4>2 DEF BookLocals
        <4>4. QED
          BY <3>1, <4>1, <4>3, BookPuts
      <3>4. QED
        BY <3>2, <3>3
    <2>3. AccountsTypeOK'
      BY <1>1, <1>9, <2>1, SameTypes, AccountsAssumption DEF ChargeDefault,
             AccountsTypeOK, BookLocals, EnsureAccount, Fresh, Qos, Associate
    <2>4. UsersTypeOK' /\ ImagesTypeOK' /\ PlansTypeOK'
      BY <1>9, SameTypes DEF ChargeDefault, PeopleUnchanged, OnlyTaskChanges,
             peopleVars, imageVars, planVars
    <2>5. QED
      BY <2>2, <2>3, <2>4, Typed
  <1>10. ASSUME ChargeFails(t) PROVE TypeInv'
    <2>1. m \in BookLocals
      BY <1>1, <1>10, Kinds DEF ChargeFails, At, ChangeSteps, UserSteps,
             ImageSteps
    <2>2. (\E k : Puts(t, k)) /\ begun' \in Nat
      BY <1>1, <1>10, <2>1, TaskTyped DEF ChargeFails, Puts, Goto, Finish,
             Become, OnlyTaskChanges, Tasks, BookLocals, AsksQuota,
             QuotaSteps, Idle
    <2>3. UsersTypeOK' /\ AccountsTypeOK' /\ ImagesTypeOK' /\ PlansTypeOK'
      BY <1>10, SameTypes DEF ChargeFails, PeopleUnchanged, OnlyTaskChanges,
             peopleVars, accountVars, imageVars, planVars
    <2>4. QED
      BY <2>2, <2>3, Typed
  <1>11. ASSUME Book(t) PROVE TypeInv'
    <2>1. m \in BookLocals
      BY <1>1, <1>11, Kinds DEF Book, At, ChangeSteps, UserSteps, ImageSteps
    <2>2. (\E k : Puts(t, k)) /\ begun' \in Nat
      BY <1>1, <1>11, <2>1, TaskTyped DEF Book, Puts, Goto, Finish, Become,
             Tasks, BookLocals, AsksQuota, QuotaSteps, Idle
    <2>3. PlansTypeOK'
      BY <1>1, <1>11, <2>1, SameTypes DEF Book, PlansTypeOK, BookLocals,
             Booking
    <2>4. UsersTypeOK' /\ AccountsTypeOK' /\ ImagesTypeOK'
      BY <1>11, SameTypes DEF Book, PeopleUnchanged, OnlyTaskChanges,
             peopleVars, accountVars, imageVars
    <2>5. QED
      BY <2>2, <2>3, <2>4, Typed
  <1>12. QED
    BY <1>2, <1>3, <1>4, <1>5, <1>6, <1>7, <1>8, <1>9, <1>10, <1>11

(* Outside: a user edits his file, root adds an account, jobs start and    *)
(* end, a resource is discarded.                                           *)
LEMMA OutsideTyped ==
    ASSUME TypeInv, Outside \/ Jobs \/ \E r \in Rows : Discard(r)
    PROVE  TypeInv'
  <1>1. ASSUME UNCHANGED deskVars, UsersTypeOK', AccountsTypeOK', ImagesTypeOK', PlansTypeOK'
        PROVE  TypeInv'
    BY <1>1 DEF TypeInv, TenantsTypeOK, QuotasGiven, deskVars
  <1>2. ASSUME NEW n \in Names, NEW k \in Keys, OwnEdit(n, k) PROVE TypeInv'
    <2>1. UsersTypeOK'
      BY <1>2, SameTypes DEF OwnEdit, UsersTypeOK, Login
    <2>2. AccountsTypeOK' /\ ImagesTypeOK' /\ PlansTypeOK'
      BY <1>2, SameTypes DEF OwnEdit
    <2>3. QED
      BY <1>1, <1>2, <2>1, <2>2 DEF OwnEdit
  <1>3. ASSUME NEW n \in Names, NEW q \in Quotas, ByHand(n, q) PROVE TypeInv'
    <2>1. UsersTypeOK'
      BY <1>3, SameTypes DEF ByHand, UsersTypeOK, Login
    <2>2. AccountsTypeOK' /\ ImagesTypeOK' /\ PlansTypeOK'
      BY <1>3, SameTypes DEF ByHand
    <2>3. QED
      BY <1>1, <1>3, <2>1, <2>2 DEF ByHand
  <1>4. ASSUME NEW i \in Slots, JobStart(i) \/ JobEnd(i) PROVE TypeInv'
    <2>1. ImagesTypeOK'
      BY <1>4, SameTypes DEF JobStart, JobEnd, ImagesTypeOK, Resource
    <2>2. UsersTypeOK' /\ AccountsTypeOK' /\ PlansTypeOK'
      BY <1>4, SameTypes DEF JobStart, JobEnd
    <2>3. QED
      BY <1>1, <1>4, <2>1, <2>2 DEF JobStart, JobEnd
  <1>5. ASSUME NEW r \in Rows, Discard(r) PROVE TypeInv'
    <2>1. PlansTypeOK'
      BY <1>5, SameTypes DEF Discard, PlansTypeOK
    <2>2. UsersTypeOK' /\ AccountsTypeOK' /\ ImagesTypeOK'
      BY <1>5, SameTypes DEF Discard, PeopleUnchanged
    <2>3. QED
      BY <1>1, <1>5, <2>1, <2>2 DEF Discard
  <1>6. QED
    BY <1>2, <1>3, <1>4, <1>5 DEF Outside, Jobs

LEMMA InitTyped ==
    ASSUME Init PROVE TypeInv
  <1>1. UsersTypeOK
    <2>1. [id |-> 0, mode |-> "provision", quota |-> FirstQuota] \in UserRow
      BY TenantsAssumption DEF UserRow
    <2>2. [keys |-> {}, quota |-> FirstQuota] \in Login
      BY TenantsAssumption DEF Login
    <2>3. QED
      BY <2>1, <2>2, TenantsAssumption DEF Init, UsersInit, UsersTypeOK
  <1>2. AccountsTypeOK
    BY AccountsAssumption
       DEF Init, AccountsInit, AccountsTypeOK, Nothing, Seed, Fresh, Settings, Qos
  <1>3. ImagesTypeOK
    BY DEF Init, ImagesInit, ImagesTypeOK, Content, Resource, Unused
  <1>4. PlansTypeOK
    BY DEF Init, PlansInit, PlansTypeOK
  <1>5. QuotasGiven
    BY DEF Init, DeskInit, QuotasGiven, AsksQuota, QuotaSteps, Idle
  <1>6. QED
    BY <1>1, <1>2, <1>3, <1>4, <1>5 DEF Init, DeskInit, TypeInv, TenantsTypeOK

LEMMA TypeStep ==
    ASSUME TypeInv, [Next]_deskAll PROVE TypeInv'
  <1>1. ASSUME NEW t \in Threads, AccountRequest(t) \/ AccountStep(t) PROVE TypeInv'
    <2>1. Asked \subseteq Settings
      <3>1. PICK p \in 1 .. MaxPriority : p = 1
        BY AccountsAssumption
      <3>2. Seed \in Settings
        BY <3>1 DEF Seed, Settings
      <3>3. [Seed EXCEPT !.open = FALSE] \in Settings
        BY <3>2 DEF Settings
      <3>4. QED
        BY <3>2, <3>3 DEF Asked
    <2>2. QED
      BY <1>1, <2>1, AccountRequestTyped, ChangeTyped, AccountDeleteTyped, MemberTyped
         DEF AccountRequest, AccountStep
  <1>2. ASSUME NEW t \in Threads, UserRequest(t) \/ UserStep(t) PROVE TypeInv'
    BY <1>2, UserRequestTyped, CreateTyped, UserChangeTyped, KeysTyped DEF UserRequest, UserStep
  <1>3. ASSUME NEW t \in Threads, ImageRequest(t) \/ ImageStep(t) PROVE TypeInv'
    BY <1>3, ImageRequestTyped, ImageStepTyped DEF ImageRequest, ImageStep
  <1>4. ASSUME NEW t \in Threads, PlanRequest(t) \/ PlanStep(t) PROVE TypeInv'
    BY <1>4, PlanRequestTyped, PlanStepTyped DEF PlanRequest, PlanStep
  <1>5. CASE UNCHANGED deskAll
    BY <1>5 DEF deskAll, deskVars, peopleVars, accountVars, imageVars, planVars, TypeInv,
                TenantsTypeOK, QuotasGiven, UsersTypeOK, AccountsTypeOK, ImagesTypeOK, PlansTypeOK
  <1>6. QED
    BY <1>1, <1>2, <1>3, <1>4, <1>5, OutsideTyped DEF Next

LEMMA TypesCorrect == TenantsSpec => []TypeInv
  BY InitTyped, TypeStep, PTL DEF TenantsSpec

(* Whatever the requests that overlap and the failures between their       *)
(* steps, the tables of the portal, the state of Slurm and of the machines *)
(* and the locals of every handler are what the code takes them for.       *)
THEOREM TypesOfTenants == TenantsSpec => []TenantsTypeOK
  <1>1. TypeInv => TenantsTypeOK
    BY DEF TypeInv
  <1>2. QED
    BY <1>1, TypesCorrect, PTL

-----------------------------------------------------------------------------
(* Which steps a handler of each kind goes through, and what it leaves     *)
(* alone.                                                                  *)
AddSteps == {"update", "payload", "ensure", "apply", "undo"}
DeleteSteps == {"check", "drop", "dropqos", "unrow"}
MemberSteps == {"join", "assoc", "default", "leave", "disjoin"}
PlanSteps == {"flip", "unplan"}
BookSteps == {"ask", "raw", "charge", "book"}

Flows(t, from, to) ==
    /\ task[t].step \in from
    /\ UNCHANGED ops
    /\ Become(t, task'[t])
    /\ task'[t].step \in to

(* A request that begins; only a page that is shown begins beside others.  *)
Starts(t) ==
    \E op : Begin(t, op, task'[t]) /\ (op = "view" => task'[t].step = "look")

LEMMA BecomeFlow ==
    ASSUME TypeInv, NEW t \in Threads, NEW l, Become(t, l)
    PROVE  task'[t] = l /\ Become(t, task'[t]) /\ (\A s \in Threads \ {t} : task'[s] = task[s])
  BY DEF TypeInv, TenantsTypeOK, Become

LEMMA FinishFlow ==
    ASSUME TypeInv, NEW t \in Threads, Finish(t)
    PROVE  task'[t] = Idle /\ task'[t].step = "idle" /\ Become(t, task'[t])
  BY BecomeFlow DEF Finish, Idle

LEMMA GotoFlow ==
    ASSUME TypeInv, NEW t \in Threads, NEW s, Goto(t, s)
    PROVE  /\ task'[t] = [task[t] EXCEPT !.step = s]
           /\ task'[t].step = s /\ Become(t, task'[t])
  <1>1. PICK m \in Tasks : m = task[t]
    BY TaskTyped
  <1>2. [m EXCEPT !.step = s].step = s
    BY <1>1 DEF Tasks, Idle, ChangeLocals, MemberLocals, UserLocals, ImageLocals, PlanLocals,
           BookLocals
  <1>3. QED
    BY <1>1, <1>2, BecomeFlow DEF Goto

LEMMA AccountFlow ==
    ASSUME TypeInv, NEW t \in Threads, AccountStep(t)
    PROVE  /\ \/ Flows(t, AddSteps, AddSteps \cup {"idle"})
              \/ Flows(t, DeleteSteps, DeleteSteps \cup {"idle"})
              \/ Flows(t, MemberSteps, MemberSteps \cup {"idle"})
           /\ UNCHANGED <<peopleVars, imageVars, planVars>>
  <1>1. UNCHANGED <<peopleVars, imageVars, planVars>>
    BY DEF AccountStep, WriteRow, ReadRows, SyncRead, SyncReturns, SyncFails, SyncEnsure,
           SyncApply, Undo, CheckDelete, DropAccount, DropQos, DeleteFails, DeleteRow, CheckJoin,
           Join, MakeDefault, CheckLeave, Leave
  <1>2. ASSUME \/ ReadRows(t) \/ SyncRead(t)
               \/ \E a \in Accounts : SyncEnsure(t, a) \/ SyncApply(t, a)
        PROVE  Flows(t, AddSteps, AddSteps \cup {"idle"})
    <2>1. PICK m \in ChangeLocals : m = task[t]
      BY <1>2, TaskTyped, Kinds
         DEF ReadRows, SyncRead, SyncEnsure, SyncApply, At, ChangeSteps
    <2>3. CASE ReadRows(t)
      <3>1. PICK l : Become(t, l) /\ l = [m EXCEPT !.step = "ensure", !.sent = acctRow,
                                      !.ensure = {a \in Accounts : acctRow[a] # None}]
        BY <2>1, <2>3 DEF ReadRows
      <3>2. l.step = "ensure"
        BY <2>1, <3>1 DEF ChangeLocals
      <3>3. QED
        BY <2>1, <2>3, <3>1, <3>2, BecomeFlow DEF ReadRows, At, Flows, AddSteps
    <2>4. CASE SyncRead(t)
      <3>1. PICK l, d : Become(t, l) /\ l = [m EXCEPT !.step = "apply", !.todo = d]
        BY <2>1, <2>4 DEF SyncRead
      <3>2. l.step = "apply"
        BY <2>1, <3>1 DEF ChangeLocals
      <3>3. QED
        BY <2>1, <2>4, <3>1, <3>2, BecomeFlow DEF SyncRead, At, Flows, AddSteps
    <2>5. CASE \E a \in Accounts : SyncEnsure(t, a)
      <3>1. PICK l, e : Become(t, l) /\ l = [m EXCEPT !.ensure = e]
        BY <2>1, <2>5 DEF SyncEnsure
      <3>2. l.step = m.step
        BY <2>1, <3>1 DEF ChangeLocals
      <3>3. QED
        BY <2>1, <2>5, <3>1, <3>2, BecomeFlow DEF SyncEnsure, At, Flows, AddSteps
    <2>6. CASE \E a \in Accounts : SyncApply(t, a)
      <3>1. PICK a \in Accounts : Goto(t, "undo") \/ Become(t, [m EXCEPT !.todo[a] = None])
        BY <2>1, <2>6 DEF SyncApply
      <3>2. [m EXCEPT !.todo[a] = None].step = m.step
        BY <2>1 DEF ChangeLocals
      <3>3. QED
        BY <2>1, <2>6, <3>1, <3>2, BecomeFlow, GotoFlow DEF SyncApply, At, Flows, AddSteps
    <2>7. QED
      BY <1>2, <2>3, <2>4, <2>5, <2>6
  <1>3. ASSUME WriteRow(t) \/ SyncReturns(t) \/ SyncFails(t) \/ Undo(t)
        PROVE  Flows(t, AddSteps, AddSteps \cup {"idle"})
    BY <1>3, FinishFlow, GotoFlow
       DEF WriteRow, SyncReturns, SyncFails, Undo, At, Flows, AddSteps
  <1>4. ASSUME CheckDelete(t) \/ DropAccount(t) \/ DropQos(t) \/ DeleteFails(t) \/ DeleteRow(t)
        PROVE  Flows(t, DeleteSteps, DeleteSteps \cup {"idle"})
    BY <1>4, FinishFlow, GotoFlow
       DEF CheckDelete, DropAccount, DropQos, DeleteFails, DeleteRow, At, Flows, DeleteSteps
  <1>5. ASSUME CheckJoin(t) \/ Join(t) \/ MakeDefault(t) \/ CheckLeave(t) \/ Leave(t)
        PROVE  Flows(t, MemberSteps, MemberSteps \cup {"idle"})
    BY <1>5, FinishFlow, GotoFlow
       DEF CheckJoin, Join, MakeDefault, CheckLeave, Leave, At, Flows, MemberSteps
  <1>6. QED
    BY <1>1, <1>2, <1>3, <1>4, <1>5 DEF AccountStep

LEMMA UserFlow ==
    ASSUME TypeInv, NEW t \in Threads, UserStep(t)
    PROVE  /\ Flows(t, UserSteps, UserSteps \cup {"idle"})
           /\ UNCHANGED <<acctRow, imageVars, plan>>
  <1>1. UNCHANGED <<acctRow, imageVars, plan>>
    BY DEF UserStep, HelperFails, ReplyLost, Provision, Spread, InitLogin, Limit, InsertUser,
           EmptyNodes, RemoveLogin, DeleteUserRow, Resize, RecordQuota, Look, Note, Gather, Merge,
           WriteKeys, KeepKey, RewriteKeys, StrikeKey, SetQuota, GetKeys, SetKeys, RowsUnchanged,
           MachinesUnchanged, planVars, accountVars
  <1>2. ASSUME InsertUser(t) \/ EmptyNodes(t) \/ Look(t) \/ Gather(t) \/ Merge(t)
        PROVE  Flows(t, UserSteps, UserSteps \cup {"idle"})
    <2>1. PICK m \in UserLocals : m = task[t]
      BY <1>2, TaskTyped, Kinds
         DEF InsertUser, EmptyNodes, Look, Gather, Merge, GetKeys, At, UserSteps
    <2>3. UNCHANGED ops /\ m.step \in UserSteps
      BY <1>2, <2>1
         DEF InsertUser, EmptyNodes, Look, Gather, Merge, GetKeys, At, UserSteps
    <2>4. CASE InsertUser(t)
      <3>1. Finish(t) \/ Become(t, [m EXCEPT !.step = "look", !.id = lastId'])
        BY <2>1, <2>4 DEF InsertUser
      <3>2. [m EXCEPT !.step = "look", !.id = lastId'].step = "look"
        BY <2>1 DEF UserLocals
      <3>3. QED
        BY <2>1, <2>3, <3>1, <3>2, BecomeFlow, FinishFlow DEF Flows, UserSteps
    <2>5. CASE EmptyNodes(t)
      <3>1. \/ Goto(t, "delete") \/ Goto(t, "remove")
            \/ Become(t, [m EXCEPT !.step = "remove", !.failed = TRUE])
        BY <2>1, <2>5 DEF EmptyNodes
      <3>2. [m EXCEPT !.step = "remove", !.failed = TRUE].step = "remove"
        BY <2>1 DEF UserLocals
      <3>3. QED
        BY <2>1, <2>3, <3>1, <3>2, BecomeFlow, GotoFlow DEF Flows, UserSteps
    <2>6. CASE Look(t) \/ Gather(t)
      <3>1. PICK ks : \/ Finish(t) \/ Become(t, [m EXCEPT !.step = "note", !.keys = ks])
                      \/ Become(t, [m EXCEPT !.step = "merge", !.keys = ks])
        BY <2>1, <2>6 DEF Look, Gather, GetKeys
      <3>2. /\ [m EXCEPT !.step = "note", !.keys = ks].step = "note"
            /\ [m EXCEPT !.step = "merge", !.keys = ks].step = "merge"
        BY <2>1 DEF UserLocals
      <3>3. QED
        BY <2>1, <2>3, <3>1, <3>2, BecomeFlow, FinishFlow DEF Flows, UserSteps
    <2>7. CASE Merge(t)
      <3>1. PICK ks : Finish(t) \/ Become(t, [m EXCEPT !.step = "set", !.keys = ks])
        BY <2>1, <2>7 DEF Merge
      <3>2. [m EXCEPT !.step = "set", !.keys = ks].step = "set"
        BY <2>1 DEF UserLocals
      <3>3. QED
        BY <2>1, <2>3, <3>1, <3>2, BecomeFlow, FinishFlow DEF Flows, UserSteps
    <2>8. QED
      BY <1>2, <2>4, <2>5, <2>6, <2>7
  <1>3. ASSUME \/ HelperFails(t) \/ ReplyLost(t) \/ Provision(t) \/ Spread(t) \/ InitLogin(t)
               \/ Limit(t) \/ RemoveLogin(t) \/ DeleteUserRow(t) \/ Resize(t) \/ RecordQuota(t)
               \/ Note(t) \/ WriteKeys(t) \/ KeepKey(t) \/ RewriteKeys(t) \/ StrikeKey(t)
        PROVE  Flows(t, UserSteps, UserSteps \cup {"idle"})
    BY <1>3, FinishFlow, GotoFlow
       DEF HelperFails, ReplyLost, Provision, Spread, InitLogin, Limit, RemoveLogin, DeleteUserRow,
           Resize, RecordQuota, Note, WriteKeys, KeepKey, RewriteKeys, StrikeKey, SetQuota, SetKeys,
           At, Flows, UserSteps
  <1>4. QED
    BY <1>1, <1>2, <1>3 DEF UserStep

LEMMA ImageFlow ==
    ASSUME TypeInv, NEW t \in Threads, ImageStep(t)
    PROVE  /\ \/ Flows(t, SaveSteps \ {"idle"}, SaveSteps)
              \/ Flows(t, ImageSteps \ SaveSteps, (ImageSteps \ SaveSteps) \cup {"idle"})
           /\ UNCHANGED <<peopleVars, accountVars, planVars>>
  <1>1. UNCHANGED <<peopleVars, accountVars, planVars>>
    BY DEF ImageStep, CheckSave, StartExport, ExportEnds, ExportFails, Swap, CheckRename, Move,
           RenameRefs, Unlink, SubmitOrder, PlaceOrder
  <1>2. CASE StartExport(t)
    <2>1. PICK m \in ImageLocals : m = task[t]
      BY <1>2, TaskTyped, Kinds DEF StartExport, At, ImageSteps
    <2>3. PICK i : Finish(t) \/ Become(t, [m EXCEPT !.step = "export", !.id = i])
      BY <1>2, <2>1 DEF StartExport
    <2>4. [m EXCEPT !.step = "export", !.id = i].step = "export"
      BY <2>1 DEF ImageLocals
    <2>5. Flows(t, SaveSteps \ {"idle"}, SaveSteps)
      BY <1>2, <2>3, <2>4, BecomeFlow, FinishFlow DEF StartExport, At, Flows, SaveSteps
    <2>6. QED
      BY <1>1, <2>5
  <1>3. CASE CheckSave(t) \/ ExportEnds(t) \/ ExportFails(t) \/ Swap(t)
    <2>1. UNCHANGED ops /\ task[t].step \in SaveSteps \ {"idle"}
      BY <1>3 DEF CheckSave, ExportEnds, ExportFails, Swap, At, SaveSteps
    <2>2. Finish(t) \/ Goto(t, "start") \/ Goto(t, "swap")
      BY <1>3 DEF CheckSave, ExportEnds, ExportFails, Swap
    <2>3. QED
      BY <1>1, <2>1, <2>2, FinishFlow, GotoFlow DEF Flows, SaveSteps
  <1>4. CASE \/ CheckRename(t) \/ Move(t) \/ RenameRefs(t) \/ Unlink(t)
             \/ SubmitOrder(t) \/ PlaceOrder(t)
    <2>1. UNCHANGED ops /\ task[t].step \in ImageSteps \ SaveSteps
      BY <1>4 DEF CheckRename, Move, RenameRefs, Unlink, SubmitOrder, PlaceOrder, At, ImageSteps,
                  SaveSteps
    <2>2. Finish(t) \/ Goto(t, "move") \/ Goto(t, "refs") \/ Goto(t, "place")
      BY <1>4 DEF CheckRename, Move, RenameRefs, Unlink, SubmitOrder, PlaceOrder
    <2>3. Become(t, task'[t]) /\ task'[t].step \in {"idle", "move", "refs", "place"}
      BY <2>2, FinishFlow, GotoFlow
    <2>4. Flows(t, ImageSteps \ SaveSteps, (ImageSteps \ SaveSteps) \cup {"idle"})
      BY <2>1, <2>3 DEF Flows, ImageSteps, SaveSteps
    <2>5. QED
      BY <1>1, <2>4
  <1>5. QED
    BY <1>2, <1>3, <1>4 DEF ImageStep

LEMMA PlanFlow ==
    ASSUME TypeInv, NEW t \in Threads, PlanStep(t)
    PROVE  /\ \/ Flows(t, PlanSteps, {"idle"})
              \/ Flows(t, BookSteps, BookSteps \cup {"idle"})
           /\ UNCHANGED <<peopleVars, imageVars, acctRow>>
  <1>1. UNCHANGED <<peopleVars, imageVars, acctRow>>
    BY DEF PlanStep, FlipPlan, DropPlan, AskAccounts, AskFails, AskRaw, AskRawFails, ChargeNamed,
           ChargeDefault, ChargeFails, Book, PeopleUnchanged, OnlyTaskChanges, accountVars
  <1>2. CASE AskAccounts(t) \/ ChargeNamed(t) \/ ChargeDefault(t)
    <2>1. PICK m \in BookLocals : m = task[t]
      BY <1>2, TaskTyped, Kinds DEF AskAccounts, ChargeNamed, ChargeDefault, At
    <2>3. UNCHANGED ops /\ m.step \in BookSteps
      BY <1>2, <2>1 DEF AskAccounts, ChargeNamed, ChargeDefault, OnlyTaskChanges, At, BookSteps
    <2>4. \/ Finish(t) \/ Goto(t, "charge") \/ Goto(t, "raw")
          \/ \E l : Become(t, l) /\ l.step \in {"charge", "book"}
      <3>1. CASE AskAccounts(t)
        <4>1. PICK a : \/ Finish(t) \/ Goto(t, "charge") \/ Goto(t, "raw")
                       \/ Become(t, [m EXCEPT !.step = "charge", !.account = a])
          BY <2>1, <3>1 DEF AskAccounts
        <4>2. [m EXCEPT !.step = "charge", !.account = a].step = "charge"
          BY <2>1 DEF BookLocals
        <4>3. QED
          BY <4>1, <4>2
      <3>2. CASE ChargeNamed(t) \/ ChargeDefault(t)
        <4>1. PICK a : Finish(t) \/ Become(t, [m EXCEPT !.step = "book", !.paid = a])
          BY <2>1, <3>2 DEF ChargeNamed, ChargeDefault, Pay
        <4>2. [m EXCEPT !.step = "book", !.paid = a].step = "book"
          BY <2>1 DEF BookLocals
        <4>3. QED
          BY <4>1, <4>2
      <3>3. QED
        BY <1>2, <3>1, <3>2
    <2>5. Flows(t, BookSteps, BookSteps \cup {"idle"})
      BY <2>1, <2>3, <2>4, BecomeFlow, FinishFlow, GotoFlow DEF Flows, BookSteps
    <2>6. QED
      BY <1>1, <2>5
  <1>3. CASE \/ FlipPlan(t) \/ DropPlan(t)
    BY <1>1, <1>3, FinishFlow DEF FlipPlan, DropPlan, At, Flows, PlanSteps
  <1>4. CASE AskFails(t) \/ AskRaw(t) \/ AskRawFails(t) \/ ChargeFails(t) \/ Book(t)
    BY <1>1, <1>4, FinishFlow, GotoFlow
       DEF AskFails, AskRaw, AskRawFails, ChargeFails, Book, OnlyTaskChanges, At, Flows, BookSteps
  <1>5. QED
    BY <1>2, <1>3, <1>4 DEF PlanStep

LEMMA AccountRequestFlow ==
    ASSUME TypeInv, NEW t \in Threads, AccountRequest(t)
    PROVE  /\ Starts(t)
           /\ Flows(t, {"idle"}, {"update", "check", "join", "leave"})
           /\ UNCHANGED <<peopleVars, accountVars, imageVars, planVars>>
  <1>1. PICK a, v, u, d : /\ a \in Accounts
                          /\ \/ BeginAccountAdd(t, a, v) \/ BeginAccountEdit(t, a, v)
                             \/ BeginAccountDelete(t, a) \/ BeginJoin(t, a, u, d)
                             \/ BeginLeave(t, a, u)
    BY DEF AccountRequest
  <1>2. PICK op, l : Begin(t, op, l) /\ op # "view" /\ l.step \in {"update", "check", "join", "leave"}
    BY <1>1 DEF BeginAccountAdd, BeginAccountEdit, BeginAccountDelete, BeginJoin, BeginLeave,
                Change, MemberChange
  <1>3. QED
    BY <1>1, <1>2, BecomeFlow
       DEF Begin, Starts, Flows, At, BeginAccountAdd, BeginAccountEdit, BeginAccountDelete, BeginJoin,
           BeginLeave

LEMMA UserRequestFlow ==
    ASSUME TypeInv, NEW t \in Threads, UserRequest(t)
    PROVE  /\ Starts(t)
           /\ Flows(t, {"idle"}, {"provision", "init", "empty", "delete", "resize", "look",
                                  "gather", "reset"})
           /\ UNCHANGED <<peopleVars, accountVars, imageVars, planVars>>
  <1>1. PICK n, m, q, k : /\ n \in Names
                          /\ \/ BeginCreate(t, n, m, q) \/ BeginUserDelete(t, n)
                             \/ BeginView(t, n) \/ BeginQuota(t, n, q)
                             \/ BeginKeyAdd(t, n, k) \/ BeginKeyDelete(t, n, k)
    BY DEF UserRequest
  <1>2. PICK op, l : /\ Begin(t, op, l) /\ (op = "view" => l.step = "look")
                      /\ l.step \in {"provision", "init", "empty", "delete", "resize", "look",
                                    "gather", "reset"}
    <2>1. CASE BeginUserDelete(t, n) \/ BeginView(t, n)
      BY <2>1 DEF BeginUserDelete, BeginView, Work
    <2>2. CASE BeginCreate(t, n, m, q)
      <3>1. PICK w : /\ w = Work(IF m = "provision" THEN "provision" ELSE "init", n)
                     /\ Begin(t, "user-create", [w EXCEPT !.mode = m, !.quota = q])
        BY <2>2 DEF BeginCreate
      <3>2. [w EXCEPT !.mode = m, !.quota = q].step \in {"provision", "init"}
        BY <3>1 DEF Work
      <3>3. QED
        BY <3>1, <3>2
    <2>3. CASE BeginQuota(t, n, q)
      <3>1. PICK w : w = Work("resize", n) /\ Begin(t, "quota", [w EXCEPT !.quota = q])
        BY <2>3 DEF BeginQuota
      <3>2. [w EXCEPT !.quota = q].step = "resize"
        BY <3>1 DEF Work
      <3>3. QED
        BY <3>1, <3>2
    <2>4. CASE BeginKeyAdd(t, n, k)
      <3>1. PICK w : w = Work("gather", n) /\ Begin(t, "key-add", [w EXCEPT !.key = {k}])
        BY <2>4 DEF BeginKeyAdd
      <3>2. [w EXCEPT !.key = {k}].step = "gather"
        BY <3>1 DEF Work
      <3>3. QED
        BY <3>1, <3>2
    <2>5. CASE BeginKeyDelete(t, n, k)
      <3>1. PICK w, ks : /\ w = Work("reset", n)
                         /\ Begin(t, "key-delete", [w EXCEPT !.key = {k}, !.keys = ks])
        BY <2>5 DEF BeginKeyDelete
      <3>2. [w EXCEPT !.key = {k}, !.keys = ks].step = "reset"
        BY <3>1 DEF Work
      <3>3. QED
        BY <3>1, <3>2
    <2>6. QED
      BY <1>1, <2>1, <2>2, <2>3, <2>4, <2>5
  <1>3. task'[t] = l /\ Become(t, task'[t])
    BY <1>2, BecomeFlow DEF Begin
  <1>4. Starts(t) /\ task[t].step = "idle" /\ UNCHANGED ops
    BY <1>2, <1>3 DEF Starts, Begin, At
  <1>5. UNCHANGED <<peopleVars, accountVars, imageVars, planVars>>
    BY <1>1 DEF BeginCreate, BeginUserDelete, BeginView, BeginQuota, BeginKeyAdd, BeginKeyDelete,
                RowsUnchanged, MachinesUnchanged, peopleVars
  <1>6. Flows(t, {"idle"}, {"provision", "init", "empty", "delete", "resize", "look", "gather",
                            "reset"})
    BY <1>2, <1>3, <1>4 DEF Flows
  <1>7. QED
    BY <1>4, <1>5, <1>6

LEMMA ImageRequestFlow ==
    ASSUME TypeInv, NEW t \in Threads, ImageRequest(t)
    PROVE  /\ Starts(t)
           /\ Flows(t, {"idle"}, {"save", "rename", "unlink", "order"})
           /\ UNCHANGED <<peopleVars, accountVars, imageVars, planVars>>
  <1>1. PICK n, m, by, i, f : /\ n \in Images
                              /\ \/ BeginRename(t, n, m) \/ BeginRootRename(t, n, m)
                                 \/ BeginImageDelete(t, n, by) \/ BeginOrder(t, i, n)
                                 \/ BeginProxyOrder(t, i, n) \/ BeginSave(t, i, n, f)
    BY DEF ImageRequest
  <1>2. PICK op, l : /\ Begin(t, op, l) /\ op # "view"
                      /\ l.step \in {"save", "rename", "unlink", "order"}
    BY <1>1 DEF BeginRename, BeginRootRename, BeginImageDelete, BeginOrder, BeginProxyOrder,
                BeginSave, Act
  <1>3. QED
    BY <1>1, <1>2, BecomeFlow
       DEF Begin, Starts, Flows, At, BeginRename, BeginRootRename, BeginImageDelete, BeginOrder,
           BeginProxyOrder, BeginSave

LEMMA PlanRequestFlow ==
    ASSUME TypeInv, NEW t \in Threads, PlanRequest(t)
    PROVE  /\ Starts(t)
           /\ Flows(t, {"idle"}, {"idle", "flip", "unplan", "ask", "charge"})
           /\ UNCHANGED <<peopleVars, accountVars, imageVars, booked>>
  <1>1. PICK p, n, a, r : \/ AddPlan(t, p) \/ BeginPlanToggle(t, p) \/ BeginPlanDelete(t, p)
                          \/ r \in Rows /\ BeginRebook(t, r)
                          \/ BeginBook(t, n, p, a, r) \/ BeginProxyBook(t, n, p, a, r)
    BY DEF PlanRequest
  <1>2. PICK op, l : /\ Begin(t, op, l) /\ op # "view"
                      /\ l.step \in {"idle", "flip", "unplan", "ask", "charge"}
    <2>1. CASE r \in Rows /\ BeginRebook(t, r)
      <3>1. PICK b : /\ b = Booked(booked[r].user, booked[r].plan, booked[r].account, r, TRUE)
                     /\ \/ Begin(t, "book", b)
                        \/ Begin(t, "book", [b EXCEPT !.step = "charge"])
        BY <2>1 DEF BeginRebook
      <3>2. b.step = "ask" /\ [b EXCEPT !.step = "charge"].step = "charge"
        BY <3>1 DEF Booked
      <3>3. QED
        BY <3>1, <3>2
    <2>2. CASE ~(r \in Rows /\ BeginRebook(t, r))
      BY <1>1, <2>2 DEF AddPlan, BeginPlanToggle, BeginPlanDelete, BeginBook, BeginProxyBook,
                        Booked, Idle
    <2>3. QED
      BY <2>1, <2>2
  <1>3. task'[t] = l /\ Become(t, task'[t])
    BY <1>2, BecomeFlow DEF Begin
  <1>4. Starts(t) /\ task[t].step = "idle" /\ UNCHANGED ops
    BY <1>2, <1>3 DEF Starts, Begin, At
  <1>5. UNCHANGED <<peopleVars, accountVars, imageVars, booked>>
    BY <1>1 DEF AddPlan, BeginPlanToggle, BeginPlanDelete, BeginRebook, BeginBook, BeginProxyBook,
                PeopleUnchanged, planVars
  <1>6. Flows(t, {"idle"}, {"idle", "flip", "unplan", "ask", "charge"})
    BY <1>2, <1>3, <1>4 DEF Flows
  <1>7. QED
    BY <1>4, <1>5, <1>6

-----------------------------------------------------------------------------
(* A row and its account.  An addition ends with its account in Slurm or   *)
(* with its row gone, a deletion with its row gone; until then the request *)
(* answers for the row.                                                    *)
InKind(l) ==
    /\ l.step \in AddSteps => /\ l.op # "account-delete"
                              /\ l.op = "account-add" => l.old = None
    /\ l.step \in DeleteSteps => l.op = "account-delete"

Answers(l, a) ==
    \/ /\ l.step \in {"payload", "ensure", "undo"}
       /\ l.acct = a /\ l.op = "account-add"
       /\ l.step = "ensure" => a \in l.ensure
    \/ l.step \in {"dropqos", "unrow"} /\ l.acct = a

BackedInv ==
    /\ \A t \in Threads : InKind(task[t])
    /\ "half" \notin ops =>
         \A a \in Accounts : \/ acctRow[a] = None \/ a \in slurm
                             \/ \E t \in Threads : Answers(task[t], a)

(* One thread moves on: for every row it no longer answers for, the        *)
(* account is there or the row is not.                                     *)
LEMMA BackedMove ==
    ASSUME TypeInv, BackedInv, NEW t \in Threads, NEW l, Become(t, l), UNCHANGED ops, InKind(l),
           "half" \notin ops =>
             \A a \in Accounts :
                \/ acctRow'[a] = None \/ a \in slurm' \/ Answers(l, a)
                \/ acctRow[a] # None /\ a \notin slurm /\ ~Answers(task[t], a)
    PROVE  BackedInv'
  <1>1. task'[t] = l /\ \A s \in Threads \ {t} : task'[s] = task[s]
    BY BecomeFlow
  <1>2. \A s \in Threads : InKind(task'[s])
    BY <1>1 DEF BackedInv
  <1>3. ASSUME "half" \notin ops, NEW a \in Accounts
        PROVE  \/ acctRow'[a] = None \/ a \in slurm'
               \/ \E s \in Threads : Answers(task'[s], a)
    <2>1. CASE acctRow'[a] = None \/ a \in slurm' \/ Answers(l, a)
      BY <1>1, <2>1
    <2>2. CASE acctRow[a] # None /\ a \notin slurm /\ ~Answers(task[t], a)
      <3>1. PICK s \in Threads : Answers(task[s], a)
        BY <1>3, <2>2 DEF BackedInv
      <3>2. QED
        BY <1>1, <2>2, <3>1
    <2>3. QED
      BY <1>3, <2>1, <2>2
  <1>4. QED
    BY <1>2, <1>3 DEF BackedInv, InKind, Answers

(* ... when it is none of those that change accounts.                      *)
LEMMA BackedElsewhere ==
    ASSUME TypeInv, BackedInv, NEW t \in Threads, NEW from, NEW to, Flows(t, from, to),
           from \cap ChangeSteps = {}, to \cap ChangeSteps = {},
           UNCHANGED acctRow, slurm \subseteq slurm'
    PROVE  BackedInv'
  <1>1. task[t].step \notin ChangeSteps /\ task'[t].step \notin ChangeSteps
    BY DEF Flows
  <1>2. PICK l : l = task'[t]
    OBVIOUS
  <1>3. Become(t, l) /\ UNCHANGED ops /\ InKind(l)
    BY <1>1, <1>2 DEF Flows, InKind, AddSteps, DeleteSteps, ChangeSteps
  <1>4. \A a \in Accounts : ~Answers(task[t], a)
    BY <1>1 DEF Answers, ChangeSteps
  <1>5. QED
    BY <1>3, <1>4, BackedMove

LEMMA BackedBegin ==
    ASSUME TypeInv, BackedInv, NEW t \in Threads, AccountRequest(t)
    PROVE  BackedInv'
  <1>1. UNCHANGED accountVars /\ task[t].step = "idle"
    BY AccountRequestFlow DEF Flows
  <1>2. PICK a, v, u, d : /\ a \in Accounts
                          /\ \/ BeginAccountAdd(t, a, v) \/ BeginAccountEdit(t, a, v)
                             \/ BeginAccountDelete(t, a) \/ BeginJoin(t, a, u, d)
                             \/ BeginLeave(t, a, u)
    BY DEF AccountRequest
  <1>3. PICK l : Become(t, l) /\ UNCHANGED ops /\ InKind(l)
    <2>1. CASE BeginAccountEdit(t, a, v)
      <3>1. PICK c, o : /\ c = Change("update", "account-edit", a, v)
                        /\ Begin(t, "account-edit", [c EXCEPT !.old = o])
        BY <2>1 DEF BeginAccountEdit
      <3>2. InKind([c EXCEPT !.old = o])
        BY <3>1 DEF Change, InKind, AddSteps, DeleteSteps
      <3>3. QED
        BY <3>1, <3>2 DEF Begin
    <2>2. CASE ~BeginAccountEdit(t, a, v)
      BY <1>2, <2>2
         DEF BeginAccountAdd, BeginAccountDelete, BeginJoin, BeginLeave, Begin, Change,
             MemberChange, InKind, AddSteps, DeleteSteps
    <2>3. QED
      BY <2>1, <2>2
  <1>4. \A b \in Accounts : ~Answers(task[t], b)
    BY <1>1 DEF Answers
  <1>5. QED
    BY <1>1, <1>3, <1>4, BackedMove DEF accountVars

LEMMA BackedChange ==
    ASSUME TypeInv, BackedInv, NEW t \in Threads,
           \/ WriteRow(t) \/ ReadRows(t) \/ SyncRead(t) \/ SyncReturns(t) \/ SyncFails(t)
           \/ \E a \in Accounts : SyncEnsure(t, a) \/ SyncApply(t, a)
           \/ Undo(t)
    PROVE  BackedInv'
  <1>1. PICK m \in ChangeLocals : m = task[t] /\ m.step \in AddSteps /\ InKind(m)
    BY TaskTyped, Kinds
       DEF BackedInv, WriteRow, ReadRows, SyncRead, SyncReturns, SyncFails, SyncEnsure, SyncApply,
           Undo, At, ChangeSteps, AddSteps
  <1>2. UNCHANGED ops /\ InKind(Idle)
    BY DEF WriteRow, ReadRows, SyncRead, SyncReturns, SyncFails, SyncEnsure, SyncApply,
           Undo, InKind, Idle, AddSteps, DeleteSteps
  <1>3. acctRow \in [Accounts -> Settings \cup {None}]
    BY SameTypes DEF AccountsTypeOK
  <1>4. CASE WriteRow(t)
    <2>1. m.step = "update" /\ UNCHANGED slurm /\ \A a \in Accounts : ~Answers(m, a)
      BY <1>1, <1>4 DEF WriteRow, At, Answers
    <2>2. CASE Finish(t) /\ UNCHANGED acctRow
      BY <1>1, <1>2, <2>1, <2>2, BackedMove DEF Finish
    <2>3. CASE ~(Finish(t) /\ UNCHANGED acctRow)
      <3>1. PICK l : l = [m EXCEPT !.step = "payload"] /\ Become(t, l)
        BY <1>1, <1>4, <2>3 DEF WriteRow, Goto
      <3>2. l.step = "payload" /\ l.acct = m.acct /\ l.op = m.op /\ l.old = m.old
        BY <1>1, <3>1 DEF ChangeLocals
      <3>3. InKind(l)
        BY <1>1, <3>2 DEF InKind, AddSteps, DeleteSteps
      <3>4. ASSUME NEW a \in Accounts, acctRow'[a] # None, acctRow[a] = None
            PROVE  Answers(l, a)
        <4>1. a = m.acct /\ m.op = "account-add"
          BY <1>1, <1>3, <1>4, <2>3, <3>4 DEF WriteRow
        <4>2. QED
          BY <3>2, <4>1 DEF Answers
      <3>5. QED
        BY <1>1, <1>2, <2>1, <3>1, <3>3, <3>4, BackedMove
    <2>4. QED
      BY <2>2, <2>3
  <1>5. CASE ReadRows(t)
    <2>1. PICK l : /\ Become(t, l)
                   /\ l = [m EXCEPT !.step = "ensure", !.sent = acctRow,
                                    !.ensure = {a \in Accounts : acctRow[a] # None}]
      BY <1>1, <1>5 DEF ReadRows
    <2>2. /\ l.step = "ensure" /\ l.acct = m.acct /\ l.op = m.op /\ l.old = m.old
          /\ l.ensure = {a \in Accounts : acctRow[a] # None}
      BY <1>1, <2>1 DEF ChangeLocals
    <2>3. InKind(l)
      BY <1>1, <2>2 DEF InKind, AddSteps, DeleteSteps
    <2>4. \A a \in Accounts : acctRow[a] # None /\ Answers(m, a) => Answers(l, a)
      BY <1>1, <1>5, <2>2 DEF Answers, ReadRows, At
    <2>5. UNCHANGED <<acctRow, slurm>>
      BY <1>5 DEF ReadRows, accountVars
    <2>6. QED
      BY <1>1, <1>2, <2>1, <2>3, <2>4, <2>5, BackedMove
  <1>6. ASSUME NEW b \in Accounts, SyncEnsure(t, b) PROVE BackedInv'
    <2>1. PICK l : Become(t, l) /\ l = [m EXCEPT !.ensure = m.ensure \ {b}]
      BY <1>1, <1>6 DEF SyncEnsure
    <2>2. /\ l.step = m.step /\ l.acct = m.acct /\ l.op = m.op /\ l.old = m.old
          /\ l.ensure = m.ensure \ {b}
      BY <1>1, <2>1 DEF ChangeLocals
    <2>3. InKind(l)
      BY <1>1, <2>2 DEF InKind
    <2>4. \A a \in Accounts : Answers(m, a) => Answers(l, a) \/ a = b
      BY <2>2 DEF Answers
    <2>5. UNCHANGED acctRow /\ slurm' = slurm \cup {b}
      BY <1>6 DEF SyncEnsure, EnsureAccount
    <2>6. QED
      BY <1>1, <1>2, <2>1, <2>3, <2>4, <2>5, BackedMove
  <1>7. CASE SyncRead(t)
    <2>1. PICK l, d : Become(t, l) /\ l = [m EXCEPT !.step = "apply", !.todo = d]
      BY <1>1, <1>7 DEF SyncRead
    <2>2. l.step = "apply" /\ l.op = m.op /\ l.old = m.old
      BY <1>1, <2>1 DEF ChangeLocals
    <2>3. InKind(l)
      BY <1>1, <2>2 DEF InKind, AddSteps, DeleteSteps
    <2>4. \A a \in Accounts : ~Answers(m, a)
      BY <1>1, <1>7 DEF Answers, SyncRead, At
    <2>5. UNCHANGED <<acctRow, slurm>>
      BY <1>7 DEF SyncRead, accountVars
    <2>6. QED
      BY <1>1, <1>2, <2>1, <2>3, <2>4, <2>5, BackedMove
  <1>8. ASSUME NEW b \in Accounts, SyncApply(t, b) PROVE BackedInv'
    <2>1. UNCHANGED <<acctRow, slurm>> /\ m.step = "apply"
      BY <1>1, <1>8 DEF SyncApply, At
    <2>2. \A a \in Accounts : ~Answers(m, a)
      BY <2>1 DEF Answers
    <2>3. PICK l : /\ Become(t, l)
                   /\ l \in {[m EXCEPT !.step = "undo"], [m EXCEPT !.todo[b] = None]}
      BY <1>1, <1>8 DEF SyncApply, Goto
    <2>4. l.step \in {"apply", "undo"} /\ l.op = m.op /\ l.old = m.old
      BY <1>1, <2>1, <2>3 DEF ChangeLocals
    <2>5. InKind(l)
      BY <1>1, <2>4 DEF InKind, AddSteps, DeleteSteps
    <2>6. QED
      BY <1>1, <1>2, <2>1, <2>2, <2>3, <2>5, BackedMove
  <1>9. CASE SyncReturns(t)
    <2>1. UNCHANGED <<acctRow, slurm>> /\ m.step = "apply"
      BY <1>1, <1>9 DEF SyncReturns, At, accountVars
    <2>2. \A a \in Accounts : ~Answers(m, a)
      BY <2>1 DEF Answers
    <2>3. QED
      BY <1>1, <1>2, <1>9, <2>1, <2>2, BackedMove DEF SyncReturns, Finish
  <1>10. CASE SyncFails(t)
    <2>1. UNCHANGED <<acctRow, slurm>> /\ m.step \in {"ensure", "apply"}
      BY <1>1, <1>10 DEF SyncFails, At, accountVars
    <2>2. PICK l : Become(t, l) /\ l = [m EXCEPT !.step = "undo"]
      BY <1>1, <1>10 DEF SyncFails, Goto
    <2>3. l.step = "undo" /\ l.op = m.op /\ l.old = m.old /\ l.acct = m.acct
      BY <1>1, <2>2 DEF ChangeLocals
    <2>4. InKind(l)
      BY <1>1, <2>3 DEF InKind, AddSteps, DeleteSteps
    <2>5. \A a \in Accounts : Answers(m, a) => Answers(l, a)
      BY <2>1, <2>3 DEF Answers
    <2>6. QED
      BY <1>1, <1>2, <2>1, <2>2, <2>4, <2>5, BackedMove
  <1>11. CASE Undo(t)
    <2>1. m.step = "undo" /\ UNCHANGED slurm
      BY <1>1, <1>11 DEF Undo, At
    <2>2. ASSUME NEW a \in Accounts, acctRow'[a] # None
          PROVE  acctRow[a] # None /\ ~Answers(m, a)
      <3>1. acctRow' \in {acctRow, [acctRow EXCEPT ![m.acct] = m.old]}
        BY <1>1, <1>11 DEF Undo
      <3>2. m.op = "account-add" => acctRow' = [acctRow EXCEPT ![m.acct] = None]
        BY <1>1, <1>11, <2>1 DEF Undo, InKind, AddSteps
      <3>3. m.op # "account-add" /\ acctRow[m.acct] = None => acctRow' = acctRow
        BY <1>1, <1>11 DEF Undo
      <3>4. m.acct \in Accounts
        BY <1>1 DEF ChangeLocals
      <3>5. CASE m.op = "account-add"
        BY <1>3, <2>1, <2>2, <3>2, <3>4, <3>5 DEF Answers
      <3>6. CASE m.op # "account-add"
        BY <1>3, <2>1, <2>2, <3>1, <3>3, <3>4, <3>6 DEF Answers
      <3>7. QED
        BY <3>5, <3>6
    <2>3. QED
      BY <1>1, <1>2, <1>11, <2>1, <2>2, BackedMove DEF Undo, Finish
  <1>12. QED
    BY <1>4, <1>5, <1>6, <1>7, <1>8, <1>9, <1>10, <1>11

LEMMA BackedDelete ==
    ASSUME TypeInv, BackedInv, NEW t \in Threads,
           CheckDelete(t) \/ DropAccount(t) \/ DropQos(t) \/ DeleteFails(t) \/ DeleteRow(t)
    PROVE  BackedInv'
  <1>1. PICK m \in ChangeLocals : m = task[t] /\ m.step \in DeleteSteps /\ InKind(m)
    BY TaskTyped, Kinds
       DEF BackedInv, CheckDelete, DropAccount, DropQos, DeleteFails, DeleteRow, At, ChangeSteps,
           DeleteSteps
  <1>2. UNCHANGED ops /\ InKind(Idle)
    BY DEF CheckDelete, DropAccount, DropQos, DeleteFails, DeleteRow, InKind, Idle, AddSteps,
           DeleteSteps
  <1>3. ASSUME NEW s \in DeleteSteps
        PROVE  /\ InKind([m EXCEPT !.step = s])
               /\ [m EXCEPT !.step = s].step = s /\ [m EXCEPT !.step = s].acct = m.acct
    <2>1. PICK l : l = [m EXCEPT !.step = s]
      OBVIOUS
    <2>2. l.step = s /\ l.acct = m.acct /\ l.op = m.op
      BY <1>1, <2>1 DEF ChangeLocals
    <2>3. InKind(l)
      BY <1>1, <2>2 DEF InKind, AddSteps, DeleteSteps
    <2>4. QED
      BY <2>1, <2>2, <2>3
  <1>4. CASE CheckDelete(t)
    <2>1. UNCHANGED <<acctRow, slurm>> /\ m.step = "check"
      BY <1>1, <1>4 DEF CheckDelete, At, accountVars
    <2>2. \A a \in Accounts : ~Answers(m, a)
      BY <2>1 DEF Answers
    <2>3. PICK l : Become(t, l) /\ InKind(l)
      BY <1>1, <1>2, <1>3, <1>4 DEF CheckDelete, Goto, Finish, DeleteSteps
    <2>4. QED
      BY <1>1, <1>2, <2>1, <2>2, <2>3, BackedMove
  <1>5. CASE DropAccount(t)
    <2>1. UNCHANGED acctRow /\ slurm' = slurm \ {m.acct} /\ m.step = "drop"
      BY <1>1, <1>5 DEF DropAccount, At
    <2>2. PICK l : Become(t, l) /\ InKind(l) /\ l.step = "dropqos" /\ l.acct = m.acct
      BY <1>1, <1>3, <1>5 DEF DropAccount, Goto, DeleteSteps
    <2>3. (\A a \in Accounts : ~Answers(m, a)) /\ Answers(l, m.acct)
      BY <2>1, <2>2 DEF Answers
    <2>4. QED
      BY <1>1, <1>2, <2>1, <2>2, <2>3, BackedMove
  <1>6. CASE DropQos(t)
    <2>1. UNCHANGED <<acctRow, slurm>> /\ m.step = "dropqos"
      BY <1>1, <1>6 DEF DropQos, At
    <2>2. PICK l : Become(t, l) /\ InKind(l) /\ l.step = "unrow" /\ l.acct = m.acct
      BY <1>1, <1>3, <1>6 DEF DropQos, Goto, DeleteSteps
    <2>3. \A a \in Accounts : Answers(m, a) => Answers(l, a)
      BY <2>1, <2>2 DEF Answers
    <2>4. QED
      BY <1>1, <1>2, <2>1, <2>2, <2>3, BackedMove
  <1>7. CASE DeleteFails(t)
    BY <1>2, <1>7, BackedMove DEF DeleteFails, Finish
  <1>8. CASE DeleteRow(t)
    <2>1. UNCHANGED slurm /\ m.step = "unrow" /\ acctRow' = [acctRow EXCEPT ![m.acct] = None]
      BY <1>1, <1>8 DEF DeleteRow, At
    <2>2. \A a \in Accounts : acctRow'[a] = None \/ (acctRow'[a] = acctRow[a] /\ a # m.acct)
      BY <2>1, SameTypes DEF AccountsTypeOK
    <2>3. \A a \in Accounts : Answers(m, a) => a = m.acct
      BY <2>1 DEF Answers
    <2>4. QED
      BY <1>1, <1>2, <1>8, <2>1, <2>2, <2>3, BackedMove DEF DeleteRow, Finish
  <1>9. QED
    BY <1>4, <1>5, <1>6, <1>7, <1>8

LEMMA BackedStep ==
    ASSUME TypeInv, BackedInv, [Next]_deskAll PROVE BackedInv'
  <1>1. ASSUME NEW t \in Threads, AccountRequest(t) \/ AccountStep(t) PROVE BackedInv'
    <2>1. ASSUME CheckJoin(t) \/ Join(t) \/ MakeDefault(t) \/ CheckLeave(t) \/ Leave(t)
          PROVE  BackedInv'
      <3>1. Flows(t, MemberSteps, MemberSteps \cup {"idle"})
        BY <2>1, FinishFlow, GotoFlow
           DEF CheckJoin, Join, MakeDefault, CheckLeave, Leave, At, Flows, MemberSteps
      <3>2. UNCHANGED acctRow /\ slurm \subseteq slurm'
        BY <2>1 DEF CheckJoin, Join, MakeDefault, CheckLeave, Leave, accountVars, EnsureAccount
      <3>3. QED
        BY <3>1, <3>2, BackedElsewhere DEF MemberSteps, ChangeSteps
    <2>2. QED
      BY <1>1, <2>1, BackedBegin, BackedChange, BackedDelete DEF AccountStep
  <1>2. ASSUME NEW t \in Threads, UserRequest(t) PROVE BackedInv'
    BY <1>2, UserRequestFlow, BackedElsewhere DEF accountVars, ChangeSteps
  <1>3. ASSUME NEW t \in Threads, UserStep(t) PROVE BackedInv'
    <2>1. slurm \subseteq slurm'
      BY <1>3 DEF UserStep, HelperFails, ReplyLost, Provision, Spread, InitLogin, Limit,
           InsertUser, EmptyNodes, RemoveLogin, DeleteUserRow, Resize, RecordQuota, Look, Note,
           Gather, Merge, WriteKeys, KeepKey, RewriteKeys, StrikeKey, SetQuota, GetKeys, SetKeys,
           MachinesUnchanged, accountVars, EnsureAccount
    <2>2. QED
      BY <1>3, <2>1, UserFlow, BackedElsewhere DEF UserSteps, ChangeSteps
  <1>4. ASSUME NEW t \in Threads, ImageRequest(t) PROVE BackedInv'
    BY <1>4, ImageRequestFlow, BackedElsewhere DEF accountVars, ChangeSteps
  <1>5. ASSUME NEW t \in Threads, ImageStep(t) PROVE BackedInv'
    BY <1>5, ImageFlow, BackedElsewhere DEF accountVars, ImageSteps, SaveSteps, ChangeSteps
  <1>6. ASSUME NEW t \in Threads, PlanRequest(t) PROVE BackedInv'
    BY <1>6, PlanRequestFlow, BackedElsewhere DEF accountVars, ChangeSteps
  <1>7. ASSUME NEW t \in Threads, PlanStep(t) PROVE BackedInv'
    <2>1. slurm \subseteq slurm'
      BY <1>7 DEF PlanStep, FlipPlan, DropPlan, AskAccounts, AskFails, AskRaw, AskRawFails,
           ChargeNamed, ChargeDefault, ChargeFails, Book, OnlyTaskChanges, accountVars,
           EnsureAccount
    <2>2. QED
      BY <1>7, <2>1, PlanFlow, BackedElsewhere DEF PlanSteps, BookSteps, ChangeSteps
  <1>8. ASSUME Outside \/ Jobs \/ (\E r \in Rows : Discard(r)) \/ UNCHANGED deskAll
        PROVE  BackedInv'
    <2>1. UNCHANGED <<ops, task, acctRow, slurm>>
      BY <1>8 DEF Outside, Jobs, OwnEdit, ByHand, JobStart, JobEnd, Discard, deskAll, deskVars,
                  accountVars
    <2>2. QED
      BY <2>1 DEF BackedInv, InKind, Answers
  <1>9. QED
    BY <1>1, <1>2, <1>3, <1>4, <1>5, <1>6, <1>7, <1>8 DEF Next

(* A row of the portal has its account in Slurm unless a request is about  *)
(* to give it one or to remove it, however the additions, edits, deletions *)
(* and the failures of the helper overlap.                                 *)
THEOREM RowBackedCorrect == TenantsSpec => []RowBacked
  <1>1. ASSUME Init PROVE BackedInv
    BY <1>1, AccountsAssumption
       DEF Init, DeskInit, AccountsInit, Idle, Nothing, BackedInv, InKind, AddSteps, DeleteSteps
  <1>2. TypeInv /\ BackedInv /\ [Next]_deskAll => BackedInv'
    BY BackedStep
  <1>3. TypeInv /\ BackedInv => RowBacked
    BY DEF BackedInv, RowBacked, Answers, InKind, Changing, AddSteps, DeleteSteps, ChangeSteps
  <1>4. QED
    BY <1>1, <1>2, <1>3, TypesCorrect, PTL DEF TenantsSpec
-----------------------------------------------------------------------------
(* Requests that are sent one by one: one handler at work, besides saves   *)
(* in the background or pages that are looked at.                          *)
Apart(quiet) == \A s, t \in Threads : s # t => task[s].step \in quiet \/ task[t].step \in quiet

SingleInv ==
    /\ "serial" \in ops => Apart(SaveSteps)
    /\ "turns" \in ops => Apart(ViewSteps)

LEMMA ApartMove ==
    ASSUME TypeInv, NEW quiet, Apart(quiet), NEW t \in Threads, Become(t, task'[t]),
           \/ task[t].step \notin quiet \/ task'[t].step \in quiet
           \/ Others(t, quiet)
    PROVE  Apart(quiet)'
  <1>1. \A s \in Threads \ {t} : task'[s] = task[s]
    BY BecomeFlow
  <1>2. CASE task'[t].step \in quiet
    BY <1>1, <1>2 DEF Apart
  <1>3. CASE task[t].step \notin quiet \/ Others(t, quiet)
    <2>1. \A s \in Threads \ {t} : task[s].step \in quiet
      BY <1>3 DEF Apart, Others
    <2>2. QED
      BY <1>1, <2>1 DEF Apart
  <1>4. QED
    BY <1>2, <1>3

(* Whoever is quiet stays so until it has done.                            *)
LEMMA SingleMove ==
    ASSUME TypeInv, SingleInv, NEW t \in Threads, Become(t, task'[t]), UNCHANGED ops,
           task[t].step \in SaveSteps => task'[t].step \in SaveSteps,
           task[t].step \in ViewSteps => task'[t].step \in ViewSteps
    PROVE  SingleInv'
  <1>1. "serial" \in ops => Apart(SaveSteps)'
    BY ApartMove DEF SingleInv
  <1>2. "turns" \in ops => Apart(ViewSteps)'
    BY ApartMove DEF SingleInv
  <1>3. QED
    BY <1>1, <1>2 DEF SingleInv, Apart

LEMMA SingleStarts ==
    ASSUME TypeInv, SingleInv, NEW t \in Threads, Starts(t)
    PROVE  SingleInv'
  <1>1. PICK op : Begin(t, op, task'[t]) /\ (op = "view" => task'[t].step = "look")
    BY DEF Starts
  <1>2. "serial" \in ops => Apart(SaveSteps)'
    BY <1>1, ApartMove DEF Begin, SingleInv
  <1>3. "turns" \in ops => Apart(ViewSteps)'
    BY <1>1, ApartMove DEF Begin, SingleInv, ViewSteps
  <1>4. UNCHANGED ops
    BY <1>1 DEF Begin
  <1>5. QED
    BY <1>2, <1>3, <1>4 DEF SingleInv, Apart

LEMMA SingleStep ==
    ASSUME TypeInv, SingleInv, [Next]_deskAll PROVE SingleInv'
  <1>1. ASSUME NEW t \in Threads, \/ AccountRequest(t) \/ UserRequest(t) \/ ImageRequest(t)
                                  \/ PlanRequest(t)
        PROVE  SingleInv'
    BY <1>1, AccountRequestFlow, UserRequestFlow, ImageRequestFlow, PlanRequestFlow, SingleStarts
  <1>2. ASSUME NEW t \in Threads, AccountStep(t) PROVE SingleInv'
    BY <1>2, AccountFlow, SingleMove
       DEF Flows, AddSteps, DeleteSteps, MemberSteps, SaveSteps, ViewSteps
  <1>3. ASSUME NEW t \in Threads, UserStep(t) PROVE SingleInv'
    <2>1. Flows(t, UserSteps, UserSteps \cup {"idle"})
      BY <1>3, UserFlow
    <2>2. ASSUME task[t].step \in ViewSteps PROVE task'[t].step \in ViewSteps
      <3>1. task[t].step \in {"look", "note"}
        BY <2>1, <2>2 DEF Flows, UserSteps, ViewSteps
      <3>2. HelperFails(t) \/ Look(t) \/ Note(t)
        BY <1>3, <3>1
           DEF UserStep, ReplyLost, Provision, Spread, InitLogin, Limit, InsertUser, EmptyNodes,
               RemoveLogin, DeleteUserRow, Resize, RecordQuota, Gather, Merge, WriteKeys, KeepKey,
               RewriteKeys, StrikeKey, SetQuota, GetKeys, SetKeys, At
      <3>3. CASE Finish(t)
        BY <3>3, FinishFlow DEF ViewSteps
      <3>4. CASE ~Finish(t)
        <4>1. PICK m \in UserLocals : m = task[t]
          BY <3>1, TaskTyped, Kinds DEF UserSteps
        <4>2. PICK ks : Become(t, [m EXCEPT !.step = "note", !.keys = ks])
          BY <3>2, <3>4, <4>1 DEF HelperFails, Look, Note, GetKeys
        <4>3. [m EXCEPT !.step = "note", !.keys = ks].step = "note"
          BY <4>1 DEF UserLocals
        <4>4. QED
          BY <4>2, <4>3, BecomeFlow DEF ViewSteps
      <3>5. QED
        BY <3>3, <3>4
    <2>3. task[t].step \notin SaveSteps
      BY <2>1 DEF Flows, UserSteps, SaveSteps
    <2>4. QED
      BY <2>1, <2>2, <2>3, SingleMove DEF Flows
  <1>4. ASSUME NEW t \in Threads, ImageStep(t) PROVE SingleInv'
    BY <1>4, ImageFlow, SingleMove DEF Flows, ImageSteps, SaveSteps, ViewSteps
  <1>5. ASSUME NEW t \in Threads, PlanStep(t) PROVE SingleInv'
    BY <1>5, PlanFlow, SingleMove DEF Flows, PlanSteps, BookSteps, SaveSteps, ViewSteps
  <1>6. ASSUME Outside \/ Jobs \/ (\E r \in Rows : Discard(r)) \/ UNCHANGED deskAll
        PROVE  SingleInv'
    BY <1>6 DEF Outside, Jobs, OwnEdit, ByHand, JobStart, JobEnd, Discard, deskAll, deskVars,
                SingleInv, Apart
  <1>7. QED
    BY <1>1, <1>2, <1>3, <1>4, <1>5, <1>6 DEF Next

LEMMA SingleCorrect == TenantsSpec => []SingleInv
  <1>1. Init => SingleInv
    BY DEF Init, DeskInit, Idle, SingleInv, Apart, SaveSteps, ViewSteps
  <1>2. TypeInv /\ SingleInv /\ [Next]_deskAll => SingleInv'
    BY SingleStep
  <1>3. QED
    BY <1>1, <1>2, TypesCorrect, PTL DEF TenantsSpec
-----------------------------------------------------------------------------
(* Default accounts                                                        *)

Calm == {"serial", "turns"} \cap ops # {}
Quiet == SaveSteps \cup ViewSteps

(* When requests are sent one by one nobody works beside a handler that    *)
(* works.                                                                  *)
LEMMA Alone ==
    ASSUME SingleInv, Calm, NEW t \in Threads, task[t].step \notin Quiet,
           NEW s \in Threads \ {t}
    PROVE  task[s].step \in Quiet
  BY DEF SingleInv, Apart, Calm, Quiet

HasDefault(u) == IF member[u] = {} THEN default[u] = None ELSE default[u] \in member[u]

(* What has been looked up before an account is removed or left still      *)
(* holds.                                                                  *)
Leavable(l) ==
    /\ l.step = "drop" => \A u \in Names : l.acct \notin member[u]
    /\ l.step = "disjoin" => MayLeave(l.user, l.acct)

DefaultInv ==
    Calm => /\ \A u \in Names : HasDefault(u)
            /\ \A t \in Threads : Leavable(task[t])

(* A step that changes nobody's accounts.                                  *)
LEMMA DefaultSame ==
    ASSUME TypeInv, DefaultInv, UNCHANGED <<ops, member, default>>,
           NEW t \in Threads, Become(t, task'[t]), Calm => Leavable(task'[t])
    PROVE  DefaultInv'
  <1>1. \A s \in Threads \ {t} : task'[s] = task[s]
    BY BecomeFlow
  <1>2. ASSUME Calm, NEW s \in Threads PROVE Leavable(task'[s])
    BY <1>1, <1>2 DEF DefaultInv
  <1>3. ASSUME Calm, NEW s \in Threads PROVE Leavable(task[s])'
    BY <1>2, <1>3 DEF Leavable, MayLeave
  <1>4. Calm' = Calm /\ \A u \in Names : HasDefault(u)' = HasDefault(u)
    BY DEF Calm, HasDefault
  <1>5. QED
    BY <1>3, <1>4 DEF DefaultInv

(* A step of a handler that works and changes them.                        *)
LEMMA DefaultChange ==
    ASSUME TypeInv, SingleInv, DefaultInv, UNCHANGED ops,
           NEW t \in Threads, Become(t, task'[t]), task[t].step \notin Quiet,
           task'[t].step \notin {"drop", "disjoin"},
           Calm => \A u \in Names : HasDefault(u)'
    PROVE  DefaultInv'
  <1>1. \A s \in Threads \ {t} : task'[s] = task[s]
    BY BecomeFlow
  <1>2. ASSUME Calm, NEW s \in Threads PROVE task'[s].step \notin {"drop", "disjoin"}
    <2>1. CASE s = t
      BY <2>1
    <2>2. CASE s # t
      BY <1>1, <1>2, <2>2, Alone DEF Quiet, SaveSteps, ViewSteps
    <2>3. QED
      BY <2>1, <2>2
  <1>3. Calm' = Calm
    BY DEF Calm
  <1>4. QED
    BY <1>2, <1>3 DEF DefaultInv, Leavable

LEMMA DefaultQuiet ==
    ASSUME TypeInv, DefaultInv, UNCHANGED <<member, default>>,
           NEW t \in Threads, NEW from, NEW to, Flows(t, from, to),
           "drop" \notin to, "disjoin" \notin to
    PROVE  DefaultInv'
  BY DefaultSame DEF Flows, Leavable

(* The accounts of a user after one of the changes.                        *)
LEMMA DefaultAccounts ==
    ASSUME TypeInv, NEW n \in Names, NEW a \in Accounts, \A u \in Names : HasDefault(u),
           \/ /\ member' = [member EXCEPT ![n] = @ \cup {a}]
              /\ default' = [default EXCEPT ![n] = a]
           \/ Associate(n, a)
           \/ /\ member' = [member EXCEPT ![n] = {}]
              /\ default' = [default EXCEPT ![n] = None]
           \/ /\ a \in member[n] /\ UNCHANGED member
              /\ default' = [default EXCEPT ![n] = a]
           \/ /\ MayLeave(n, a)
              /\ member' = [member EXCEPT ![n] = @ \ {a}]
              /\ default' = IF member[n] \ {a} = {} THEN [default EXCEPT ![n] = None] ELSE default
    PROVE  \A u \in Names : HasDefault(u)'
  <1>1. member \in [Names -> SUBSET Accounts] /\ default \in [Names -> Accounts \cup {None}]
    BY SameTypes DEF AccountsTypeOK
  <1>2. ASSUME NEW u \in Names, u # n PROVE HasDefault(u)'
    BY <1>1, <1>2 DEF HasDefault, Associate
  <1>3. HasDefault(n)'
    <2>1. HasDefault(n)
      OBVIOUS
    <2>2. CASE /\ member' = [member EXCEPT ![n] = @ \cup {a}]
               /\ default' = [default EXCEPT ![n] = a]
      BY <1>1, <2>2 DEF HasDefault
    <2>3. CASE Associate(n, a)
      BY <1>1, <2>1, <2>3, AccountsAssumption DEF HasDefault, Associate
    <2>4. CASE /\ member' = [member EXCEPT ![n] = {}]
               /\ default' = [default EXCEPT ![n] = None]
      BY <1>1, <2>4 DEF HasDefault
    <2>5. CASE /\ a \in member[n] /\ UNCHANGED member
               /\ default' = [default EXCEPT ![n] = a]
      BY <1>1, <2>5 DEF HasDefault
    <2>6. CASE /\ MayLeave(n, a)
               /\ member' = [member EXCEPT ![n] = @ \ {a}]
               /\ default' = IF member[n] \ {a} = {} THEN [default EXCEPT ![n] = None] ELSE default
      BY <1>1, <2>1, <2>6 DEF HasDefault, MayLeave
    <2>7. QED
      BY <2>2, <2>3, <2>4, <2>5, <2>6
  <1>4. QED
    BY <1>2, <1>3
LEMMA DefaultMember ==
    ASSUME TypeInv, SingleInv, DefaultInv, NEW t \in Threads,
           CheckJoin(t) \/ Join(t) \/ MakeDefault(t) \/ CheckLeave(t) \/ Leave(t)
    PROVE  DefaultInv'
  <1>1. PICK m \in MemberLocals : m = task[t] /\ m.step \in MemberSteps
    BY TaskTyped, Kinds DEF CheckJoin, Join, MakeDefault, CheckLeave, Leave, At, MemberSteps
  <1>2. m.user \in Names /\ m.acct \in Accounts /\ m.step \notin Quiet /\ UNCHANGED ops
    BY <1>1 DEF MemberLocals, MemberSteps, Quiet, SaveSteps, ViewSteps, CheckJoin, Join,
                MakeDefault, CheckLeave, Leave
  <1>3. CASE CheckJoin(t)
    <2>1. Become(t, task'[t]) /\ task'[t].step \in {"idle", "assoc", "default"}
      BY <1>3, FinishFlow, GotoFlow DEF CheckJoin
    <2>2. UNCHANGED <<member, default>>
      BY <1>3 DEF CheckJoin, accountVars
    <2>3. QED
      BY <1>2, <2>1, <2>2, DefaultSame DEF Leavable
  <1>4. CASE CheckLeave(t)
    <2>1. Become(t, task'[t]) /\ UNCHANGED <<member, default>>
      BY <1>4, FinishFlow, GotoFlow DEF CheckLeave, accountVars
    <2>2. Leavable(task'[t])
      <3>1. CASE Finish(t)
        <4>1. task'[t].step = "idle"
          BY <3>1, FinishFlow
        <4>2. QED
          BY <4>1 DEF Leavable
      <3>2. CASE ~Finish(t)
        <4>1. MayLeave(m.user, m.acct) /\ task'[t] = [m EXCEPT !.step = "disjoin"]
          BY <1>1, <1>4, <3>2, GotoFlow DEF CheckLeave
        <4>2. task'[t].step = "disjoin" /\ task'[t].user = m.user /\ task'[t].acct = m.acct
          BY <1>1, <4>1 DEF MemberLocals
        <4>3. QED
          BY <4>1, <4>2 DEF Leavable
      <3>3. QED
        BY <3>1, <3>2
    <2>3. QED
      BY <1>2, <2>1, <2>2, DefaultSame
  <1>5. CASE Join(t)
    <2>1. Become(t, task'[t]) /\ task'[t].step \in {"idle", "default"}
      BY <1>5, FinishFlow, GotoFlow DEF Join
    <2>2. Calm => \A u \in Names : HasDefault(u)'
      BY <1>1, <1>2, <1>5, DefaultAccounts DEF Join, DefaultInv
    <2>3. QED
      BY <1>1, <1>2, <2>1, <2>2, DefaultChange
  <1>6. CASE MakeDefault(t)
    <2>1. Become(t, task'[t]) /\ task'[t].step = "idle"
      BY <1>6, FinishFlow DEF MakeDefault
    <2>2. \/ UNCHANGED <<member, default>>
          \/ /\ m.acct \in member[m.user] /\ UNCHANGED member
             /\ default' = [default EXCEPT ![m.user] = m.acct]
      BY <1>1, <1>6 DEF MakeDefault
    <2>3. CASE UNCHANGED <<member, default>>
      BY <1>2, <2>1, <2>3, DefaultSame DEF Leavable
    <2>4. CASE ~UNCHANGED <<member, default>>
      <3>1. Calm => \A u \in Names : HasDefault(u)'
        BY <1>2, <2>2, <2>4, DefaultAccounts DEF DefaultInv
      <3>2. QED
        BY <1>1, <1>2, <2>1, <3>1, DefaultChange
    <2>5. QED
      BY <2>3, <2>4
  <1>7. CASE Leave(t)
    <2>1. Become(t, task'[t]) /\ task'[t].step = "idle"
      BY <1>7, FinishFlow DEF Leave
    <2>2. /\ member' = [member EXCEPT ![m.user] = member[m.user] \ {m.acct}]
          /\ default' = IF member[m.user] \ {m.acct} = {}
                        THEN [default EXCEPT ![m.user] = None] ELSE default
      BY <1>1, <1>7 DEF Leave
    <2>3. Calm => MayLeave(m.user, m.acct)
      BY <1>1, <1>7 DEF DefaultInv, Leavable, Leave, At
    <2>4. Calm => \A u \in Names : HasDefault(u)'
      BY <1>2, <2>2, <2>3, DefaultAccounts DEF DefaultInv
    <2>5. QED
      BY <1>1, <1>2, <2>1, <2>4, DefaultChange
  <1>8. QED
    BY <1>3, <1>4, <1>5, <1>6, <1>7

LEMMA DefaultDelete ==
    ASSUME TypeInv, SingleInv, DefaultInv, NEW t \in Threads,
           CheckDelete(t) \/ DropAccount(t) \/ DropQos(t) \/ DeleteFails(t) \/ DeleteRow(t)
    PROVE  DefaultInv'
  <1>1. PICK m \in ChangeLocals : m = task[t] /\ m.step \in DeleteSteps
    BY TaskTyped, Kinds
       DEF CheckDelete, DropAccount, DropQos, DeleteFails, DeleteRow, At, ChangeSteps, DeleteSteps
  <1>2. m.acct \in Accounts /\ m.step \notin Quiet /\ UNCHANGED ops
    BY <1>1 DEF ChangeLocals, DeleteSteps, Quiet, SaveSteps, ViewSteps, CheckDelete,
                DropAccount, DropQos, DeleteFails, DeleteRow
  <1>3. CASE CheckDelete(t)
    <2>1. Become(t, task'[t]) /\ UNCHANGED <<member, default>>
      BY <1>3, FinishFlow, GotoFlow DEF CheckDelete, accountVars
    <2>2. Leavable(task'[t])
      <3>1. CASE Finish(t) \/ Goto(t, "dropqos")
        <4>1. task'[t].step \in {"idle", "dropqos"}
          BY <3>1, FinishFlow, GotoFlow
        <4>2. QED
          BY <4>1 DEF Leavable
      <3>2. CASE ~(Finish(t) \/ Goto(t, "dropqos"))
        <4>1. /\ \A u \in Names : m.acct \notin member[u]
              /\ task'[t] = [m EXCEPT !.step = "drop"]
          BY <1>1, <1>3, <3>2, GotoFlow DEF CheckDelete
        <4>2. task'[t].step = "drop" /\ task'[t].acct = m.acct
          BY <1>1, <4>1 DEF ChangeLocals
        <4>3. QED
          BY <4>1, <4>2 DEF Leavable
      <3>3. QED
        BY <3>1, <3>2
    <2>3. QED
      BY <1>2, <2>1, <2>2, DefaultSame
  <1>4. CASE DropAccount(t)
    <2>1. Become(t, task'[t]) /\ task'[t].step = "dropqos"
      BY <1>4, GotoFlow DEF DropAccount
    <2>2. ASSUME Calm, NEW u \in Names PROVE HasDefault(u)'
      <3>1. m.acct \notin member[u] /\ HasDefault(u)
        BY <1>1, <1>4, <2>2 DEF DefaultInv, Leavable, DropAccount, At
      <3>2. default[u] # m.acct
        BY <1>2, <3>1, AccountsAssumption DEF HasDefault
      <3>3. member'[u] = member[u] /\ default'[u] = default[u]
        BY <1>1, <1>4, <3>1, <3>2 DEF DropAccount
      <3>4. QED
        BY <3>1, <3>3 DEF HasDefault
    <2>3. QED
      BY <1>1, <1>2, <2>1, <2>2, DefaultChange
  <1>5. CASE DropQos(t) \/ DeleteFails(t) \/ DeleteRow(t)
    <2>1. Become(t, task'[t]) /\ task'[t].step \in {"idle", "unrow"}
      BY <1>5, FinishFlow, GotoFlow DEF DropQos, DeleteFails, DeleteRow
    <2>2. UNCHANGED <<member, default>>
      BY <1>5 DEF DropQos, DeleteFails, DeleteRow, accountVars
    <2>3. QED
      BY <1>2, <2>1, <2>2, DefaultSame DEF Leavable
  <1>6. QED
    BY <1>3, <1>4, <1>5

LEMMA DefaultUser ==
    ASSUME TypeInv, SingleInv, DefaultInv, NEW t \in Threads, UserStep(t)
    PROVE  DefaultInv'
  <1>1. Flows(t, UserSteps, UserSteps \cup {"idle"})
    BY UserFlow
  <1>2. PICK m \in UserLocals : m = task[t]
    BY <1>1, TaskTyped, Kinds DEF Flows
  <1>3. m.name \in Names
    BY <1>2 DEF UserLocals
  <1>4. CASE UNCHANGED <<member, default>>
    BY <1>1, <1>4, DefaultQuiet DEF UserSteps
  <1>5. ASSUME ~UNCHANGED <<member, default>>, Provision(t) \/ InitLogin(t) PROVE DefaultInv'
    <2>1. /\ member' = [member EXCEPT ![m.name] = @ \cup {Site}]
          /\ default' = [default EXCEPT ![m.name] = Site]
      BY <1>2, <1>5 DEF Provision, InitLogin, Enrol, Name, MachinesUnchanged, accountVars
    <2>2. Calm => \A u \in Names : HasDefault(u)'
      BY <1>3, <2>1, DefaultAccounts, AccountsAssumption DEF DefaultInv
    <2>3. task[t].step \notin Quiet
      BY <1>5 DEF Provision, InitLogin, At, Quiet, SaveSteps, ViewSteps
    <2>4. QED
      BY <1>1, <2>2, <2>3, DefaultChange DEF Flows, UserSteps
  <1>6. ASSUME RemoveLogin(t) PROVE DefaultInv'
    <2>1. /\ member' = [member EXCEPT ![m.name] = {}]
          /\ default' = [default EXCEPT ![m.name] = None]
      BY <1>2, <1>6 DEF RemoveLogin, Name
    <2>2. Calm => \A u \in Names : HasDefault(u)'
      BY <1>3, <2>1, DefaultAccounts, AccountsAssumption DEF DefaultInv
    <2>3. task[t].step \notin Quiet
      BY <1>6 DEF RemoveLogin, At, Quiet, SaveSteps, ViewSteps
    <2>4. QED
      BY <1>1, <2>2, <2>3, DefaultChange DEF Flows, UserSteps
  <1>7. \/ UNCHANGED <<member, default>>
        \/ Provision(t) \/ InitLogin(t) \/ RemoveLogin(t)
    BY DEF UserStep, HelperFails, ReplyLost, Spread, Limit, InsertUser, EmptyNodes, DeleteUserRow,
           Resize, RecordQuota, Look, Note, Gather, Merge, WriteKeys, KeepKey, RewriteKeys,
           StrikeKey, SetQuota, GetKeys, SetKeys, MachinesUnchanged, accountVars
  <1>8. QED
    BY <1>4, <1>5, <1>6, <1>7

LEMMA DefaultPlan ==
    ASSUME TypeInv, SingleInv, DefaultInv, NEW t \in Threads, PlanStep(t)
    PROVE  DefaultInv'
  <1>1. \/ Flows(t, PlanSteps, {"idle"})
        \/ Flows(t, BookSteps, BookSteps \cup {"idle"})
    BY PlanFlow
  <1>2. CASE UNCHANGED <<member, default>>
    BY <1>1, <1>2, DefaultQuiet DEF BookSteps
  <1>3. ASSUME ~UNCHANGED <<member, default>>, ChargeDefault(t) PROVE DefaultInv'
    <2>1. PICK m \in BookLocals : m = task[t]
      BY <1>3, TaskTyped, Kinds DEF ChargeDefault, At
    <2>2. m.name \in Names /\ Associate(m.name, Site)
      BY <1>3, <2>1 DEF BookLocals, ChargeDefault, accountVars
    <2>3. Calm => \A u \in Names : HasDefault(u)'
      BY <2>2, DefaultAccounts, AccountsAssumption DEF DefaultInv
    <2>4. task[t].step \notin Quiet
      BY <1>3 DEF ChargeDefault, At, Quiet, SaveSteps, ViewSteps
    <2>5. QED
      BY <1>1, <2>3, <2>4, DefaultChange DEF Flows, BookSteps
  <1>4. UNCHANGED <<member, default>> \/ ChargeDefault(t)
    BY DEF PlanStep, FlipPlan, DropPlan, AskAccounts, AskFails, AskRaw, AskRawFails, ChargeNamed,
           ChargeFails, Book, OnlyTaskChanges, accountVars
  <1>5. QED
    BY <1>2, <1>3, <1>4

LEMMA DefaultStep ==
    ASSUME TypeInv, SingleInv, DefaultInv, [Next]_deskAll PROVE DefaultInv'
  <1>1. ASSUME NEW t \in Threads, \/ AccountRequest(t) \/ UserRequest(t) \/ ImageRequest(t)
                                  \/ PlanRequest(t)
        PROVE  DefaultInv'
    BY <1>1, AccountRequestFlow, UserRequestFlow, ImageRequestFlow, PlanRequestFlow, DefaultQuiet
       DEF accountVars
  <1>2. ASSUME NEW t \in Threads, AccountStep(t) PROVE DefaultInv'
    <2>1. ASSUME \/ WriteRow(t) \/ ReadRows(t) \/ SyncRead(t) \/ SyncReturns(t) \/ SyncFails(t)
                 \/ \E a \in Accounts : SyncEnsure(t, a) \/ SyncApply(t, a)
                 \/ Undo(t)
          PROVE  DefaultInv'
      <3>1. UNCHANGED <<member, default>> /\ task[t].step \in AddSteps
        BY <2>1 DEF WriteRow, ReadRows, SyncRead, SyncReturns, SyncFails, SyncEnsure, SyncApply,
                    Undo, accountVars, At, AddSteps
      <3>2. Flows(t, AddSteps, AddSteps \cup {"idle"})
        BY <1>2, <3>1, AccountFlow DEF Flows, AddSteps, DeleteSteps, MemberSteps
      <3>3. QED
        BY <3>1, <3>2, DefaultQuiet DEF AddSteps
    <2>2. QED
      BY <1>2, <2>1, DefaultMember, DefaultDelete DEF AccountStep
  <1>3. ASSUME NEW t \in Threads, ImageStep(t) PROVE DefaultInv'
    BY <1>3, ImageFlow, DefaultQuiet DEF accountVars, ImageSteps, SaveSteps
  <1>4. ASSUME Outside \/ Jobs \/ (\E r \in Rows : Discard(r)) \/ UNCHANGED deskAll
        PROVE  DefaultInv'
    <2>1. UNCHANGED <<ops, task, member, default>>
      BY <1>4 DEF Outside, Jobs, OwnEdit, ByHand, JobStart, JobEnd, Discard, deskAll, deskVars,
                  accountVars
    <2>2. QED
      BY <2>1 DEF DefaultInv, Calm, HasDefault, Leavable, MayLeave
  <1>5. QED
    BY <1>1, <1>2, <1>3, <1>4, DefaultUser, DefaultPlan DEF Next

LEMMA DefaultsCorrect == TenantsSpec => []DefaultInv
  <1>1. ASSUME Init PROVE DefaultInv
    BY <1>1 DEF Init, DeskInit, AccountsInit, Idle, DefaultInv, HasDefault, Leavable
  <1>2. TypeInv /\ SingleInv /\ DefaultInv /\ [Next]_deskAll => DefaultInv'
    BY DefaultStep
  <1>3. QED
    BY <1>1, <1>2, TypesCorrect, SingleCorrect, PTL DEF TenantsSpec

(* When requests are sent one by one, whoever has an account in Slurm has  *)
(* a default account among his own, over additions, removals, deletions of *)
(* accounts and of users, submissions that enrol him, and their failures.  *)
THEOREM DefaultIsMemberCorrect == TenantsSpec => []DefaultIsMember
  <1>1. DefaultInv => DefaultIsMember
    BY DEF DefaultInv, DefaultIsMember, HasDefault, Calm
  <1>2. QED
    BY <1>1, DefaultsCorrect, PTL
-----------------------------------------------------------------------------
(* Plans on record                                                         *)

(* A resource that is ordered has a plan; a plan that is about to be       *)
(* deleted has no resource.                                                *)
Ordered(l) == l.step \in BookSteps /\ ~l.again => l.plan # None
Unrecorded(l) == l.step = "unplan" => Recorded(l.plan) = {}

PlanInv ==
    "serial" \in ops => /\ \A r \in Rows : booked[r] # None => booked[r].plan # None
                        /\ \A t \in Threads : Ordered(task[t]) /\ Unrecorded(task[t])

(* A step that records no resource.                                        *)
LEMMA PlanSame ==
    ASSUME TypeInv, PlanInv, UNCHANGED ops,
           \A r \in Rows : booked'[r] \in {None, booked[r]},
           NEW t \in Threads, Become(t, task'[t]),
           "serial" \in ops => Ordered(task'[t]) /\ Unrecorded(task'[t])
    PROVE  PlanInv'
  <1>1. \A s \in Threads \ {t} : task'[s] = task[s]
    BY BecomeFlow
  <1>2. ASSUME "serial" \in ops, NEW s \in Threads PROVE Ordered(task'[s]) /\ Unrecorded(task'[s])
    BY <1>1, <1>2 DEF PlanInv
  <1>3. \A p : Recorded(p) = {} => Recorded(p)' = {}
    BY DEF Recorded
  <1>4. ASSUME "serial" \in ops, NEW s \in Threads PROVE Ordered(task[s])' /\ Unrecorded(task[s])'
    BY <1>2, <1>3, <1>4 DEF Ordered, Unrecorded
  <1>5. QED
    BY <1>4 DEF PlanInv

LEMMA PlanQuiet ==
    ASSUME TypeInv, PlanInv, \A r \in Rows : booked'[r] \in {None, booked[r]},
           NEW t \in Threads, NEW from, NEW to, Flows(t, from, to), to \cap (BookSteps \cup {"unplan"}) = {}
    PROVE  PlanInv'
  <1>1. Ordered(task'[t]) /\ Unrecorded(task'[t])
    BY DEF Flows, Ordered, Unrecorded
  <1>2. QED
    BY <1>1, PlanSame DEF Flows
LEMMA PlanRequests ==
    ASSUME TypeInv, PlanInv, NEW t \in Threads, PlanRequest(t)
    PROVE  PlanInv'
  <1>1. Flows(t, {"idle"}, {"idle", "flip", "unplan", "ask", "charge"}) /\ UNCHANGED booked
    BY PlanRequestFlow
  <1>2. Ordered(task'[t]) /\ Unrecorded(task'[t])
    <2>1. ASSUME NEW p \in Plans, AddPlan(t, p) \/ BeginPlanToggle(t, p)
          PROVE  task'[t].step \in {"idle", "flip"}
      <3>1. PICK l : Become(t, l) /\ l.step \in {"idle", "flip"}
        BY <2>1 DEF AddPlan, BeginPlanToggle, Begin, Idle
      <3>2. QED
        BY <3>1, BecomeFlow
    <2>2. ASSUME NEW p \in Plans, BeginPlanDelete(t, p)
          PROVE  task'[t].step = "unplan" /\ Recorded(task'[t].plan) = {}
      BY <2>2, BecomeFlow DEF BeginPlanDelete, Begin
    <2>3. ASSUME NEW r \in Rows, BeginRebook(t, r)
          PROVE  task'[t].step \in {"ask", "charge"} /\ task'[t].again
      <3>1. PICK b : /\ b = Booked(booked[r].user, booked[r].plan, booked[r].account, r, TRUE)
                     /\ Become(t, b) \/ Become(t, [b EXCEPT !.step = "charge"])
        BY <2>3 DEF BeginRebook, Begin
      <3>2. /\ b.step = "ask" /\ b.again
            /\ [b EXCEPT !.step = "charge"].step = "charge" /\ [b EXCEPT !.step = "charge"].again
        BY <3>1 DEF Booked
      <3>3. QED
        BY <3>1, <3>2, BecomeFlow
    <2>4. ASSUME NEW n, NEW p \in Plans, NEW a, NEW r,
                 BeginBook(t, n, p, a, r) \/ BeginProxyBook(t, n, p, a, r)
          PROVE  task'[t].step = "ask" /\ task'[t].plan # None
      <3>1. PICK l : l = Booked(n, p, a, r, FALSE) /\ Become(t, l)
        BY <2>4 DEF BeginBook, BeginProxyBook, Begin
      <3>2. l.step = "ask" /\ l.plan = p
        BY <3>1 DEF Booked
      <3>3. QED
        BY <3>1, <3>2, BecomeFlow, PlansAssumption
    <2>5. CASE task'[t].step \in {"idle", "flip"}
      BY <2>5 DEF Ordered, Unrecorded, BookSteps
    <2>6. CASE task'[t].step = "unplan" /\ Recorded(task'[t].plan) = {}
      BY <2>6 DEF Ordered, Unrecorded, BookSteps
    <2>7. CASE task'[t].step \in {"ask", "charge"} /\ task'[t].again
      BY <2>7 DEF Ordered, Unrecorded, BookSteps
    <2>8. CASE task'[t].step = "ask" /\ task'[t].plan # None
      BY <2>8 DEF Ordered, Unrecorded, BookSteps
    <2>9. QED
      BY <2>1, <2>2, <2>3, <2>4, <2>5, <2>6, <2>7, <2>8 DEF PlanRequest
  <1>3. QED
    BY <1>1, <1>2, PlanSame DEF Flows

LEMMA PlanMoves ==
    ASSUME TypeInv, SingleInv, PlanInv, NEW t \in Threads, PlanStep(t)
    PROVE  PlanInv'
  <1>1. CASE FlipPlan(t)
    BY <1>1, FinishFlow, PlanQuiet DEF FlipPlan, Flows, At, BookSteps
  <1>2. CASE DropPlan(t)
    <2>1. PICK m \in PlanLocals : m = task[t] /\ m.step = "unplan"
      BY <1>2, TaskTyped, Kinds DEF DropPlan, At
    <2>2. "serial" \in ops => \A r \in Rows : booked'[r] = booked[r]
      BY <1>2, <2>1 DEF PlanInv, Unrecorded, DropPlan
    <2>3. Become(t, task'[t]) /\ task'[t].step = "idle" /\ UNCHANGED ops
      BY <1>2, FinishFlow DEF DropPlan
    <2>4. CASE "serial" \in ops
      BY <2>2, <2>3, <2>4, PlanSame DEF Ordered, Unrecorded, BookSteps
    <2>5. CASE "serial" \notin ops
      BY <2>3, <2>5 DEF PlanInv
    <2>6. QED
      BY <2>4, <2>5
  <1>3. CASE AskAccounts(t) \/ AskFails(t) \/ AskRaw(t) \/ AskRawFails(t) \/ ChargeNamed(t)
             \/ ChargeDefault(t) \/ ChargeFails(t)
    <2>1. Flows(t, BookSteps, BookSteps \cup {"idle"}) /\ UNCHANGED booked
      <3>1. task[t].step \in BookSteps \ PlanSteps /\ UNCHANGED booked
        BY <1>3 DEF AskAccounts, AskFails, AskRaw, AskRawFails, ChargeNamed, ChargeDefault,
                    ChargeFails, OnlyTaskChanges, planVars, At, BookSteps, PlanSteps
      <3>2. QED
        BY <3>1, PlanFlow DEF Flows
    <2>2. PICK m \in BookLocals : m = task[t]
      BY <2>1, TaskTyped, Kinds DEF Flows, BookSteps
    <2>3. \/ Finish(t)
          \/ \E s : Goto(t, s)
          \/ \E a : Become(t, [m EXCEPT !.step = "charge", !.account = a])
          \/ \E a : Become(t, [m EXCEPT !.step = "book", !.paid = a])
      BY <1>3, <2>2 DEF AskAccounts, AskFails, AskRaw, AskRawFails, ChargeNamed, ChargeDefault,
                        ChargeFails, Pay
    <2>4. task'[t].step = "idle" \/ (task'[t].again = m.again /\ task'[t].plan = m.plan)
      <3>1. \A s : /\ [m EXCEPT !.step = s].again = m.again
                   /\ [m EXCEPT !.step = s].plan = m.plan
        BY DEF BookLocals
      <3>2. CASE Finish(t)
        BY <3>2, FinishFlow
      <3>3. ASSUME NEW s, Goto(t, s) PROVE task'[t] = [m EXCEPT !.step = s]
        BY <2>2, <3>3, GotoFlow
      <3>4. ASSUME NEW s, Goto(t, s) PROVE task'[t].again = m.again /\ task'[t].plan = m.plan
        BY <3>1, <3>3, <3>4
      <3>5. ASSUME NEW a, \/ Become(t, [m EXCEPT !.step = "charge", !.account = a])
                          \/ Become(t, [m EXCEPT !.step = "book", !.paid = a])
            PROVE  task'[t].again = m.again /\ task'[t].plan = m.plan
        <4>1. PICK l : /\ Become(t, l)
                       /\ \/ l = [m EXCEPT !.step = "charge", !.account = a]
                          \/ l = [m EXCEPT !.step = "book", !.paid = a]
          BY <3>5
        <4>2. l.again = m.again /\ l.plan = m.plan
          BY <4>1 DEF BookLocals
        <4>3. QED
          BY <4>1, <4>2, BecomeFlow
      <3>6. QED
        BY <2>3, <3>2, <3>4, <3>5
    <2>5. "serial" \in ops => Ordered(task[t])
      BY DEF PlanInv
    <2>6. "serial" \in ops => Ordered(task'[t]) /\ Unrecorded(task'[t])
      BY <2>1, <2>2, <2>4, <2>5 DEF Flows, Ordered, Unrecorded, BookSteps
    <2>7. QED
      BY <2>1, <2>6, PlanSame DEF Flows
  <1>4. CASE Book(t)
    <2>1. PICK m \in BookLocals : m = task[t] /\ m.step = "book"
      BY <1>4, TaskTyped, Kinds DEF Book, At
    <2>2. Become(t, task'[t]) /\ task'[t].step = "idle" /\ UNCHANGED ops
      BY <1>4, FinishFlow DEF Book
    <2>3. \A s \in Threads \ {t} : task'[s] = task[s]
      BY <2>2, BecomeFlow
    <2>4. ASSUME "serial" \in ops, NEW s \in Threads
          PROVE  Ordered(task'[s]) /\ task'[s].step # "unplan"
      <3>1. CASE s = t
        BY <2>2, <3>1 DEF Ordered, BookSteps
      <3>2. CASE s # t
        <4>1. Ordered(task'[s]) /\ task[s].step \in Quiet
          BY <2>1, <2>3, <2>4, <3>2, Alone DEF PlanInv, Calm, Quiet, SaveSteps, ViewSteps
        <4>2. QED
          BY <2>3, <3>2, <4>1 DEF Quiet, SaveSteps, ViewSteps
      <3>3. QED
        BY <3>1, <3>2
    <2>5. ASSUME "serial" \in ops, NEW r \in Rows, booked'[r] # None PROVE booked'[r].plan # None
      <3>1. booked \in [Rows -> Booking \cup {None}] /\ m.row \in Rows
        BY <2>1, SameTypes DEF PlansTypeOK, BookLocals
      <3>2. CASE r # m.row
        BY <1>4, <2>1, <2>5, <3>1, <3>2 DEF Book, PlanInv
      <3>3. CASE r = m.row /\ m.again
        BY <1>4, <2>1, <2>5, <3>1, <3>3 DEF Book, PlanInv, Booking
      <3>4. CASE r = m.row /\ ~m.again
        <4>1. m.plan # None
          BY <2>1, <2>5, <3>4 DEF PlanInv, Ordered, BookSteps
        <4>2. QED
          BY <1>4, <2>1, <2>5, <3>1, <3>4, <4>1 DEF Book, PlanInv
      <3>5. QED
        BY <3>2, <3>3, <3>4
    <2>6. QED
      BY <2>2, <2>4, <2>5 DEF PlanInv, Ordered, Unrecorded
  <1>5. QED
    BY <1>1, <1>2, <1>3, <1>4 DEF PlanStep

LEMMA PlanInvStep ==
    ASSUME TypeInv, SingleInv, PlanInv, [Next]_deskAll PROVE PlanInv'
  <1>1. ASSUME NEW t \in Threads, AccountRequest(t) \/ UserRequest(t) \/ ImageRequest(t)
        PROVE  PlanInv'
    BY <1>1, AccountRequestFlow, UserRequestFlow, ImageRequestFlow, PlanQuiet
       DEF planVars, BookSteps
  <1>2. ASSUME NEW t \in Threads, AccountStep(t) PROVE PlanInv'
    BY <1>2, AccountFlow, PlanQuiet DEF planVars, BookSteps, AddSteps, DeleteSteps, MemberSteps
  <1>3. ASSUME NEW t \in Threads, UserStep(t) PROVE PlanInv'
    <2>1. \A r \in Rows : booked'[r] \in {None, booked[r]}
      <3>1. CASE DeleteUserRow(t)
        BY <3>1, SameTypes DEF DeleteUserRow, PlansTypeOK
      <3>2. CASE ~DeleteUserRow(t)
        <4>1. UNCHANGED booked
          BY <1>3, <3>2
             DEF UserStep, HelperFails, ReplyLost, Provision, Spread, InitLogin, Limit, InsertUser,
                 EmptyNodes, RemoveLogin, Resize, RecordQuota, Look, Note, Gather, Merge, WriteKeys,
                 KeepKey, RewriteKeys, StrikeKey, SetQuota, GetKeys, SetKeys, RowsUnchanged, planVars
        <4>2. QED
          BY <4>1
      <3>3. QED
        BY <3>1, <3>2
    <2>2. QED
      BY <1>3, <2>1, UserFlow, PlanQuiet DEF UserSteps, BookSteps
  <1>4. ASSUME NEW t \in Threads, ImageStep(t) PROVE PlanInv'
    BY <1>4, ImageFlow, PlanQuiet DEF planVars, ImageSteps, SaveSteps, BookSteps
  <1>5. ASSUME NEW r \in Rows, Discard(r) PROVE PlanInv'
    <2>1. /\ UNCHANGED <<ops, task>>
          /\ \A s \in Rows : booked'[s] \in {None, booked[s]}
      BY <1>5, SameTypes DEF Discard, deskVars, PlansTypeOK
    <2>2. QED
      BY <2>1 DEF PlanInv, Ordered, Unrecorded, Recorded
  <1>6. ASSUME Outside \/ Jobs \/ UNCHANGED deskAll PROVE PlanInv'
    <2>1. UNCHANGED <<ops, task, booked>>
      BY <1>6 DEF Outside, Jobs, OwnEdit, ByHand, JobStart, JobEnd, deskAll, deskVars, planVars
    <2>2. QED
      BY <2>1 DEF PlanInv, Ordered, Unrecorded, Recorded
  <1>7. QED
    BY <1>1, <1>2, <1>3, <1>4, <1>5, <1>6, PlanRequests, PlanMoves DEF Next

(* When requests are sent one by one, every resource records the plan it   *)
(* was ordered with: plans are deleted only without resources, and a       *)
(* deletion sets the plan of none to NULL.                                 *)
THEOREM PlanOnRecordCorrect == TenantsSpec => []PlanOnRecord
  <1>1. ASSUME Init PROVE PlanInv
    BY <1>1 DEF Init, DeskInit, PlansInit, Idle, PlanInv, Ordered, Unrecorded, BookSteps
  <1>2. TypeInv /\ SingleInv /\ PlanInv /\ [Next]_deskAll => PlanInv'
    BY PlanInvStep
  <1>3. PlanInv => PlanOnRecord
    BY DEF PlanInv, PlanOnRecord
  <1>4. QED
    BY <1>1, <1>2, <1>3, TypesCorrect, SingleCorrect, PTL DEF TenantsSpec
=============================================================================
