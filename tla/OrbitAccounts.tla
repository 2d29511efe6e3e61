---------------------------- MODULE OrbitAccounts ----------------------------
(***************************************************************************)
(* Billing accounts.  The portal keeps a row per account with its          *)
(* settings; what counts is Slurm: the account, its quality of service     *)
(* (QoS) with priority and the QoSs it preempts, the users associated with *)
(* it and the default account of each.  A change is written to the row,    *)
(* then all rows are sent to the helper, which brings Slurm in line, then  *)
(* the row is put back when that fails.                                    *)
(***************************************************************************)
EXTENDS OrbitDesk

CONSTANTS Accounts, Site,   \* account names, and DEFAULT_ACCOUNT of the site
          MaxPriority       \* priorities are 1 .. MaxPriority

ASSUME AccountsAssumption ==
    /\ Site \in Accounts
    /\ None \notin Accounts
    /\ MaxPriority \in Nat \ {0}

(* What the form asks for; open says that expires_at has not passed.       *)
Settings == [priority : 1 .. MaxPriority, preempt : BOOLEAN, open : BOOLEAN]
Qos == [priority : 1 .. MaxPriority, over : SUBSET Accounts]
ASSUME NoneAssumption == None \notin Settings /\ None \notin Qos

(* What init_db seeds for the site, and a QoS nobody has set.              *)
Seed == [priority |-> 1, preempt |-> FALSE, open |-> TRUE]
Fresh == [priority |-> 1, over |-> {}]

(* The locals of a change: the new and the former settings, the rows that  *)
(* are sent, the accounts still to ensure, the QoSs still to modify.       *)
ChangeLocals ==
    [step : {"update", "payload", "ensure", "apply", "undo",
             "check", "drop", "dropqos", "unrow"},
     op : {"account-add", "account-edit", "account-delete"},
     acct : Accounts, new : Settings, old : Settings \cup {None},
     sent : [Accounts -> Settings \cup {None}], ensure : SUBSET Accounts,
     todo : [Accounts -> Qos \cup {None}]]

MemberLocals == [step : {"join", "assoc", "default", "leave", "disjoin"},
                 op : {"member-add", "member-remove"},
                 acct : Accounts, user : Names, make : BOOLEAN]

Nothing == [a \in Accounts |-> None]

Change(s, o, a, v) == [step |-> s, op |-> o, acct |-> a, new |-> v, old |-> None,
                       sent |-> Nothing, ensure |-> {}, todo |-> Nothing]

AccountsInit ==
    /\ acctRow = [Nothing EXCEPT ![Site] = Seed]
    /\ slurm = {Site}
    /\ qos = [Nothing EXCEPT ![Site] = Fresh]
    /\ member = [u \in Names |-> IF os[u] = None THEN {} ELSE {Site}]
    /\ default = [u \in Names |-> IF os[u] = None THEN None ELSE Site]

AccountsTypeOK ==
    /\ acctRow \in [Accounts -> Settings \cup {None}]
    /\ slurm \subseteq Accounts
    /\ qos \in [Accounts -> Qos \cup {None}]
    /\ member \in [Names -> SUBSET Accounts]
    /\ default \in [Names -> Accounts \cup {None}]

ChangeSteps == {"update", "payload", "ensure", "apply", "undo",
                "check", "drop", "dropqos", "unrow"}
Changing(t, a) == task[t].step \in ChangeSteps /\ task[t].acct = a

-----------------------------------------------------------------------------
(* admin_account_add, admin_account_edit                                   *)

BeginAccountAdd(t, a, v) ==
    /\ acctRow[a] = None
    /\ Begin(t, "account-add", Change("update", "account-add", a, v))
    /\ UNCHANGED <<peopleVars, imageVars, planVars, accountVars>>

BeginAccountEdit(t, a, v) ==
    /\ acctRow[a] # None
    /\ Begin(t, "account-edit",
             [Change("update", "account-edit", a, v) EXCEPT !.old = acctRow[a]])
    /\ UNCHANGED <<peopleVars, imageVars, planVars, accountVars>>

(* INSERT, refused when another request has added the account, or UPDATE,  *)
(* which does nothing when another request has deleted it.                 *)
WriteRow(t) ==
    /\ At(t, "update")
    /\ LET a == task[t].acct
           inserts == task[t].op = "account-add"
       IN  IF inserts /\ acctRow[a] # None
           THEN Finish(t) /\ UNCHANGED acctRow
           ELSE /\ acctRow' = IF inserts \/ acctRow[a] # None
                              THEN [acctRow EXCEPT ![a] = task[t].new] ELSE acctRow
                /\ Goto(t, "payload")
    /\ UNCHANGED <<ops, begun, peopleVars, imageVars, planVars, slurm, qos, member, default>>

(* _sync_accounts_to_slurm sends the rows as they are now.                 *)
ReadRows(t) ==
    /\ At(t, "payload")
    /\ Become(t, [task[t] EXCEPT !.step = "ensure", !.sent = acctRow,
                      !.ensure = {a \in Accounts : acctRow[a] # None}])
    /\ UNCHANGED <<ops, begun, peopleVars, imageVars, planVars, accountVars>>

(* _account_ensure: what is missing is created, what exists is kept.       *)
EnsureAccount(a) ==
    /\ slurm' = slurm \cup {a}
    /\ qos' = IF qos[a] = None THEN [qos EXCEPT ![a] = Fresh] ELSE qos

SyncEnsure(t, a) ==
    /\ At(t, "ensure")
    /\ a \in task[t].ensure
    /\ EnsureAccount(a)
    /\ Become(t, [task[t] EXCEPT !.ensure = @ \ {a}])
    /\ UNCHANGED <<ops, begun, peopleVars, imageVars, planVars, acctRow, member, default>>

(* Every QoS, sent or not, gets its priority and the QoSs it preempts:     *)
(* none, or all those of lower priority.                                   *)
Priority(sent, a) == IF sent[a] # None THEN sent[a].priority ELSE qos[a].priority
Known(sent) == {a \in Accounts : sent[a] # None \/ qos[a] # None}
Lower(sent, a) == {b \in Known(sent) \ {a} : Priority(sent, b) < Priority(sent, a)}

(* Variant: the QoSs of the same priority are preempted too.               *)
DesiredOrEqual(sent, a) ==
    [priority |-> Priority(sent, a),
     over |-> IF sent[a] # None /\ sent[a].preempt
              THEN {b \in Known(sent) \ {a} : Priority(sent, b) <= Priority(sent, a)} ELSE {}]

Desired(sent, a) ==
    [priority |-> Priority(sent, a),
     over |-> IF sent[a] # None /\ sent[a].preempt THEN Lower(sent, a) ELSE {}]

SyncRead(t) ==
    /\ At(t, "ensure")
    /\ task[t].ensure = {}
    /\ LET sent == task[t].sent IN
       Become(t, [task[t] EXCEPT !.step = "apply",
                      !.todo = [a \in Accounts |->
                                  IF a \in Known(sent) THEN Desired(sent, a) ELSE None]])
    /\ UNCHANGED <<ops, begun, peopleVars, imageVars, planVars, accountVars>>

(* A QoS that is gone meanwhile cannot be modified: the helper gives up.   *)
SyncApply(t, a) ==
    /\ At(t, "apply")
    /\ task[t].todo[a] # None
    /\ IF qos[a] = None
       THEN Goto(t, "undo") /\ UNCHANGED qos
       ELSE /\ qos' = [qos EXCEPT ![a] = task[t].todo[a]]
            /\ Become(t, [task[t] EXCEPT !.todo[a] = None])
    /\ UNCHANGED <<ops, begun, peopleVars, imageVars, planVars, acctRow, slurm, member, default>>

SyncReturns(t) ==
    /\ At(t, "apply")
    /\ task[t].todo = Nothing
    /\ Finish(t)
    /\ UNCHANGED <<ops, begun, peopleVars, imageVars, planVars, accountVars>>

(* slurmdbd stops answering, or the reply of the helper is lost.           *)
SyncFails(t) ==
    /\ "helper" \in ops
    /\ At(t, "ensure") \/ At(t, "apply")
    /\ Goto(t, "undo")
    /\ UNCHANGED <<ops, begun, peopleVars, imageVars, planVars, accountVars>>

(* Variant: the row stays when Slurm could not be brought in line.         *)
UndoNothing(t) ==
    /\ At(t, "undo")
    /\ Finish(t)
    /\ UNCHANGED <<ops, begun, peopleVars, imageVars, planVars, accountVars>>

Undo(t) ==
    /\ At(t, "undo")
    /\ LET a == task[t].acct
       IN  acctRow' = IF task[t].op = "account-add" \/ acctRow[a] # None
                      THEN [acctRow EXCEPT ![a] = task[t].old] ELSE acctRow
    /\ Finish(t)
    /\ UNCHANGED <<ops, begun, peopleVars, imageVars, planVars, slurm, qos, member, default>>

-----------------------------------------------------------------------------
(* admin_account_delete                                                    *)

BeginAccountDelete(t, a) ==
    /\ a # Site
    /\ acctRow[a] # None
    /\ Begin(t, "account-delete", Change("check", "account-delete", a, Seed))
    /\ UNCHANGED <<peopleVars, imageVars, planVars, accountVars>>

(* The helper is content when the account is gone already; it refuses      *)
(* while the account has members, or jobs (left open here).                *)
CheckDelete(t) ==
    /\ At(t, "check")
    /\ LET a == task[t].acct IN
       IF a \notin slurm THEN Goto(t, "dropqos")
       ELSE IF \E u \in Names : a \in member[u] THEN Finish(t)
       ELSE Goto(t, "drop") \/ Finish(t)
    /\ UNCHANGED <<ops, begun, peopleVars, imageVars, planVars, accountVars>>

(* Slurm removes the associations with the account.                        *)
DropAccount(t) ==
    /\ At(t, "drop")
    /\ LET a == task[t].acct IN
       /\ slurm' = slurm \ {a}
       /\ member' = [u \in Names |-> member[u] \ {a}]
       /\ default' = [u \in Names |-> IF default[u] = a THEN None ELSE default[u]]
    /\ Goto(t, "dropqos")
    /\ UNCHANGED <<ops, begun, peopleVars, imageVars, planVars, acctRow, qos>>

DropQos(t) ==
    /\ At(t, "dropqos")
    /\ qos' = [qos EXCEPT ![task[t].acct] = None]
    /\ Goto(t, "unrow")
    /\ UNCHANGED <<ops, begun, peopleVars, imageVars, planVars, acctRow, slurm, member, default>>

(* The account is deleted but its QoS is not, or the reply is lost: the    *)
(* row is kept.                                                            *)
DeleteFails(t) ==
    /\ "half" \in ops
    /\ At(t, "dropqos") \/ At(t, "unrow")
    /\ Finish(t)
    /\ UNCHANGED <<ops, begun, peopleVars, imageVars, planVars, accountVars>>

DeleteRow(t) ==
    /\ At(t, "unrow")
    /\ acctRow' = [acctRow EXCEPT ![task[t].acct] = None]
    /\ Finish(t)
    /\ UNCHANGED <<ops, begun, peopleVars, imageVars, planVars, slurm, qos, member, default>>

-----------------------------------------------------------------------------
(* admin_account_member_add, admin_account_member_remove                   *)

MemberChange(s, o, a, u, d) == [step |-> s, op |-> o, acct |-> a, user |-> u, make |-> d]

BeginJoin(t, a, u, d) ==
    /\ acctRow[a] # None /\ user[u] # None
    /\ Begin(t, "member-add", MemberChange("join", "member-add", a, u, d))
    /\ UNCHANGED <<peopleVars, imageVars, planVars, accountVars>>

(* The account must exist in Slurm and the user on the management node; a  *)
(* member is not added again.                                              *)
CheckJoin(t) ==
    /\ At(t, "join")
    /\ LET l == task[t] IN
       IF l.acct \notin slurm \/ os[l.user] = None THEN Finish(t)
       ELSE IF l.acct \notin member[l.user] THEN Goto(t, "assoc")
       ELSE IF l.make THEN Goto(t, "default") ELSE Finish(t)
    /\ UNCHANGED <<ops, begun, peopleVars, imageVars, planVars, accountVars>>

(* sacctmgr add user: the first association is also the default.           *)
Associate(u, a) ==
    /\ member' = [member EXCEPT ![u] = @ \cup {a}]
    /\ default' = IF default[u] = None THEN [default EXCEPT ![u] = a] ELSE default

Join(t) ==
    /\ At(t, "assoc")
    /\ EnsureAccount(task[t].acct)
    /\ Associate(task[t].user, task[t].acct)
    /\ IF task[t].make THEN Goto(t, "default") ELSE Finish(t)
    /\ UNCHANGED <<ops, begun, peopleVars, imageVars, planVars, acctRow>>

(* sacctmgr refuses a default account the user is not a member of.         *)
MakeDefault(t) ==
    /\ At(t, "default")
    /\ LET l == task[t] IN
       default' = IF l.acct \in member[l.user] THEN [default EXCEPT ![l.user] = l.acct]
                                                ELSE default
    /\ Finish(t)
    /\ UNCHANGED <<ops, begun, peopleVars, imageVars, planVars, acctRow, slurm, qos, member>>

BeginLeave(t, a, u) ==
    /\ acctRow[a] # None /\ user[u] # None
    /\ Begin(t, "member-remove", MemberChange("leave", "member-remove", a, u, FALSE))
    /\ UNCHANGED <<peopleVars, imageVars, planVars, accountVars>>

(* Variant: the default account may be left like any other.                *)
MayLeaveAny(u, a) == a \in member[u]

(* The default account is the last one to be left.                         *)
MayLeave(u, a) == a \in member[u] /\ (default[u] = a => member[u] = {a})

CheckLeave(t) ==
    /\ At(t, "leave")
    /\ LET l == task[t] IN
       IF l.acct \in slurm /\ MayLeave(l.user, l.acct) THEN Goto(t, "disjoin") ELSE Finish(t)
    /\ UNCHANGED <<ops, begun, peopleVars, imageVars, planVars, accountVars>>

Leave(t) ==
    /\ At(t, "disjoin")
    /\ LET u == task[t].user
           rest == member[u] \ {task[t].acct}
       IN  /\ member' = [member EXCEPT ![u] = rest]
           /\ default' = IF rest = {} THEN [default EXCEPT ![u] = None] ELSE default
    /\ Finish(t)
    /\ UNCHANGED <<ops, begun, peopleVars, imageVars, planVars, acctRow, slurm, qos>>

(* A bound: requests that overlap do not differ in the settings they ask,  *)
(* and expiry matters only where resources are charged.                    *)
Asked ==
    IF "book" \in ops THEN {Seed, [Seed EXCEPT !.open = FALSE]}
    ELSE IF "serial" \in ops THEN {v \in Settings : v.open} ELSE {Seed}

AccountRequest(t) ==
    \E a \in Accounts :
        \/ \E v \in Asked : BeginAccountAdd(t, a, v) \/ BeginAccountEdit(t, a, v)
        \/ BeginAccountDelete(t, a)
        \/ \E u \in Names : BeginLeave(t, a, u) \/ \E d \in BOOLEAN : BeginJoin(t, a, u, d)

AccountStep(t) ==
    \/ WriteRow(t) \/ ReadRows(t) \/ SyncRead(t) \/ SyncReturns(t) \/ SyncFails(t)
    \/ \E a \in Accounts : SyncEnsure(t, a) \/ SyncApply(t, a)
    \/ Undo(t)
    \/ CheckDelete(t) \/ DropAccount(t) \/ DropQos(t) \/ DeleteFails(t) \/ DeleteRow(t)
    \/ CheckJoin(t) \/ Join(t) \/ MakeDefault(t) \/ CheckLeave(t) \/ Leave(t)

-----------------------------------------------------------------------------
(* A row never outlives its account in Slurm, however additions, edits     *)
(* (rolled back or not) and deletions overlap: unless it is being added or *)
(* deleted, it has an account to charge.                                   *)
RowBacked ==
    "half" \notin ops =>
        \A a \in Accounts :
            \/ acctRow[a] = None \/ a \in slurm
            \/ \E t \in Threads : Changing(t, a) /\ task[t].op # "account-edit"

(* Slurm has the settings of every row, and a QoS that may preempt does so *)
(* to those of lower priority and to no others.                            *)
Agree ==
    \A a \in Accounts : acctRow[a] # None =>
        /\ a \in slurm /\ qos[a] # None
        /\ qos[a].priority = acctRow[a].priority
        /\ qos[a].over = IF ~acctRow[a].preempt THEN {}
                         ELSE {b \in Accounts \ {a} :
                                 qos[b] # None /\ qos[b].priority < qos[a].priority}

(* A change that is answered with success leaves Slurm and all rows in     *)
(* agreement, whatever failed half-way before (requests one by one).       *)
SyncedOnSuccess ==
    [][("serial" \in ops /\ \E t \in Threads : SyncReturns(t)) => Agree']_deskAll

(* A user with an account has a default account, one he is a member of:    *)
(* jobs submitted without an account are charged there (requests one by    *)
(* one).                                                                   *)
DefaultIsMember ==
    "serial" \in ops =>
        \A u \in Names : IF member[u] = {} THEN default[u] = None ELSE default[u] \in member[u]
=============================================================================
