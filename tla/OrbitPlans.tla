----------------------------- MODULE OrbitPlans -----------------------------
(***************************************************************************)
(* Resource plans, and who pays: a submission names a plan and, if it      *)
(* likes, one of the accounts of its user; the portal offers those that    *)
(* have not expired and chooses one when none is named, the helper accepts *)
(* those the user is a member of, Slurm charges the default account when   *)
(* it gets none.  Ports, images and jobs are in OrbitInstances.            *)
(***************************************************************************)
EXTENDS OrbitUsers

CONSTANTS Plans,  \* the ids given to plans, which are not used twice
          Rows    \* bound on resources recorded at once

Booking == [user : Names, plan : Plans \cup {None}, account : Accounts \cup {None},
            paid : Accounts \cup {None}]
ASSUME PlansAssumption == None \notin Plans /\ None \notin Booking

(* The locals: whom the resource is for and the plan, row and account;     *)
(* again marks a restart, paid is what Slurm charged.                      *)
PlanLocals == [step : {"flip", "unplan"}, plan : Plans, hide : BOOLEAN]
BookLocals == [step : {"ask", "raw", "charge", "book"}, name : Names,
               plan : Plans \cup {None}, account : Accounts \cup {None},
               paid : Accounts \cup {None}, row : Rows, again : BOOLEAN]

(* _seed_plans                                                             *)
PlansInit ==
    /\ \E s \in Plans : plan = [p \in Plans |-> IF p = s THEN "enabled" ELSE "unused"]
    /\ booked = [r \in Rows |-> None]

PlansTypeOK ==
    /\ plan \in [Plans -> {"unused", "enabled", "disabled", "deleted"}]
    /\ booked \in [Rows -> Booking \cup {None}]

Listed(p) == plan[p] \in {"enabled", "disabled"}
Recorded(p) == {r \in Rows : booked[r] # None /\ booked[r].plan = p}
PeopleUnchanged == UNCHANGED <<peopleVars, imageVars>>
OnlyTaskChanges == UNCHANGED <<ops, begun, peopleVars, imageVars, accountVars, planVars>>

-----------------------------------------------------------------------------
(* admin_plan_add, admin_plan_toggle, admin_plan_delete                    *)

AddPlan(t, p) ==
    /\ plan[p] = "unused"
    /\ Begin(t, "plan", Idle)
    /\ plan' = [plan EXCEPT ![p] = "enabled"]
    /\ UNCHANGED <<booked, accountVars>> /\ PeopleUnchanged

BeginPlanToggle(t, p) ==
    /\ Listed(p)
    /\ Begin(t, "plan", [step |-> "flip", plan |-> p, hide |-> plan[p] = "enabled"])
    /\ UNCHANGED <<accountVars, planVars>> /\ PeopleUnchanged

FlipPlan(t) ==
    /\ At(t, "flip")
    /\ LET p == task[t].plan IN
       plan' = IF Listed(p) THEN [plan EXCEPT ![p] = IF task[t].hide THEN "disabled" ELSE "enabled"]
                            ELSE plan
    /\ Finish(t)
    /\ UNCHANGED <<ops, begun, booked, accountVars>> /\ PeopleUnchanged

(* Variant: the resources that record the plan are not looked for.         *)
BeginPlanDeleteUnguarded(t, p) ==
    /\ Listed(p)
    /\ Begin(t, "plan", [step |-> "unplan", plan |-> p, hide |-> FALSE])
    /\ UNCHANGED <<accountVars, planVars>> /\ PeopleUnchanged

BeginPlanDelete(t, p) ==
    /\ Listed(p)
    /\ Recorded(p) = {}
    /\ Begin(t, "plan", [step |-> "unplan", plan |-> p, hide |-> FALSE])
    /\ UNCHANGED <<accountVars, planVars>> /\ PeopleUnchanged

(* DELETE FROM plans; resources keep none (ON DELETE SET NULL).            *)
DropPlan(t) ==
    /\ At(t, "unplan")
    /\ LET p == task[t].plan IN
       /\ plan' = [plan EXCEPT ![p] = "deleted"]
       /\ booked' = [r \in Rows |-> IF r \in Recorded(p) THEN [booked[r] EXCEPT !.plan = None]
                                                         ELSE booked[r]]
    /\ Finish(t)
    /\ UNCHANGED <<ops, begun, accountVars>> /\ PeopleUnchanged

-----------------------------------------------------------------------------
(* apply_submit, admin_apply_submit, instance_restart: plan and account    *)

Booked(n, p, a, r, again) ==
    [step |-> "ask", name |-> n, plan |-> p, account |-> a, paid |-> None,
     row |-> r, again |-> again]

(* The user needs a key; an administrator who orders for him does not ask. *)
BeginBook(t, n, p, a, r) ==
    /\ user[n] # None /\ plan[p] = "enabled" /\ booked[r] = None
    /\ keyRow[n] # {}
    /\ Begin(t, "book", Booked(n, p, a, r, FALSE))
    /\ UNCHANGED <<accountVars, planVars>> /\ PeopleUnchanged

BeginProxyBook(t, n, p, a, r) ==
    /\ user[n] # None /\ plan[p] = "enabled" /\ booked[r] = None
    /\ Begin(t, "book", Booked(n, p, a, r, FALSE))
    /\ UNCHANGED <<accountVars, planVars>> /\ PeopleUnchanged

(* A restart uses the recorded account; without one it asks nothing.       *)
BeginRebook(t, r) ==
    /\ booked[r] # None
    /\ LET b == booked[r]
           l == Booked(b.user, b.plan, b.account, r, TRUE)
       IN  Begin(t, "book", IF b.account = None THEN [l EXCEPT !.step = "charge"] ELSE l)
    /\ UNCHANGED <<accountVars, planVars>> /\ PeopleUnchanged

(* _user_accounts: his accounts that have not expired; one Slurm knows and *)
(* the portal does not counts.                                             *)
Open(a) == acctRow[a] # None => acctRow[a].open
Offer(n) == {a \in member[n] : Open(a)}

(* _default_account: Slurm's default, the site's, or any.                  *)
Preferred(n) == IF default[n] \in Offer(n) THEN {default[n]}
                ELSE IF Site \in Offer(n) THEN {Site} ELSE Offer(n)

AskAccounts(t) ==
    /\ At(t, "ask")
    /\ LET l == task[t] IN
       \/ l.account # None /\ IF l.account \in Offer(l.name) THEN Goto(t, "charge") ELSE Finish(t)
       \/ l.account = None /\ Offer(l.name) = {} /\ Goto(t, "raw")
       \/ /\ l.account = None
          /\ \E a \in Preferred(l.name) :
                Become(t, [l EXCEPT !.step = "charge", !.account = a])
    /\ OnlyTaskChanges

(* Without an answer of the helper there is nothing to offer.              *)
AskFails(t) ==
    /\ "helper" \in ops
    /\ At(t, "ask")
    /\ IF task[t].account # None THEN Finish(t) ELSE Goto(t, "raw")
    /\ OnlyTaskChanges

(* Variant: no account on offer, no account sent.                          *)
AskRawIgnored(t) ==
    /\ At(t, "raw")
    /\ Goto(t, "charge")
    /\ OnlyTaskChanges

(* _raw_user_accounts: a user all of whose accounts have expired must not  *)
(* fall back to the default account; one who has none does.                *)
AskRaw(t) ==
    /\ At(t, "raw")
    /\ IF member[task[t].name] # {} THEN Finish(t) ELSE Goto(t, "charge")
    /\ OnlyTaskChanges

AskRawFails(t) ==
    /\ "helper" \in ops
    /\ At(t, "raw")
    /\ Goto(t, "charge")
    /\ OnlyTaskChanges

(* cmd_submit: a named account must be one of the user's; without a name   *)
(* he is made a member of the site's account, and Slurm charges his        *)
(* default.                                                                *)
Pay(t, a) == Become(t, [task[t] EXCEPT !.step = "book", !.paid = a])

ChargeNamed(t) ==
    /\ At(t, "charge")
    /\ task[t].account # None
    /\ IF os[task[t].name] # None /\ task[t].account \in member[task[t].name]
       THEN Pay(t, task[t].account) ELSE Finish(t)
    /\ OnlyTaskChanges

ChargeDefault(t) ==
    /\ At(t, "charge")
    /\ task[t].account = None
    /\ LET n == task[t].name IN
       IF os[n] = None
       THEN Finish(t) /\ UNCHANGED accountVars
       ELSE EnsureAccount(Site) /\ Associate(n, Site) /\ Pay(t, default'[n])
            /\ UNCHANGED acctRow
    /\ UNCHANGED <<ops, begun, planVars>> /\ PeopleUnchanged

ChargeFails(t) ==
    /\ "helper" \in ops
    /\ At(t, "charge")
    /\ Finish(t)
    /\ OnlyTaskChanges

(* INSERT INTO instances refers to user and plan: when one of them is gone *)
(* it is refused and the job is cancelled.  A restart updates the row.     *)
Book(t) ==
    /\ At(t, "book")
    /\ LET l == task[t] IN
       booked' =
          IF l.again
          THEN IF booked[l.row] = None THEN booked
               ELSE [booked EXCEPT ![l.row].paid = l.paid]
          ELSE IF user[l.name] = None \/ plan[l.plan] = "deleted" \/ booked[l.row] # None
               THEN booked
               ELSE [booked EXCEPT ![l.row] = [user |-> l.name, plan |-> l.plan,
                                               account |-> l.account, paid |-> l.paid]]
    /\ Finish(t)
    /\ UNCHANGED <<ops, begun, plan, accountVars>> /\ PeopleUnchanged

(* The user deletes a resource that has ended (OrbitInstances).            *)
Discard(r) ==
    /\ booked[r] # None
    /\ booked' = [booked EXCEPT ![r] = None]
    /\ UNCHANGED <<deskVars, plan, accountVars>> /\ PeopleUnchanged

PlanRequest(t) ==
    \/ \E p \in Plans : AddPlan(t, p) \/ BeginPlanToggle(t, p) \/ BeginPlanDelete(t, p)
    \/ \E r \in Rows :
        \/ BeginRebook(t, r)
        \/ \E n \in Names, p \in Plans, a \in Accounts \cup {None} :
              BeginBook(t, n, p, a, r) \/ BeginProxyBook(t, n, p, a, r)

PlanStep(t) ==
    \/ FlipPlan(t) \/ DropPlan(t)
    \/ AskAccounts(t) \/ AskFails(t) \/ AskRaw(t) \/ AskRawFails(t)
    \/ ChargeNamed(t) \/ ChargeDefault(t) \/ ChargeFails(t) \/ Book(t)

-----------------------------------------------------------------------------
(* A plan some resource was ordered with is not deleted (requests one by   *)
(* one: a submission under way while its plan is deleted loses it).        *)
PlanOnRecord ==
    "serial" \in ops => \A r \in Rows : booked[r] # None => booked[r].plan # None

(* Whoever has an account pays with one he is a member of and that has not *)
(* expired, named or not, over changes of membership, default and expiry;  *)
(* but for a resource whose row records no account and is restarted        *)
(* (requests one by one, the helper answers).                              *)
Charged(t) == At(t, "charge") /\ task'[t].step = "book"

ChargedOpenAccount ==
    [][("serial" \in ops /\ "helper" \notin ops) =>
        \A t \in Threads : Charged(t) =>
            LET n == task[t].name
                paid == task'[t].paid
            IN  /\ paid \in member'[n]
                /\ member[n] # {} /\ ~(task[t].again /\ task[t].account = None) => Open(paid)
      ]_deskAll
=============================================================================
