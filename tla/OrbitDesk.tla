------------------------------ MODULE OrbitDesk ------------------------------
(***************************************************************************)
(* The administration of the portal: the threads that serve its requests,  *)
(* and the people it is about.  run.py serves requests in parallel threads *)
(* of one process, so that two requests overlap at every SQL statement and *)
(* at every call of the root helper.  A thread's task is the step it is at *)
(* with the locals of its handler.  OrbitAccounts, OrbitUsers, OrbitPlans  *)
(* and OrbitImages add their requests; OrbitTenants puts them together.    *)
(***************************************************************************)
EXTENDS Naturals, FiniteSets

CONSTANTS Threads,      \* bound on requests that run at once
          Scenarios,    \* sets of operations and faults: a behaviour uses one
          MaxRequests,  \* bound on requests served, when they overlap
          MaxInTurn,    \* and when they are sent one by one
          MaxBooking,   \* and when resources are ordered and charged
          Names,        \* user names
          None          \* no row, no account, no image

VARIABLES ops,    \* the operations and faults of this behaviour
          task,   \* thread -> what it is doing
          begun,  \* how many of these requests are used
          \* OrbitUsers
          user,   \* users: name -> row
          os,     \* name -> account on the management node
          nodes,  \* the names with an account on the compute nodes
          keyRow, \* ssh_keys: name -> keys of the row of that name
          lastId, \* the last id given to a row (AUTOINCREMENT)
          \* OrbitAccounts
          acctRow,  \* accounts: name -> settings
          slurm,    \* the accounts that exist in Slurm
          qos,      \* acct-<name>: name -> priority and preempted QoSs
          member,   \* associations: user name -> accounts
          default,  \* user name -> DefaultAccount
          \* OrbitImages
          image,  \* name -> content of <name>.sqsh
          part,   \* name -> content of <name>.sqsh.part
          saves,  \* exports begun, each with a content of its own
          inst,   \* resource -> its recorded image and state
          \* OrbitPlans
          plan,   \* plans: plan -> state of its row
          booked  \* instances: row -> its user, plan and account

deskVars == <<ops, task, begun>>
peopleVars == <<user, os, nodes, keyRow, lastId>>
accountVars == <<acctRow, slurm, qos, member, default>>
imageVars == <<image, part, saves, inst>>
planVars == <<plan, booked>>
deskAll == <<deskVars, peopleVars, accountVars, imageVars, planVars>>

Idle == [step |-> "idle"]

DeskInit ==
    /\ ops \in Scenarios
    /\ task = [t \in Threads |-> Idle]
    /\ begun = 0

At(t, s) == task[t].step = s
Become(t, l) == task' = [task EXCEPT ![t] = l]
Goto(t, s) == Become(t, [task[t] EXCEPT !.step = s])
Finish(t) == Become(t, Idle)

Others(t, steps) == \A s \in Threads \ {t} : task[s].step \in steps

(* The steps of a handler that only shows a page, and of a save, which a   *)
(* thread of its own does after the reply.                                 *)
ViewSteps == {"idle", "look", "note"}
SaveSteps == {"idle", "save", "start", "export", "swap"}

Bound == IF "book" \in ops THEN MaxBooking
         ELSE IF {"serial", "turns"} \cap ops # {} THEN MaxInTurn ELSE MaxRequests

(* A request starts in a free thread.  In a "serial" behaviour nobody      *)
(* sends one while another is under way (saves go on in the background),   *)
(* in one where people take "turns" only pages are looked at meanwhile.    *)
Begin(t, op, l) ==
    /\ op \in ops
    /\ At(t, "idle")
    /\ "serial" \in ops => Others(t, SaveSteps)
    /\ "turns" \in ops /\ op # "view" => Others(t, ViewSteps)
    /\ begun < Bound
    /\ begun' = begun + 1
    /\ Become(t, l)
    /\ UNCHANGED ops
=============================================================================
