----------------------------- MODULE OrbitUsers -----------------------------
(***************************************************************************)
(* Portal users, their accounts on the machines, disk quotas and SSH keys. *)
(* The row is in the portal's database; the account, the quota and the     *)
(* authorized_keys file are on the management node and are reached by the  *)
(* helper.  Nothing ties the two sides together but the order in which the *)
(* handlers change them.                                                   *)
(***************************************************************************)
EXTENDS OrbitAccounts

CONSTANTS Keys,     \* SSH public keys
          Quotas,   \* sizes
          NoLimit   \* the quota of an account nobody limited

UserRow == [id : Nat, mode : {"provision", "existing"}, quota : Quotas]
Login == [keys : SUBSET Keys, quota : Quotas \cup {NoLimit}]

ASSUME UsersAssumption ==
    /\ None \notin UserRow /\ None \notin Login
    /\ NoLimit \notin Quotas

(* The locals: the name and the id of the row the handler works on, what   *)
(* it was asked for, and the keys it has read.                             *)
UserSteps == {"provision", "spread", "init", "limit", "insert",
              "empty", "remove", "delete", "resize", "resized",
              "look", "note", "gather", "merge", "set", "keep", "reset", "strike"}
UserLocals == [step : UserSteps, name : Names, id : Nat, mode : {"provision", "existing"},
               quota : Quotas \cup {NoLimit}, key : SUBSET Keys, keys : SUBSET Keys,
               failed : BOOLEAN]

Work(s, n) == [step |-> s, name |-> n, id |-> IF user[n] = None THEN 0 ELSE user[n].id,
               mode |-> "provision", quota |-> NoLimit, key |-> {}, keys |-> {},
               failed |-> FALSE]

(* Some users are there already; the others may be created.                *)
UsersInit(q, present) ==
    /\ user = [n \in Names |-> IF n \in present
                 THEN [id |-> 0, mode |-> "provision", quota |-> q] ELSE None]
    /\ os = [n \in Names |-> IF n \in present THEN [keys |-> {}, quota |-> q] ELSE None]
    /\ nodes = present
    /\ keyRow = [n \in Names |-> {}]
    /\ lastId = 0

UsersTypeOK ==
    /\ user \in [Names -> UserRow \cup {None}]
    /\ os \in [Names -> Login \cup {None}]
    /\ nodes \subseteq Names
    /\ keyRow \in [Names -> SUBSET Keys]
    /\ lastId \in Nat

Name(t) == task[t].name
Mine(t) == user[Name(t)] # None /\ user[Name(t)].id = task[t].id
RowsUnchanged == UNCHANGED <<user, keyRow, lastId, imageVars, planVars>>
MachinesUnchanged == UNCHANGED <<os, nodes, accountVars>>

(* The call of the helper fails and the handler gives up.                  *)
HelperFails(t) ==
    /\ "helper" \in ops
    /\ task[t].step \in {"provision", "spread", "init", "limit", "resize", "look",
                         "gather", "set", "reset"}
    /\ Finish(t)
    /\ UNCHANGED <<ops, begun>> /\ RowsUnchanged /\ MachinesUnchanged

(* It does its work but the portal does not learn of it.                   *)
ReplyLost(t) ==
    /\ "lost" \in ops
    /\ task[t].step \in {"insert", "delete", "resized", "keep", "strike"}
    /\ Finish(t)
    /\ UNCHANGED <<ops, begun>> /\ RowsUnchanged /\ MachinesUnchanged

-----------------------------------------------------------------------------
(* admin_user_create: an account is provisioned, or one that exists        *)
(* already is initialised; then the row is inserted.                       *)

(* A new user is put into an account of the portal that has not expired;   *)
(* the model knows only the one of the site.                               *)
SiteIsOpen == acctRow[Site] # None /\ acctRow[Site].open

BeginCreate(t, n, m, q) ==
    /\ SiteIsOpen
    /\ user[n] = None
    /\ Begin(t, "user-create",
             [Work(IF m = "provision" THEN "provision" ELSE "init", n) EXCEPT
                 !.mode = m, !.quota = q])
    /\ RowsUnchanged /\ MachinesUnchanged

(* _ensure_assoc: a member of the default account of the site, which       *)
(* becomes his own default.                                                *)
Enrol(n) ==
    /\ member' = [member EXCEPT ![n] = @ \cup {Site}]
    /\ default' = [default EXCEPT ![n] = Site]

(* add-user.sh on the management node: account, quota, association with    *)
(* the default account of Slurm.  A failing set-quota.sh is ignored.       *)
Provision(t) ==
    /\ At(t, "provision")
    /\ IF os[Name(t)] # None
       THEN Finish(t) /\ MachinesUnchanged
       ELSE /\ \E q \in {task[t].quota} \cup (IF "set-quota" \in ops THEN {NoLimit} ELSE {}) :
                  os' = [os EXCEPT ![Name(t)] = [keys |-> {}, quota |-> q]]
            /\ EnsureAccount(Site)
            /\ Enrol(Name(t))
            /\ Goto(t, "spread")
            /\ UNCHANGED <<nodes, acctRow>>
    /\ UNCHANGED <<ops, begun>> /\ RowsUnchanged

(* ... and on the compute nodes.                                           *)
Spread(t) ==
    /\ At(t, "spread")
    /\ nodes' = nodes \cup {Name(t)}
    /\ Goto(t, "insert")
    /\ UNCHANGED <<ops, begun, os, accountVars>> /\ RowsUnchanged

(* Variant: the quota of an account that exists is only recorded.          *)
InitLoginOnly(t) ==
    /\ At(t, "init")
    /\ IF os[Name(t)] = None
       THEN Finish(t) /\ MachinesUnchanged
       ELSE /\ EnsureAccount(Site) /\ Enrol(Name(t))
            /\ Goto(t, "insert")
            /\ UNCHANGED <<os, nodes, acctRow>>
    /\ UNCHANGED <<ops, begun>> /\ RowsUnchanged

(* user_exists and init_user look at the management node only.             *)
InitLogin(t) ==
    /\ At(t, "init")
    /\ IF os[Name(t)] = None
       THEN Finish(t) /\ MachinesUnchanged
       ELSE /\ EnsureAccount(Site) /\ Enrol(Name(t))
            /\ Goto(t, "limit")
            /\ UNCHANGED <<os, nodes, acctRow>>
    /\ UNCHANGED <<ops, begun>> /\ RowsUnchanged

(* set_quota, which needs the account.                                     *)
SetQuota(t, from, to) ==
    /\ At(t, from)
    /\ IF os[Name(t)] = None
       THEN Finish(t) /\ UNCHANGED os
       ELSE os' = [os EXCEPT ![Name(t)].quota = task[t].quota] /\ Goto(t, to)
    /\ UNCHANGED <<ops, begun, nodes, accountVars>> /\ RowsUnchanged

Limit(t) == SetQuota(t, "limit", "insert")

(* Variant: the quota is recorded as it is on the management node.         *)
InsertUserAsFound(t) ==
    /\ At(t, "insert")
    /\ IF user[Name(t)] # None
       THEN Finish(t) /\ RowsUnchanged
       ELSE /\ lastId' = lastId + 1
            /\ user' = [user EXCEPT ![Name(t)] =
                 [id |-> lastId', mode |-> task[t].mode,
                  quota |-> IF os[Name(t)] = None THEN NoLimit ELSE os[Name(t)].quota]]
            /\ Finish(t)
            /\ UNCHANGED <<keyRow, imageVars, planVars>>
    /\ UNCHANGED <<ops, begun>> /\ MachinesUnchanged

(* The name is unique; the keys of an existing account are imported.       *)
InsertUser(t) ==
    /\ At(t, "insert")
    /\ IF user[Name(t)] # None
       THEN Finish(t) /\ RowsUnchanged
       ELSE /\ lastId' = lastId + 1
            /\ user' = [user EXCEPT ![Name(t)] =
                          [id |-> lastId', mode |-> task[t].mode, quota |-> task[t].quota]]
            /\ IF task[t].mode = "existing"
               THEN Become(t, [task[t] EXCEPT !.step = "look", !.id = lastId'])
               ELSE Finish(t)
            /\ UNCHANGED <<keyRow, imageVars, planVars>>
    /\ UNCHANGED <<ops, begun>> /\ MachinesUnchanged

-----------------------------------------------------------------------------
(* admin_user_delete                                                       *)

BeginUserDelete(t, n) ==
    /\ user[n] # None
    /\ Begin(t, "user-delete",
             Work(IF user[n].mode = "provision" THEN "empty" ELSE "delete", n))
    /\ RowsUnchanged /\ MachinesUnchanged

(* unprovision_user: the compute nodes, where userdel may fail; nothing is *)
(* done when the management node does not know the account.                *)
EmptyNodes(t) ==
    /\ At(t, "empty")
    /\ IF os[Name(t)] = None
       THEN Goto(t, "delete") /\ UNCHANGED nodes
       ELSE \/ /\ nodes' = nodes \ {Name(t)}
               /\ Goto(t, "remove")
            \/ /\ "node" \in ops
               /\ Become(t, [task[t] EXCEPT !.step = "remove", !.failed = TRUE])
               /\ UNCHANGED nodes
    /\ UNCHANGED <<ops, begun, os, accountVars>> /\ RowsUnchanged

(* Variant: the associations in Slurm stay.                                *)
RemoveLoginOnly(t) ==
    /\ At(t, "remove")
    /\ os' = [os EXCEPT ![Name(t)] = None]
    /\ IF task[t].failed THEN Finish(t) ELSE Goto(t, "delete")
    /\ UNCHANGED <<ops, begun, nodes, accountVars>> /\ RowsUnchanged

(* The management node, with the home, and the associations in Slurm.  If  *)
(* userdel fails there or has failed on a node, the helper reports failure *)
(* after all this.                                                         *)
RemoveLogin(t) ==
    /\ At(t, "remove")
    /\ member' = [member EXCEPT ![Name(t)] = {}]
    /\ default' = [default EXCEPT ![Name(t)] = None]
    /\ \/ /\ os' = [os EXCEPT ![Name(t)] = None]
          /\ IF task[t].failed THEN Finish(t) ELSE Goto(t, "delete")
       \/ "node" \in ops /\ Finish(t) /\ UNCHANGED os
    /\ UNCHANGED <<ops, begun, nodes, acctRow, slurm, qos>> /\ RowsUnchanged

(* DELETE ... WHERE id=?; keys and resources go with the row (ON DELETE    *)
(* CASCADE).                                                               *)
Orphaned(n) == {r \in DOMAIN booked : booked[r] # None /\ booked[r].user = n}
DeleteUserRow(t) ==
    /\ At(t, "delete")
    /\ IF Mine(t)
       THEN /\ user' = [user EXCEPT ![Name(t)] = None]
            /\ keyRow' = [keyRow EXCEPT ![Name(t)] = {}]
            /\ booked' = [r \in DOMAIN booked |-> IF r \in Orphaned(Name(t)) THEN None
                                                                       ELSE booked[r]]
       ELSE UNCHANGED <<user, keyRow, booked>>
    /\ Finish(t)
    /\ UNCHANGED <<ops, begun, lastId, imageVars, plan>> /\ MachinesUnchanged

-----------------------------------------------------------------------------
(* admin_user_quota                                                        *)

BeginQuota(t, n, q) ==
    /\ user[n] # None
    /\ Begin(t, "quota", [Work("resize", n) EXCEPT !.quota = q])
    /\ RowsUnchanged /\ MachinesUnchanged

Resize(t) == SetQuota(t, "resize", "resized")

RecordQuota(t) ==
    /\ At(t, "resized")
    /\ user' = IF Mine(t) THEN [user EXCEPT ![Name(t)].quota = task[t].quota] ELSE user
    /\ Finish(t)
    /\ UNCHANGED <<ops, begun, keyRow, lastId, imageVars, planVars>> /\ MachinesUnchanged

-----------------------------------------------------------------------------
(* Keys.  The profile imports what the user put into authorized_keys.      *)

BeginView(t, n) ==
    /\ user[n] # None
    /\ Begin(t, "view", Work("look", n))
    /\ RowsUnchanged /\ MachinesUnchanged

(* get_keys                                                                *)
GetKeys(t, from, to) ==
    /\ At(t, from)
    /\ IF os[Name(t)] = None
       THEN Finish(t)
       ELSE Become(t, [task[t] EXCEPT !.step = to, !.keys = os[Name(t)].keys])
    /\ UNCHANGED <<ops, begun>> /\ RowsUnchanged /\ MachinesUnchanged

ImportKeys(t) ==
    keyRow' = IF Mine(t) THEN [keyRow EXCEPT ![Name(t)] = @ \cup task[t].keys] ELSE keyRow

Look(t) == GetKeys(t, "look", "note")

Note(t) ==
    /\ At(t, "note")
    /\ ImportKeys(t)
    /\ Finish(t)
    /\ UNCHANGED <<ops, begun, user, lastId, imageVars, planVars>> /\ MachinesUnchanged

(* profile_key_add: import what is there, write all rows and the new key   *)
(* to the file, insert the row.                                            *)
BeginKeyAdd(t, n, k) ==
    /\ user[n] # None
    /\ k \notin keyRow[n]
    /\ Begin(t, "key-add", [Work("gather", n) EXCEPT !.key = {k}])
    /\ RowsUnchanged /\ MachinesUnchanged

Gather(t) == GetKeys(t, "gather", "merge")

(* Variant: what is in the file is not imported first.                     *)
MergeBlind(t) ==
    /\ At(t, "merge")
    /\ IF Mine(t) /\ task[t].key \cap keyRow[Name(t)] = {}
       THEN Become(t, [task[t] EXCEPT !.step = "set", !.keys = keyRow[Name(t)] \cup task[t].key])
       ELSE Finish(t)
    /\ UNCHANGED <<ops, begun, user, keyRow, lastId, imageVars, planVars>> /\ MachinesUnchanged

(* set_keys refuses a list that holds the new key twice; without the row   *)
(* the import is an exception.                                             *)
Merge(t) ==
    /\ At(t, "merge")
    /\ ImportKeys(t)
    /\ IF Mine(t) /\ task[t].key \cap keyRow'[Name(t)] = {}
       THEN Become(t, [task[t] EXCEPT !.step = "set", !.keys = keyRow'[Name(t)] \cup task[t].key])
       ELSE Finish(t)
    /\ UNCHANGED <<ops, begun, user, lastId, imageVars, planVars>> /\ MachinesUnchanged

(* set_keys                                                                *)
SetKeys(t, from, to) ==
    /\ At(t, from)
    /\ IF os[Name(t)] = None
       THEN Finish(t) /\ UNCHANGED os
       ELSE os' = [os EXCEPT ![Name(t)].keys = task[t].keys] /\ Goto(t, to)
    /\ UNCHANGED <<ops, begun, nodes, accountVars>> /\ RowsUnchanged

WriteKeys(t) == SetKeys(t, "set", "keep")

KeepKey(t) ==
    /\ At(t, "keep")
    /\ keyRow' = IF Mine(t) THEN [keyRow EXCEPT ![Name(t)] = @ \cup task[t].key] ELSE keyRow
    /\ Finish(t)
    /\ UNCHANGED <<ops, begun, user, lastId, imageVars, planVars>> /\ MachinesUnchanged

(* profile_key_del: the other rows are written to the file, which loses    *)
(* whatever the user put there himself since the last import.              *)
BeginKeyDelete(t, n, k) ==
    /\ user[n] # None
    /\ k \in keyRow[n]
    /\ Begin(t, "key-delete",
             [Work("reset", n) EXCEPT !.key = {k}, !.keys = keyRow[n] \ {k}])
    /\ RowsUnchanged /\ MachinesUnchanged

RewriteKeys(t) == SetKeys(t, "reset", "strike")

StrikeKey(t) ==
    /\ At(t, "strike")
    /\ keyRow' = IF Mine(t) THEN [keyRow EXCEPT ![Name(t)] = @ \ task[t].key] ELSE keyRow
    /\ Finish(t)
    /\ UNCHANGED <<ops, begun, user, lastId, imageVars, planVars>> /\ MachinesUnchanged

-----------------------------------------------------------------------------
(* Outside the portal: a user edits authorized_keys, root adds an account. *)
(* Users who take turns do not edit the file while a key is being added.   *)

OwnEdit(n, k) ==
    /\ "own-edit" \in ops
    /\ "turns" \in ops => \A t \in Threads : task[t].step \in ViewSteps
    /\ os[n] # None
    /\ os' = [os EXCEPT ![n].keys = @ \cup {k}]
    /\ UNCHANGED <<deskVars, user, nodes, keyRow, lastId, accountVars, imageVars, planVars>>

ByHand(n, q) ==
    /\ "by-hand" \in ops
    /\ os[n] = None /\ user[n] = None
    /\ os' = [os EXCEPT ![n] = [keys |-> {}, quota |-> q]]
    /\ nodes' = nodes \cup {n}
    /\ UNCHANGED <<deskVars, user, keyRow, lastId, accountVars, imageVars, planVars>>

UserRequest(t) ==
    \E n \in Names :
        \/ \E m \in {"provision", "existing"}, q \in Quotas : BeginCreate(t, n, m, q)
        \/ BeginUserDelete(t, n) \/ BeginView(t, n)
        \/ \E q \in Quotas : BeginQuota(t, n, q)
        \/ \E k \in Keys : BeginKeyAdd(t, n, k) \/ BeginKeyDelete(t, n, k)

UserStep(t) ==
    \/ HelperFails(t) \/ ReplyLost(t)
    \/ Provision(t) \/ Spread(t) \/ InitLogin(t) \/ Limit(t) \/ InsertUser(t)
    \/ EmptyNodes(t) \/ RemoveLogin(t) \/ DeleteUserRow(t)
    \/ Resize(t) \/ RecordQuota(t)
    \/ Look(t) \/ Note(t) \/ Gather(t) \/ Merge(t) \/ WriteKeys(t) \/ KeepKey(t)
    \/ RewriteKeys(t) \/ StrikeKey(t)

Outside == \E n \in Names : \/ \E k \in Keys : OwnEdit(n, k)
                            \/ \E q \in Quotas : ByHand(n, q)

-----------------------------------------------------------------------------
Orderly == {"serial", "turns"} \cap ops # {} /\ "lost" \notin ops
Serving(n, steps) == \E t \in Threads : task[t].step \in steps /\ task[t].name = n

(* A key shown as registered, on the strength of which a user may submit,  *)
(* opens his account: additions, deletions, imports, his own edits and     *)
(* failures of the helper keep row and file together.  (A page that is     *)
(* shown while a key is being deleted may import it again.)                *)
RegisteredKeyWorks ==
    Orderly /\ ~({"turns", "key-delete"} \subseteq ops) =>
        \A n \in Names : user[n] # None /\ os[n] # None =>
            keyRow[n] \subseteq os[n].keys \/ Serving(n, {"strike"})

(* The quota in the row is the one in force on the management node.        *)
QuotaAgrees ==
    Orderly /\ "set-quota" \notin ops =>
        \A n \in Names : user[n] # None /\ os[n] # None =>
            user[n].quota = os[n].quota \/ Serving(n, {"resized"})

(* A provisioned user has an account on every machine until his deletion   *)
(* has begun, and nobody without an account can charge jobs in Slurm.      *)
RowHasLogin ==
    Orderly /\ "node" \notin ops =>
        \A n \in Names :
            /\ user[n] # None /\ user[n].mode = "provision" =>
                 (os[n] # None /\ n \in nodes) \/ Serving(n, {"remove", "delete"})
            /\ os[n] = None => member[n] = {}
=============================================================================
