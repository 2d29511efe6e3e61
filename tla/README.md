# A TLA+ model of OrbitCluster

OrbitCluster is a self-service portal in front of a Slurm cluster. A user
applies for a *resource* (an "instance": a container with GPUs and an SSH
port); the portal submits a Slurm job for it, follows the job, and stops it on
request or when the chosen hours are used up. Administrators create users on
the machines, put them into billing accounts, set quotas and plans. The portal
is a Flask application served by waitress in parallel threads over one SQLite
file. It has no privileges: whatever needs root goes through the helper
`deploy/portal-ctl`, run once per call.

This directory holds the formal model of the parts in which threads, the
database, files, the helper and Slurm meet, its model checking, and its proofs.

## Inventory

| Component | Source | State | Operations | What is hard |
|---|---|---|---|---|
| Resource life cycle | `portalapp/app.py` 599-634, 1259-1600, 2297-2389; `db.py` 299-460 | `instances` rows | apply, restart, stop, delete, reconcile | every handler reads the row, waits seconds for the helper, and writes by id |
| Port leases | `db.py` 155-216, 498-505; `app.py` 1152-1192 | `user_ports` rows, two unique indexes | allocate, release after a failure, register, release in the profile | leases outlive failed and overlapping submissions |
| Image saving, expiry | `app.py` 1532-1574, 2857-3045 | `saving`, `auto_saved_at`, daemon threads | manual save, scan, claim, save worker, stop | persistent flag, volatile worker; background threads racing requests |
| Jobs and helper | `deploy/portal-ctl` 374-396, 1275-1503; `ctl.py` 39-64 | Slurm's queue and history | submit, kill, job-state | lost replies, `squeue` failures read as "not in the queue" |
| Passwords, sessions, terminal tokens | `pwfile.py`, `terminal_auth.py`, `terminal_api.py`, `auth.py`, `app.py` 378-513, 1069-1095, 2172-2243, 2394-2408, `bootstrap.py` | `users` rows, password file, cookies, `terminal_tokens`, `terminal_login_failures` | login, logout, change, reset, toggle, role, delete, token login; the file watcher | a hash and an epoch in two statements, a file rewritten from a copy, check-then-count |
| Billing accounts | `app.py` 2416-2675; `portal-ctl` 1822-2556 | `accounts` rows; accounts, QoSs, associations and default accounts in Slurm | add, edit, delete, members, default | two stores, synchronisation and roll-back |
| Portal users, quotas | `app.py` 1956-2249; `portal-ctl` 941-1260 | `users` rows, OS accounts on management and compute nodes | create (two modes), delete, quota | several steps on several machines, each may fail |
| SSH keys | `app.py` 564-593, 1099-1148; `portal-ctl` 1617-1730 | `ssh_keys` rows, `authorized_keys` | import, add, delete | read-modify-write over two stores the user edits too |
| Plans and charging | `app.py` 719-867, 1259-1296, 1460-1503, 2252-2380, 2680-2762; `portal-ctl` 1291-1305, 1387-1392 | `plans` rows, plan and account of `instances` rows | add, toggle, delete; choosing the account of a submission | guards over two tables, lists read before they are used |
| Personal images | `portal-ctl` 2665-3100; `app.py` 1603-1860 | files `<name>.sqsh`, `<name>.sqsh.part`, references from `instances` | save, rename, delete, order | an export of minutes under a fixed temporary name, guards read before a submission |
| Command-line client | `src/terminal` | configuration and binary on disk | login, logout, install, private commands | atomic replacement |
| Provisioning, views, start-up, scripts, front end | see `PROJECT.json` | none, or files of their own | | nothing over several steps of the running system |

How they interact. A request handler calls the helper synchronously
(`ctl.run`, with a time limit) between two SQL statements; SQLite serialises
the statements, nothing serialises the handlers. Background threads (the
expiry loop, one worker per running export, the watcher of the password file)
use the same tables. `bootstrap.py` is another process over the same database
and password file. Slurm changes jobs by itself and is only seen through the
answers of the helper. Nothing but the database, the files and Slurm survives a
restart of the portal.

Hard behaviours, and the properties that answer them:

* *stale handlers* - a handler acts on a row that was restarted, stopped or
  deleted meanwhile: `NoForeignJob`, `OwnRowOnly`, `NoResurrection`,
  `StaysCancelled`, `ForgetsOnlyEndedJobs`, `ExpiryStopsDueOnly`, `OneHome`;
* *two stores* - a job exists before its row, a row before its account, a key
  in a file and in a table, a quota on the disk and in a row: `NoOrphan`,
  `UpPortsDistinct`, `RowBacked`, `SyncedOnSuccess`, `RegisteredKeyWorks`,
  `QuotaAgrees`, `RowHasLogin`, `DefaultIsMember`;
* *leases* - a port given back while a submission holds it:
  `LeaseTakenByHolder`, `ActivePortLeased`;
* *persistent flags of volatile threads* - `SavingHasWorker`, `SavingEnds`;
* *background work* - `OneExpiryPerJob`, `DueStops`, `FileApplied`;
* *credentials that must die* - `SessionsProve`, `TokensPromise`,
  `PasswordKept`; *check, then act* - `LockoutBound`;
* *long operations under a name* - `ImagesWhole`, `NothingOverwritten`,
  `ImageAtHand`; *guards over two tables* - `PlanOnRecord`,
  `ChargedOpenAccount`.

The full list, each at its line, is `hazards` in `PROJECT.json`.

## Modules

Three specifications, each with its instances for TLC and its proofs:

| Module | Content |
|---|---|
| `OrbitSlurm` | Slurm's jobs and the helper's `submit`, `kill`, `job-state` with their failures |
| `OrbitInstances` | the tables `instances` and `user_ports`, all handlers, the expiry thread and the save workers; the properties |
| `OrbitTokens` | abstract: what terminal tokens promise |
| `OrbitCredentials` | passwords, epochs, cookies, tokens, failure counter, password file, watcher, root's edits, crashes; the properties |
| `OrbitDesk` | administration: threads with their tasks, all variables, how a request begins |
| `OrbitAccounts` | extends it with billing accounts and Slurm's associations |
| `OrbitUsers` | extends that with users, machines, quotas, keys |
| `OrbitPlans` | extends that with plans and with who pays for a resource |
| `OrbitImages` | extends `OrbitDesk` with personal images and the resources that use them |
| `OrbitTenants` | composes the four: one pool of threads, all requests |
| `MCInstances`, `MCCredentials`, `MCTenants` | instances for TLC, symmetry |
| `OrbitInstancesProofs` | proofs about `OrbitInstances`: its types, and which job belongs to which resource |
| `OrbitSavingProofs` | extends it: the saving flag and the expiry |
| `OrbitPortsProofs` | extends it: owners of rows, jobs and leases; ports of active resources and of jobs that are up |
| `OrbitOrphanProofs` | extends that: orphans, terminal states, ports that are released |
| `OrbitCredentialsProofs` | proofs about `OrbitCredentials`, and that it implements `OrbitTokens` |
| `OrbitTenantsProofs` | proofs about `OrbitTenants`: its types, accounts and rows, default accounts, plans |
| `OrbitImagesProofs` | extends it: personal images |
| `OrbitUsersProofs` | extends it: logins, quotas, keys, charges, synchronised accounts |

One action is one SQL statement, one access to a file, or one step the helper
takes on a machine or in Slurm, with the checks that precede it in the same
handler. Between two actions of a handler anything may happen. `map` in
`PROJECT.json` gives the lines of every definition. Operators named in comments
as a *variant* (for example `BeginRestartUnguarded`) are not part of the model:
each is a plausible mistake in one definition, kept beside it to show that a
property notices it.

### Resources (`OrbitInstances`)

`job[j]` is a Slurm job: owner, port, phase. `row[i]` is a row of `instances`
(`"absent"` when there is none), with the columns that steer control: state,
owner, task name, job id, port, `saving`, `claimed` (`auto_saved_at` is set)
and `clock` (`started_at` empty, set, or set so long ago that the hours are
used up). `lease[p]` is the holder of a row of `user_ports`. `thread[t]` is
what one waitress thread, worker or the expiry thread (`Ticker`) is doing:
its step and its locals - the row it read, the job id it read there (`old`),
the job it submitted (`new`), the port and whether the lease it created is
still there. `todo` is the list the expiry scan works through.

`BeginStop` is the read of the row and its guards (`app.py` 1407-1419), `Kill`,
`KillFindsEnded`, `KillFails` and `KillLost` the four things `ctl.kill` can
amount to, `StopWrite` the UPDATE. `apply_submit` is `BeginApply`, `AllocPort`,
`SubmitOk`/`SubmitFails`/`SubmitLost`, `InsertOk`/`InsertConflicts`, `Rollback`,
`Unlease`; a restart shares its first half and ends in `RestartUpdate`.
`admin_apply_submit` runs the same steps for another user and is not a separate
action.

Abstractions:

* Whatever a submission is made of (image, plan, node, account, hours) is
  left out here (`OrbitPlans` and `OrbitImages` have it); the guards on it only
  make a request end early, which a request that never begins models.
* The node of a resource is not modelled, so the unique index on (node, port)
  *may* refuse an equal port and may not: both are allowed.
* `alloc_port` draws a random port; here it takes any free one. Its queries
  and its INSERT are one step, and the cooldown of 15 s after a stop is left
  out (fewer ports are free in the code than here).
* Lease ids are AUTOINCREMENT and never come back: `leased` in a thread's
  locals says whether the lease with its id still exists.
* The export of an image is one step with any outcome, because success and
  failure lead to the same next statement (`OrbitImages` takes it apart).
* A request handler ends early only by a CtlError, a unique index or a crash:
  an exception of its own between two statements (a locked database) is left
  out. `instance_save_image` sets the flag and starts its worker in one step.
* Events, messages, the display-only state `STARTING` and the start-up texts
  written by id (`app.py` 267) are left out.
* Equal states in `squeue` and `sacct` are assumed except for the failures
  named by `Faults`: `squeue` (squeue or sacct give no answer), `scancel`
  (refused), `query` (job-state ends in CtlError), `lost_reply` (submit or kill
  took effect, the reply is lost), `exception` (a save worker dies at any
  statement; its own handler does not fail), `scan` (the expiry scan dies),
  `crash` (the portal restarts), `configuring` and `requeue` (Slurm passes
  through states the portal's vocabulary lacks or goes back to PENDING).

### Credentials (`OrbitCredentials`)

`account[u]` is the row of `users` with what matters here: the password, the
hash, the session epoch, `is_active`, the role and whether the row exists. A
hash is a password and a number (`salt`): hashing draws a new salt, so two
hashes are equal only when they are the same one. `cookies` are the browser
sessions handed out - they carry user and epoch (`auth.py`), and with them goes
the hash their holder proved to know, for the property. `tokens` are the live
rows of `terminal_tokens`, `fails` the failures within the window of the user's
bucket, `file`, `tmp` the password file and its temporary file, `seen` the
content whose signature the watcher remembers, `watcher` and `request[t]` what
the threads do.

`profile_password` is `BeginChange`, `SetPassword`, `BumpEpoch`, `RenewCookie`,
then `ReadFile`, `WriteTmp`, `ReplaceFile` (`pwfile.upsert`); a reset, a toggle,
a change of role, a deletion, `bootstrap.py` and a change from the terminal use
the steps of these they have. The triggers of `db.py` that revoke tokens, and
the cascade of a deletion, are `Revoke` in the step of the UPDATE that fires
them. A terminal login is `BeginTerminal` (counter), `PasswordRight` or
`PasswordWrong`, `Issue` (the conditional INSERT) or `RecordFailure`. The
watcher's tick is `Tick`, `SyncRead`, `SyncVerify`, `SyncSet`, `SyncBump`,
`SyncEnds`. Root edits the file at any moment.

Abstractions: the bucket per address is left out (it locks more, never less);
the display name, the token's text and the lengths of its life and of the
window are left out (`TokenEnds`, `WindowEnds` may happen at any time). The
watcher's signature is the hash of what the file holds, so two signatures are
equal when the contents are. `chosen` is a history variable: the password last
chosen for a user by anybody.

`OrbitTokens` is the promise, without threads: a token is granted only on the
present password of an enabled user, and the step that changes the password or
disables the user withdraws all his tokens. `TokensPromise` maps its variables
to the hashes, the rows that are present and active, and the live tokens.

### Administration (`OrbitTenants`)

`task[t]` is the step a thread is at with the locals of its handler; `ops` the
operations and faults of the behaviour (below). Users: `user[n]` (row with id,
mode, quota), `os[n]` (account on the management node with its `authorized_keys`
and quota), `nodes` (who has one on the compute nodes), `keyRow[n]`. Accounts:
`acctRow[a]` (priority, preemption, not expired), `slurm`, `qos[a]`, `member[u]`,
`default[u]`. Images: `image[n]`, `part[n]`, `inst[i]`. Plans: `plan[p]`,
`booked[r]`.

* *Accounts.* Adding and editing are `WriteRow`, `ReadRows` (the payload of
  `_sync_accounts_to_slurm`), `SyncEnsure` for each account, `SyncRead` and
  `SyncApply` for each QoS, `SyncReturns`, or `SyncFails` and `Undo`. Undo puts
  the row back but does not send it to Slurm again: so the code does it. Deleting
  is `CheckDelete`, `DropAccount`, `DropQos`, `DeleteRow`; when the QoS cannot be
  deleted or the reply is lost (`half`) the row stays without its account.
  `DropQos` removes the QoS whether or not the helper's list showed one.
* *Users.* `Provision` is add-user.sh on the management node with its
  association; a failing set-quota.sh is ignored there, as in the script.
  `Spread` is the compute nodes. The mode "existing" looks at the management node
  only. Deletion works from the nodes to the database; userdel may fail on a
  compute node or on the management node, which is reported after the rest was
  done, and keeps the row; a repeated deletion then finds nothing to do where
  the management node has no account any more. The model
  has one account to create users in, the site's, and asks that it be open.
  Quota: storage first, then the row.
* *Keys.* Adding reads the file, imports, writes rows and new key to the file,
  inserts the row; deleting writes the other rows to the file, without import.
* *Plans.* A submission chooses its account from the lists of the helper and of
  the table (`AskAccounts`, `AskRaw`), the helper checks membership and Slurm
  charges (`ChargeNamed`, `ChargeDefault`); without a name the helper adds the
  user to the site's account first.
* *Images.* A save looks at the name, exports to `<name>.sqsh.part` for
  minutes, and moves that over the image; without `force` the name is looked at
  only before the export. Renaming checks, moves and then renames the references;
  root does not look at queued resources (`app.py` 1814-1821). `JobStart` looks
  under the reference the row records, which a renaming changes, while Slurm
  keeps the path the job was submitted with; this matters for renamings by root
  only, which `ImageAtHand` leaves out.

Abstractions: GPU caps travel with the priority and are left out; the expiry of
an account is a flag of its settings that edits change; editing a plan changes
figures nothing here depends on; image notes, size limits and public images, the
bound of 32 keys and malformed keys are left out; several accounts may not be
chosen at creation; `set_account_enabled` of the helper is called by nobody. One
error path (`_ensure_assocs`, `portal-ctl` 2199, returns two values where its
callers unpack three) ends the helper with an exception, which the portal sees
as any other CtlError.

## Runs

Sizes are the distinct states TLC finds. Deadlock is not checked: a bounded
model stops when its ids, changes or requests are used up, and the system
itself may be idle.

| Run | States | Question |
|---|---|---|
| `submissions` | 1.5 M | two handlers, two resources, three jobs, two ports: orphans, shared ports, late answers of Slurm |
| `expiry` | 1.3 M | the expiry thread, save workers and requests race over one resource: who resets the saving flag |
| `faults` | 0.6 M | crashes, dying threads, lost replies, refused cancellations: one expiry per job |
| `sequential` | 1.3 M | every operation of users, one request at a time, two resources, three jobs |
| `contention` | 0.8 M | two users, one port, two resources created, deleted, recreated |
| `liveness` | 23 k | every due resource is stopped, every saving flag reset |
| `credentials` | 0.4 M | old cookies and tokens stop working, guessing is bounded, the file comes into force |
| `tenants` | 0.2 M | users, keys, quotas, accounts, plans and images keep together with machines and Slurm |

Bounds of the resource runs. `MaxRow`, `MaxJob` and the numbers of ports and
threads bound the instance; row and job ids are never reused, so a run ends when
they are used up. Two threads are enough for every race of two handlers, and
with the `Ticker` for a request against the scan against a worker; two rows are
needed for a job to be mistaken for another resource's, three jobs for a row that
is restarted beside a second row. Ports are as many as jobs may be up at once,
except in `contention`, where one port is what two users fight for. One user
suffices where ownership does not matter (every handler checks ownership first).
`EndStates` is `{COMPLETED}` because no handler tells the final states of a job
apart. Threads, users and ports are symmetric; `liveness` uses no symmetry.

Bounds of `credentials`. One behaviour uses the operations of one of its
`Scenarios`: browser sessions among changes and resets, the same with the
watcher, the watcher with root's edits and crashes, terminal logins among
resets and toggles, administration with a failing disk, `bootstrap.py` with an
edit and a failing watcher. Two requests at once and two changes per user make
every pair of handlers overlap and one more follow; two passwords suffice because
only equality counts, and hashes are told apart by their numbers. `Limit` is 2,
two guesses at once. These have one user (`Alone`), because cookies, tokens,
epochs and failures of different users touch nothing in common. What users share
is the file: the last scenario, marked `several`, has two users with one reset
each, the watcher and an edit of either line, so that a request for one user
rewrites what root or another request wrote for the other. Root edits the lines
of the users there were at the start; a line of an unknown name is skipped.

Bounds of `tenants`. Its fifteen scenarios are mixtures of the operations that
share state, of three kinds. In an overlapping one two threads serve up to
`MaxRequests` requests interleaved at every step. In one marked `serial` nobody
sends a request while another is under way (exports go on in the background): it
asks what long legal sequences with failures in between lead to, with up to
`MaxInTurn` requests (`MaxBooking` where resources are charged). In one where
people take `turns` only pages are looked at meanwhile, which is not innocent:
the profile imports keys. Two of everything is what the properties can tell
apart: an account beside the site's, a second image to rename to, a second plan
to delete. `Asked` bounds what overlapping requests ask for.

Runs that end in a violation document disagreements between the code and
what its documents, comments or messages say (`findings`):

| Run | What happens |
|---|---|
| `squeue_hiccup` | a reconciliation asks about a running job that squeue misses; a stop cancels it meanwhile; the reconciliation writes back the RUNNING it was told by sacct (`app.py` 630) |
| `double_restart` | two overlapping restarts: the first new job is on no row |
| `stale_expiry` | the expiry stops the run that replaced the one it had listed |
| `lost_password` | two resets rewrite the password file from copies; a line is lost, and the watcher brings the old password back (`pwfile.py` 107 against 38) |

A passing run leaves out what its property cannot survive in this code, and
the properties should be read with that condition:

* `NoResurrection` holds while squeue answers. Otherwise a reconciliation may
  write RUNNING over CANCELLED, which `squeue_hiccup` asks of a running job
  (`StaysCancelled`); a stop whose helper misses the job in squeue writes what
  sacct reports in the same way (`app.py` 1427), so that the second of two
  overlapping stops may leave a live state on the row of a cancelled job;
* `ForgetsOnlyEndedJobs`, `ActivePortLeased` hold while requests do not overlap
  (else `double_restart`);
* `NoOrphan` and `UpPortsDistinct` hold while no reply of submit is lost, the
  portal does not crash between sbatch and its INSERT, squeue answers, scancel
  is not refused in a roll-back, no job is shown as CONFIGURING, and no resource
  is restarted by two requests at once;
* `SavingHasWorker` holds while neither the portal (`crash`) nor the scan
  between the flag and its worker (`scan`) dies: the flag is in the database
  and nothing at start-up resets it;
* `DueStops` excepts a resource that is being saved by hand: somebody who saves
  it over and over hides it from every scan (`running_unauto_saved` asks for
  `saving=0`). It also needs squeue to answer, because a row that is written
  back as RUNNING after its expiry stays claimed and is not listed again;
* `SessionsProve` holds while nobody stops half-way between the hash and the
  epoch (a crash, an exception of the watcher), without `bootstrap.py --force`,
  which raises no epoch, and not for the cookie a change gives itself, which takes
  over whatever epoch the row has by then (`app.py` 1090): a reset in between
  leaves its holder logged in. A logout with an old cookie raises the epoch too,
  and logs the others out, which breaks no promise;
* `FileApplied` holds while the watcher meets no exception: the signature is
  remembered before the content is applied, so a locked database loses the edit,
  and at start-up ends the thread, since `run` calls its first tick outside `try`.
  It speaks of a line that differs from what the watcher remembers. `sync_once`
  reads the file again after `_tick` has remembered what it read first: when a
  request rewrites the file in between and another brings the first content back,
  the watcher has applied the one and will not look at the other;
* `PasswordKept` does not hold, whatever is left out: `lost_password` has neither
  faults nor edits. The fixed name of the temporary file adds to it;
* `RowBacked` holds unless the deletion of an account fails half-way (`half`);
  it holds for overlapping requests, where a stale payload may create an account
  without a row again, but never a row without its account;
* `SyncedOnSuccess`, `DefaultIsMember`, `PlanOnRecord`, `ImageAtHand`,
  `ChargedOpenAccount` are about requests one by one: nothing in the code keeps a
  submission and the deletion of its plan or image, or two synchronisations,
  apart. `ChargedOpenAccount` needs the answers of the helper (without a list the
  check for expired accounts is skipped) and leaves out the restart of a resource
  that records no account; `ImageAtHand` leaves out root, who renames images of
  queued resources;
* `RegisteredKeyWorks`, `QuotaAgrees`, `RowHasLogin` hold while requests take
  turns and no reply is lost; two additions at once lose a key, an import that
  overlaps a deletion brings the row back, two deletions with a creation in
  between remove the new login, a failing set-quota.sh at creation (`set-quota`)
  leaves the quota unset. `RowHasLogin` also leaves out failing nodes, and
  `RegisteredKeyWorks` pages that are shown while a key is being deleted: the
  import behind the profile reads the file with the key and writes its row after
  the deletion (`app.py` 564);
* `ImagesWhole` and `NothingOverwritten` hold while no two saves of one name
  overlap, since they share the temporary file; the second also while nobody
  renames during a save, which looks at its target before the export only, nor
  beside another renaming (`NamesFixed`).

`OneExpiryPerJob`, `NoForeignJob`, `OneHome`, `OwnRowOnly`, `LeaseTakenByHolder`,
`LockoutBound` and `TokensPromise` need no such condition: they are proved for
every set of operations and of faults.

## Fairness

`FairSpec` (`OrbitInstances`) adds weak fairness of every step of a handler or
worker that has begun, and of the expiry thread, and strong fairness of the
start of a worker (which waits for nothing in the code; only the model's bound on
threads can hold it off). The code justifies it: waitress and the daemon threads
run, `ctl.run` has a time limit, so every call returns one way or the other, and
the loop wakes up every `EXPIRY_POLL_S` seconds. Nothing is assumed of users, of
Slurm, or of the outcome of a call: `DueStops` has to hold when scancel is
refused for ever (the row is then recorded as stopped), and nobody owes the
request that would notice.

`CredentialsSpec` has weak fairness of the watcher as a whole, a daemon thread
that wakes up every `PORTAL_PASSWD_SYNC_SECONDS` seconds and works through the
lines; requests, edits and faults are owed by nobody. `TenantsSpec` has no
fairness and no liveness property: a thread may wait for the helper for ever.

## Proofs

For every value of the constants that satisfies the assumptions of the modules,
hence for any number of users, ports, threads, rows, jobs, passwords and
changes, any set of operations and any set of faults, the following is proved:

| Theorem | States |
|---|---|
| `TypeCorrect` | `Spec => []TypeOK` |
| `HomesCorrect` | `Spec => []OneHome` |
| `NoForeignJobCorrect` | `Spec => []NoForeignJob` |
| `OneExpiryCorrect` | `Spec => []OneExpiryPerJob` |
| `SavingCorrect` | `Spec => []SavingHasWorker`, when `Faults` has neither `crash` nor `scan` |
| `OwnersCorrect`, `OwnRowCorrect` | `Spec => []OwnRowOnly`, by who owns what a handler has read |
| `LeaseTakenCorrect` | `Spec => LeaseTakenByHolder` |
| `JobOwnersCorrect` | jobs that are cancelled, queried or recorded belong to the user served |
| `ActivePortCorrect` | `Spec => []ActivePortLeased`, when ports are not released |
| `ActivePortReleaseCorrect` | the same with releases, when requests come one by one and squeue answers |
| `UpPortsCorrect` | `Spec => []UpPortsDistinct`, when ports are not released, no reply is lost and neither squeue nor scancel fails |
| `NoResurrectionCorrect` | `Spec => NoResurrection`, when squeue answers |
| `NoOrphanCorrect` | `Spec => []NoOrphan`, when the cluster answers (`Answered`) and restarts race with nothing (`RestartsAlone`) |
| `ForgetsOnlyEndedCorrect` | `Spec => ForgetsOnlyEndedJobs`, likewise |
| `CredentialsTypeCorrect` | `CredentialsSpec => []CredentialsTypeOK` |
| `SessionsCorrect` | `CredentialsSpec => []SessionsProve` |
| `TokensCorrect` | `CredentialsSpec => TokensPromise`, the refinement of `OrbitTokens` |
| `LockoutCorrect` | `CredentialsSpec => []LockoutBound`, when `Threads` is finite (else its cardinality means nothing) |
| `TypesOfTenants` | `TenantsSpec => []TenantsTypeOK` |
| `RowBackedCorrect` | `TenantsSpec => []RowBacked` |
| `DefaultIsMemberCorrect` | `TenantsSpec => []DefaultIsMember` |
| `SyncedOnSuccessCorrect` | `TenantsSpec => SyncedOnSuccess` |
| `ChargedOpenAccountCorrect` | `TenantsSpec => ChargedOpenAccount` |
| `PlanOnRecordCorrect` | `TenantsSpec => []PlanOnRecord` |
| `RowHasLoginCorrect` | `TenantsSpec => []RowHasLogin` |
| `QuotaAgreesCorrect` | `TenantsSpec => []QuotaAgrees` |
| `RegisteredKeyWorksCorrect` | `TenantsSpec => []RegisteredKeyWorks` |
| `ImagesWholeCorrect` | `TenantsSpec => []ImagesWhole` |
| `ImageAtHandCorrect` | `TenantsSpec => []ImageAtHand` |
| `NothingOverwrittenCorrect` | `TenantsSpec => NothingOverwritten` |

Every invariant and every action property that a passing run checks is thereby
proved. Only model-checked are the three liveness properties (`DueStops`,
`SavingEnds`, `FileApplied`): they need fairness and ENABLED, which the prover
used does not treat.

A hypothesis of a theorem is a restriction of `Ops`, `Faults` or `Threads`, and
each is one without which the code does not have the property. The properties of
`TenantsSpec` carry theirs in themselves, as conditions on `ops`; section Runs
lists them. For the resources: a port may be released while a submission holds it
and has no row yet, so that the next submission leases it too; a reply of sbatch
that is lost, a crash before the row, a scancel that fails in a roll-back and a
state CONFIGURING each leave a job without an active row; with a squeue that
fails, a cancelled resource is written back as running (`squeue_hiccup`); two restarts at
once lose a job (`double_restart`), and so does the expiry beside a restart
(`stale_expiry`). The hypotheses of `NoOrphanCorrect` and
`ForgetsOnlyEndedCorrect` do not ask for requests one by one: without restarts any
number of them may overlap. `RestartsAlone` is stronger than the code needs, since
restarts of different resources do not disturb each other; the others are not.

### Resources

`NoForeignJob` alone is not inductive: a handler could begin with the job of
another row, or record a job somebody else is linked to. `OneHome`
strengthens it. It calls a job *linked* to a row when the row has it, a thread
read it there, or the expiry scan listed it there, and says that a job is
linked to one row at most (`LinkedOnce`), that a job on its way from sbatch to
its row is linked to none and carried by one thread only (`CarriedUnlinked`,
`CarriedOnce`), and that no link or carried id lies beyond the ids given out
(`LinkedGiven`, `CarriedGiven`), which makes a fresh id unlinked.

The proof has three patterns. Nearly every step adds no link (`LinksKept`,
`HomesKept`, `QuietStep`): a thread goes on with what it had or forgets it,
and no row gets another job. `SubmitOk` carries a fresh id. `InsertOk` and
`RestartUpdate` turn the carried id into a link of one row (`RecordStep`). The
faults are part of `Spec`, so the result holds whatever fails.

`OneExpiryPerJob` needs `OneHome` and two more facts (`ExpiryInv`): a row that is
not claimed, and a row that the scan has listed, has a job whose expiry nobody
handles (`UnclaimedFree`, `ListedFree`). `Claim` is the interesting step: the
claimed row cannot be claimed again before a restart gives it another job, and
that job is one no thread is linked to, which is `CarriedUnlinked`. All other
steps begin no handling and give back no claim (`ExpiryKept`).

`SavingHasWorker` is nearly inductive (`SavingInv`): a flagged row exists, and a
thread about to set a flag is a save or the expiry. Every step either keeps the
thread on its way to the reset (`GoesOn`), resets the flag of its own row
(`Resets`), or sets it and goes on to reset it (`Flags`).

*Owners* (`OrbitPortsProofs`). No handler checks the owner of a row twice: it
has the id of a row and acts on it seconds later. `OwnerInv` says why that is
enough: a row id is given out once (`UnusedIds`, `ListedIds`), and if the row a
thread works on is still there, it is the thread's user's (`ServesUser`), as is
the lease a submission has taken. `JobOwnersInv` is the same for jobs: what a row
has, a thread has read or carries, the scan has listed, was submitted for that
user. Nearly every step leaves owners and leases as they are; what remains are
the steps that insert a row, take and delete a lease, and submit.

*Ports.* `PortsInv` follows a lease from `Alloc` to the row: a submission holds
the lease it took (`HeldLeased`), alone (`HeldOnce`), and on a port that no row
has (`HeldUnused`); the port of a row is leased to its owner, whatever the state
of the row (`RowsLeased`), because no handler gives back the port of a row. That
last fact is the one that releasing a port breaks. `UpPortsInv` adds the jobs: the
port of a job that is up is leased (`UpLeased`), and if a submission holds it, the
job is the one it submitted itself (`HeldFree`), so that sbatch never starts a
second job on a port, and a lease is returned only after the job was cancelled.

*Ports that are released.* With releases `RowsLeased` is false for a row that has
ended; `ReleaseInv` asks it of active rows only (`ActiveLeased`), and that no
thread that holds or is about to delete a lease has the port of an active row
(`PortApart`). With one request at a time nobody makes a row active in between.

*Orphans* (`OrbitOrphanProofs`). A job that is up must be shown by an active row
or carried by a submission; rows become inactive in handlers that were told so
earlier. `OrphanInv` therefore says of every thread (`Informed`) that the row it
works on has the job it has read, that this job is over if the thread is about to
write so, to delete or to restart, and that a restart still finds its row.
`StepsInv` supplies what the control flow implies: which steps each kind of
handler takes, that a state about to be written as ended is not an active one.
With the owners it gives `NoResurrection`: the compare-and-set of
`ReconcileLive` is on an active row.

### Credentials

Types are not inductive alone either (`TypeInv`): a thread that is to set a
password must have one, one that is to write the file must have read it, and
the watcher compares only lines that were there (`SoundLocals`,
`SoundWatchers`). What is not obvious in the result is that the file is never
replaced by a temporary file that another request has moved away.

`SessionsProve` speaks of cookies that work; the invariant (`SessionsInv`) is
about all of them and about logins under way. The pair of epoch and hash read
together *proves* something (`Proves`): the epoch is not from the future, and if
it is still the row's, then so is the hash, or somebody is about to raise the
epoch. Then no step can spoil it (`StaysProved`): storing a password makes its
thread one that is about to raise the epoch (`RevokingProves`), raising the epoch
leaves every pair behind (`HigherProves`), everything else leaves epoch and hash
alone (`SameRowProves`) or deletes the row (`GoneProves`). It needs that nobody
stops between the two (`Steady`).

`TokensCorrect` maps every step of `Next` to a step of `OrbitTokens` or to a
stutter. Storing a password is `Revise` (the hash is new, whatever the
password), switching off and deleting are `Disable`, the conditional INSERT is
`Grant`: its WHERE clause repeats the check of hash and activity in the statement
that inserts, which is the reason it holds although the password was verified
earlier. Crashes and exceptions need no exception here.

`LockoutBound` does not bound the failures by itself: several threads pass the
check together. `Bounded` counts with the failures those threads that have looked
at the counter and have not counted yet (`Guessers`); a thread joins only below
the limit, and counting moves one from the second number to the first
(`GuessCounted`).

### Administration

All invariants of `OrbitTenants` have one shape: what holds between requests, or
somebody at work on it, and for every handler what it has looked up and still
relies on. `TypeInv` adds to the types that a creation knows its quota.
`SingleInv` turns `serial` and `turns`, which are conditions of the moment a
request begins, into an invariant: at most one handler is past its beginning,
besides exports or pages. The lemmas named `...Flow` say of each kind of handler
which variables it leaves alone and where it goes on; with them each proof looks
only at the steps that touch its own variables.

* *Accounts.* `BackedInv`: a row without its account has a thread that answers
  for it (`Answers`) - an addition whose synchronisation has not come to it, which
  will create it or undo the row, or a deletion. It needs no order of the
  requests. `DefaultInv` adds what was looked up before an account is removed or
  left (`Leavable`). `SyncInv` follows a synchronisation (`Synced`): the accounts
  created so far, the QoSs set so far, and the settings still to be sent, computed
  from the same rows; to set one QoS changes no other's wish (`DesiredStays`), and
  when nothing is left Slurm agrees with all rows (`SyncAgrees`), whatever an
  earlier failure had left.
* *Charges and plans.* `ChargeInv` says what a submission that has asked knows of
  memberships and of expired accounts until it is charged. `PlanInv`: a plan
  about to be deleted has no resource, and what is being ordered has one.
* *Users.* `LoginInv`: a handler that found or made an account on the management
  node still finds it, the row it began with is still the one with its id, and
  who has no account is a member of none. `NodeInv` adds the compute nodes,
  `QuotaInv` that a quota about to be recorded is the one in force, `KeyInv` that
  the keys a handler has read for a row that is still there are in the file
  (`Imports`), that what is about to be written over the file contains every
  registered key, and that ids are not given twice (`Numbered`).
* *Images.* `ApartInv`: two savers have different names. `WholeInv`: an unfinished
  temporary file has a thread that exports to it, under the number it began with,
  and a file about to be moved over the image is whole (`Writes`). `HandInv`: the
  queue finds its images, and nobody renames or deletes one it needs (`Ready`).
  `FreeInv`: a name found free minutes ago is still free (`Free`).

Trying to prove them corrected the model's properties in three places: a page
shown during the deletion of a key (above), renamings that overlap each other in
`NothingOverwritten`, and `DefaultIsMember`, which holds without the exceptions it
used to have.

## Plan

1. `OrbitResource`: the promise of the life cycle - at most one live job per
   resource, a terminal resource comes back by a restart only - as an abstract
   specification that `OrbitInstances` implements when restarts do not race; the
   invariants for it (`OrphanInv`, `StepsInv`) are there.
2. `NoOrphan` with a restart beside handlers of other resources: `RestartsAlone`
   is stronger than needed where resources differ.
3. Deletion of a user against the submissions in `OrbitInstances`; the cooldown
   and the node of ports; the files of the command-line client.

Operators are written without RECURSIVE so that they can be reasoned about.

## Not modelled

* Rendering, polling and read-only pages (quotas, cluster status, downloads):
  nothing changes state.
* Argument validation, formatting, the listing of images and the catalogue of
  public ones, logs and events.
* `siteconf.py` and start-up: a file is parsed once; the restart itself is
  `Crash`.
* The command-line client, which the portal sees as the requests above, and whose
  own state is one configuration file and one binary, each replaced by a rename.
* The provisioning generator, the cluster scripts, backups and the verification
  scripts: sequential tools run by an operator, beside the running system. What
  add-user.sh and set-quota.sh do is part of `Provision` and `SetQuota`.
* Time as a number: how long the buffer of a job's wall time is, how long a
  window or a token lasts. Where time matters an event may happen at any moment.
