-------------------------- MODULE OrbitCredentials --------------------------
(***************************************************************************)
(* Who may use the portal: the password, epoch and state in a user's row,  *)
(* the browser cookies and terminal tokens handed out, the failure counter *)
(* of the terminal login, and the file of plain-text passwords that the    *)
(* portal keeps beside the users table and root may edit.  The handlers of *)
(* app.py and terminal_api.py run in parallel threads, bootstrap.py in a   *)
(* process of its own and the watcher of pwfile.py in a daemon thread.     *)
(* Each SQL statement and each access to the file is a step: PBKDF2 makes  *)
(* the time between two of them long.                                      *)
(***************************************************************************)
EXTENDS Naturals, FiniteSets

CONSTANTS Users, NoUser,
          Alone,             \* the user there is, if there are not several
          Passwords, First,  \* passwords, and the one everybody starts with
          NoPassword,        \* no line in the password file
          NoFile,            \* no such file, or nothing read yet
          Threads,           \* bound on requests that run at once
          Scenarios,         \* sets of operations and faults: a behaviour uses one
          MaxChanges,        \* bound on requests that alter a row, per user: one
                             \* if there are several
          MaxEdits,          \* bound on root's edits of the file
          MaxCrashes,        \* bound on crashes of the portal
          MaxCookies,        \* bound on cookies a login adds to
          MaxTokens,         \* bound on terminal tokens alive at once
          Limit              \* TERMINAL_LOGIN_MAX_ATTEMPTS

AllOps == {"login", "logout", "change", "reset", "toggle", "role", "bootstrap",
           "remove", "terminal", "edit", "sync", "crash", "exception", "disk", "several"}

Content == [Users -> Passwords \cup {NoPassword}]

ASSUME CredentialsAssumption ==
    /\ Alone \in Users /\ NoUser \notin Users
    /\ First \in Passwords /\ NoPassword \notin Passwords
    /\ NoFile \notin Content
    /\ \A s \in Scenarios : s \subseteq AllOps
    /\ MaxChanges \in Nat /\ MaxEdits \in Nat /\ MaxCrashes \in Nat
    /\ MaxCookies \in Nat /\ MaxTokens \in Nat
    /\ Limit \in Nat \ {0}

VARIABLES ops,      \* the operations and faults of this behaviour
          account,  \* users: user -> row
          tokens,   \* the rows of terminal_tokens that are not revoked or expired
          chosen,   \* history: the password last chosen for the user
          cookies,  \* the session cookies given to browsers, and their copies
          fails,    \* terminal_login_failures: failures of the user in the window
          file,     \* users.passwd: user -> password on his line
          tmp,      \* users.passwd.tmp
          seen,     \* the content whose signature the watcher remembers
          watcher,  \* what the watcher is doing, with its locals
          request,  \* what each thread is doing, with its locals
          changes,  \* user -> how many of MaxChanges are used
          edits,    \* how many of MaxEdits are used
          crashes   \* how many of MaxCrashes are used

dbVars == <<account, tokens, chosen>>
loginVars == <<cookies, fails>>
fileVars == <<file, tmp, edits>>
watchVars == <<seen, watcher, crashes>>
credentialVars == <<ops, dbVars, loginVars, fileVars, watchVars, request, changes>>

(* A hash is a password with its salt.  Salts are numbered, so that two    *)
(* hashes are equal only when they are the same one.                       *)
Row == [pw : Passwords, salt : Nat, epoch : Nat, active : BOOLEAN,
        role : {"user", "admin"}, present : BOOLEAN]

NewUser == [pw |-> First, salt |-> 0, epoch |-> 0, active |-> TRUE,
            role |-> "user", present |-> TRUE]
NoRow == [NewUser EXCEPT !.present = FALSE]

(* A cookie carries its user's id and epoch; proof is the hash its holder  *)
(* proved to know, renewed says that profile_password rewrote it.          *)
Cookie == [user : Users, epoch : Nat, proof : Nat, renewed : BOOLEAN]
Token  == [id : 1 .. MaxTokens, user : Users, proof : Nat]

(* The locals of a request: the password it is to set, the epoch and the   *)
(* hash (proof) of the row it read, whether that row was active or an      *)
(* administrator's (flag), the lines of the file it read.                  *)
Steps == {"idle", "session", "set", "bump", "renew", "read", "write", "replace",
          "active", "role", "delete", "verify", "issue", "count", "clear"}
Locals == [op : AllOps \cup {"none"}, step : Steps, user : Users \cup {NoUser},
           new : Passwords \cup {NoPassword}, epoch : Nat, proof : Nat,
           flag : BOOLEAN, copy : Content \cup {NoFile}]

(* The locals of the watcher: the users still to compare, the one whose    *)
(* password it is setting, the lines it read; first is the tick at start.  *)
WatcherLocals == [step : {"wait", "read", "verify", "set", "bump", "dead"},
                  first : BOOLEAN, todo : SUBSET Users, user : Users \cup {NoUser},
                  copy : Content \cup {NoFile}]

CredentialsTypeOK ==
    /\ ops \in Scenarios
    /\ account \in [Users -> Row]
    /\ tokens \subseteq Token
    /\ chosen \in [Users -> Passwords]
    /\ cookies \subseteq Cookie
    /\ fails \in [Users -> Nat]
    /\ file \in Content
    /\ tmp \in Content \cup {NoFile}
    /\ seen \in Content \cup {NoFile}
    /\ watcher \in WatcherLocals
    /\ request \in [Threads -> Locals]
    /\ changes \in [Users -> 0 .. MaxChanges]
    /\ edits \in 0 .. MaxEdits
    /\ crashes \in 0 .. MaxCrashes

Idle == [op |-> "none", step |-> "idle", user |-> NoUser, new |-> NoPassword,
         epoch |-> 0, proof |-> 0, flag |-> FALSE, copy |-> NoFile]

Started == [step |-> "wait", first |-> TRUE, todo |-> {}, user |-> NoUser,
            copy |-> NoFile]

There == IF "several" \in ops THEN Users ELSE {Alone}

Init ==
    /\ ops \in Scenarios
    /\ account = [u \in Users |-> IF u \in There THEN NewUser ELSE NoRow]
    /\ tokens = {} /\ cookies = {}
    /\ chosen = [u \in Users |-> First]
    /\ fails = [u \in Users |-> 0]
    /\ file = [u \in Users |-> IF u \in There THEN First ELSE NoPassword] /\ tmp = NoFile
    /\ seen = NoFile /\ watcher = Started
    /\ request = [t \in Threads |-> Idle]
    /\ changes = [u \in Users |-> 0] /\ edits = 0 /\ crashes = 0

-----------------------------------------------------------------------------
At(t, s) == request[t].step = s
Become(t, l) == request' = [request EXCEPT ![t] = l]
Goto(t, s) == Become(t, [request[t] EXCEPT !.step = s])
Finish(t) == Become(t, Idle)
Subject(t) == request[t].user

(* An UPDATE ... WHERE id=? changes nothing when the row has been deleted. *)
Update(u, r) == account' = IF account[u].present THEN [account EXCEPT ![u] = r]
                                                 ELSE account

Revoke(u) == tokens' = {k \in tokens : k.user # u}

(* A request starts in a free thread, with locals l, by reading a row.     *)
Begin(t, l) ==
    /\ l.op \in ops
    /\ At(t, "idle")
    /\ account[l.user].present
    /\ Become(t, l)
    /\ UNCHANGED <<ops, dbVars, loginVars, fileVars, watchVars>>

(* ... one of those that alter the row.                                    *)
BeginChanging(t, l) ==
    /\ changes[l.user] < MaxChanges
    /\ "several" \in ops => changes[l.user] = 0
    /\ changes' = [changes EXCEPT ![l.user] = @ + 1]
    /\ Begin(t, l)

(* get_user_row: the user exists, is active and has the cookie's epoch.    *)
Accepted(c) == LET a == account[c.user] IN a.present /\ a.active /\ c.epoch = a.epoch

-----------------------------------------------------------------------------
(* The browser: login, logout                                              *)

(* The row the password is compared with also gives the epoch.             *)
BeginLogin(t, u) ==
    /\ Cardinality(cookies) < MaxCookies
    /\ account[u].active
    /\ Begin(t, [Idle EXCEPT !.op = "login", !.step = "session", !.user = u,
                     !.epoch = account[u].epoch, !.proof = account[u].salt])
    /\ UNCHANGED changes

OpenSession(t) ==
    /\ At(t, "session")
    /\ cookies' = cookies \cup {[user |-> Subject(t), epoch |-> request[t].epoch,
                                 proof |-> request[t].proof, renewed |-> FALSE]}
    /\ Finish(t)
    /\ UNCHANGED <<ops, dbVars, fails, fileVars, watchVars, changes>>

(* logout reads only the id in the cookie, which may be a revoked one.     *)
BeginLogout(t, c) ==
    BeginChanging(t, [Idle EXCEPT !.op = "logout", !.step = "bump", !.user = c.user])

-----------------------------------------------------------------------------
(* A password is changed by its user (with a cookie or a token), reset by  *)
(* an administrator, reset by bootstrap.py --force.                        *)

BeginChange(t, c, p) ==
    /\ Accepted(c)
    /\ p # account[c.user].pw
    /\ BeginChanging(t, [Idle EXCEPT !.op = "change", !.step = "set",
                             !.user = c.user, !.new = p])

BeginTerminalChange(t, k, p) ==
    /\ account[k.user].active
    /\ p # account[k.user].pw
    /\ BeginChanging(t, [Idle EXCEPT !.op = "terminal", !.step = "set",
                             !.user = k.user, !.new = p])

BeginReset(t, u, p) ==
    /\ account[u].role = "user"
    /\ BeginChanging(t, [Idle EXCEPT !.op = "reset", !.step = "set", !.user = u, !.new = p])

BeginBootstrap(t, u, p) ==
    BeginChanging(t, [Idle EXCEPT !.op = "bootstrap", !.step = "set", !.user = u, !.new = p])

(* user_set_password and the trigger terminal_revoke_password.             *)
StorePassword(u, p) ==
    /\ Update(u, [account[u] EXCEPT !.pw = p, !.salt = @ + 1])
    /\ Revoke(u)

(* Variant: a reset does not raise the epoch.                              *)
SetPasswordWithoutBump(t) ==
    /\ At(t, "set")
    /\ StorePassword(Subject(t), request[t].new)
    /\ chosen' = [chosen EXCEPT ![Subject(t)] = request[t].new]
    /\ Become(t, [request[t] EXCEPT
                     !.step = IF request[t].op \in {"bootstrap", "reset"} THEN "read" ELSE "bump",
                     !.proof = account[Subject(t)].salt + 1])
    /\ UNCHANGED <<ops, loginVars, fileVars, watchVars, changes>>

(* bootstrap.py goes on to the file without raising the epoch.             *)
SetPassword(t) ==
    /\ At(t, "set")
    /\ StorePassword(Subject(t), request[t].new)
    /\ chosen' = [chosen EXCEPT ![Subject(t)] = request[t].new]
    /\ Become(t, [request[t] EXCEPT
                     !.step = IF request[t].op = "bootstrap" THEN "read" ELSE "bump",
                     !.proof = account[Subject(t)].salt + 1])
    /\ UNCHANGED <<ops, loginVars, fileVars, watchVars, changes>>

(* user_bump_session_epoch.  What follows depends on the operation: a      *)
(* change renews its own cookie, then the file is written.                 *)
BumpEpoch(t) ==
    /\ At(t, "bump")
    /\ Update(Subject(t), [account[Subject(t)] EXCEPT !.epoch = @ + 1])
    /\ CASE request[t].op = "change" -> Goto(t, "renew")
         [] request[t].op \in {"reset", "terminal"} -> Goto(t, "read")
         [] OTHER -> Finish(t)
    /\ UNCHANGED <<ops, tokens, chosen, loginVars, fileVars, watchVars, changes>>

(* session["epoch"] is read again; without a row that is an exception.     *)
RenewCookie(t) ==
    /\ At(t, "renew")
    /\ IF account[Subject(t)].present
       THEN /\ cookies' = cookies \cup {[user |-> Subject(t),
                              epoch |-> account[Subject(t)].epoch,
                              proof |-> request[t].proof, renewed |-> TRUE]}
            /\ Goto(t, "read")
       ELSE UNCHANGED cookies /\ Finish(t)
    /\ UNCHANGED <<ops, dbVars, fails, fileVars, watchVars, changes>>

-----------------------------------------------------------------------------
(* The administrator: toggle, role, delete                                 *)

BeginToggle(t, u) ==
    /\ account[u].role = "user"
    /\ BeginChanging(t, [Idle EXCEPT !.op = "toggle", !.step = "active", !.user = u,
                             !.flag = account[u].active])

(* is_active becomes the opposite of what was read; switching it off fires *)
(* terminal_revoke_disabled and is followed by a new epoch.                *)
SetActive(t) ==
    /\ At(t, "active")
    /\ Update(Subject(t), [account[Subject(t)] EXCEPT !.active = ~request[t].flag])
    /\ IF request[t].flag THEN Revoke(Subject(t)) /\ Goto(t, "bump")
                          ELSE UNCHANGED tokens /\ Finish(t)
    /\ UNCHANGED <<ops, chosen, loginVars, fileVars, watchVars, changes>>

BeginRole(t, u) ==
    BeginChanging(t, [Idle EXCEPT !.op = "role", !.step = "role", !.user = u,
                          !.flag = (account[u].role = "admin")])

SetRole(t) ==
    /\ At(t, "role")
    /\ Update(Subject(t), [account[Subject(t)] EXCEPT
                              !.role = IF request[t].flag THEN "user" ELSE "admin"])
    /\ Goto(t, "bump")
    /\ UNCHANGED <<ops, tokens, chosen, loginVars, fileVars, watchVars, changes>>

BeginRemove(t, u) ==
    /\ account[u].role = "user"
    /\ BeginChanging(t, [Idle EXCEPT !.op = "remove", !.step = "delete", !.user = u])

(* DELETE FROM users; the tokens go with the row (ON DELETE CASCADE).      *)
DeleteUser(t) ==
    /\ At(t, "delete")
    /\ account' = [account EXCEPT ![Subject(t)].present = FALSE]
    /\ Revoke(Subject(t))
    /\ Goto(t, "read")
    /\ UNCHANGED <<ops, chosen, loginVars, fileVars, watchVars, changes>>

-----------------------------------------------------------------------------
(* pwfile.upsert and pwfile.remove: the lines are read, all are written to *)
(* one fixed temporary file, which replaces the password file.             *)

ReadFile(t) ==
    /\ At(t, "read")
    /\ Become(t, [request[t] EXCEPT !.step = "write", !.copy = file])
    /\ UNCHANGED <<ops, dbVars, loginVars, fileVars, watchVars, changes>>

WriteTmp(t) ==
    /\ At(t, "write")
    /\ tmp' = [request[t].copy EXCEPT ![Subject(t)] = request[t].new]
    /\ Become(t, [request[t] EXCEPT !.step = "replace", !.copy = NoFile])
    /\ UNCHANGED <<ops, dbVars, loginVars, file, edits, watchVars, changes>>

(* Variant: the temporary file that another request has moved is moved.    *)
ReplaceFileAnyway(t) ==
    /\ At(t, "replace")
    /\ file' = tmp
    /\ tmp' = NoFile
    /\ Finish(t)
    /\ UNCHANGED <<ops, dbVars, loginVars, edits, watchVars, changes>>

(* os.replace raises when another request has moved the file already; the  *)
(* handler ignores every exception.                                        *)
ReplaceFile(t) ==
    /\ At(t, "replace")
    /\ file' = IF tmp = NoFile THEN file ELSE tmp
    /\ tmp' = NoFile
    /\ Finish(t)
    /\ UNCHANGED <<ops, dbVars, loginVars, edits, watchVars, changes>>

FileFails(t) ==
    /\ "disk" \in ops
    /\ request[t].step \in {"read", "write", "replace"}
    /\ Finish(t)
    /\ UNCHANGED <<ops, dbVars, loginVars, fileVars, watchVars, changes>>

-----------------------------------------------------------------------------
(* The terminal: login with its failure counter, tokens                    *)

(* Variant: one more failure than the limit is let through.                *)
LockedOneLater(u) == fails[u] > Limit

(* retry_after, for the bucket of the user name.                           *)
Locked(u) == fails[u] >= Limit

BeginTerminal(t, u) ==
    /\ ~Locked(u)
    /\ Begin(t, [Idle EXCEPT !.op = "terminal", !.step = "verify", !.user = u])
    /\ UNCHANGED changes

(* The row is read and the password compared: right, or wrong.             *)
PasswordRight(t) ==
    /\ At(t, "verify")
    /\ account[Subject(t)].present /\ account[Subject(t)].active
    /\ Become(t, [request[t] EXCEPT !.step = "issue", !.proof = account[Subject(t)].salt])
    /\ UNCHANGED <<ops, dbVars, loginVars, fileVars, watchVars, changes>>

PasswordWrong(t) ==
    /\ At(t, "verify")
    /\ Goto(t, "count")
    /\ UNCHANGED <<ops, dbVars, loginVars, fileVars, watchVars, changes>>

RecordFailure(t) ==
    /\ At(t, "count")
    /\ fails' = [fails EXCEPT ![Subject(t)] = @ + 1]
    /\ Finish(t)
    /\ UNCHANGED <<ops, dbVars, cookies, fileVars, watchVars, changes>>

Grantable(t, n) == [id |-> n, user |-> Subject(t), proof |-> request[t].proof]

(* Variant: the token is inserted without looking at the row again.        *)
IssueUnchecked(t) ==
    /\ At(t, "issue")
    /\ \E n \in 1 .. MaxTokens :
        /\ \A k \in tokens : k.id # n
        /\ tokens' = tokens \cup {Grantable(t, n)}
    /\ Goto(t, "clear")
    /\ UNCHANGED <<ops, account, chosen, loginVars, fileVars, watchVars, changes>>

(* issue: INSERT ... SELECT FROM users WHERE id=? AND passwd=? AND is_active=1. *)
StillSame(t) == LET a == account[Subject(t)] IN
                a.present /\ a.active /\ a.salt = request[t].proof

Issue(t) ==
    /\ At(t, "issue")
    /\ StillSame(t)
    /\ \E n \in 1 .. MaxTokens :
        /\ \A k \in tokens : k.id # n
        /\ tokens' = tokens \cup {Grantable(t, n)}
    /\ Goto(t, "clear")
    /\ UNCHANGED <<ops, account, chosen, loginVars, fileVars, watchVars, changes>>

IssueRefused(t) ==
    /\ At(t, "issue")
    /\ ~StillSame(t)
    /\ Finish(t)
    /\ UNCHANGED <<ops, dbVars, loginVars, fileVars, watchVars, changes>>

ClearFailures(t) ==
    /\ At(t, "clear")
    /\ fails' = [fails EXCEPT ![Subject(t)] = 0]
    /\ Finish(t)
    /\ UNCHANGED <<ops, dbVars, cookies, fileVars, watchVars, changes>>

(* The window of the failures is over.                                     *)
WindowEnds(u) ==
    /\ fails[u] > 0
    /\ fails' = [fails EXCEPT ![u] = 0]
    /\ UNCHANGED <<ops, dbVars, cookies, fileVars, watchVars, request, changes>>

(* The terminal logs out, or expires_at is reached.                        *)
TokenEnds(k) ==
    /\ tokens' = tokens \ {k}
    /\ UNCHANGED <<ops, account, chosen, loginVars, fileVars, watchVars, request, changes>>

-----------------------------------------------------------------------------
(* PwFileWatcher                                                           *)

Watch(w) == watcher' = w
WatcherAt(s) == "sync" \in ops /\ watcher.step = s
Settled == [Started EXCEPT !.first = FALSE]

(* Variant: the tick at start-up only remembers the signature.             *)
TickWithoutFirst ==
    /\ WatcherAt("wait")
    /\ file # seen
    /\ seen' = file
    /\ Watch(IF watcher.first THEN Settled ELSE [watcher EXCEPT !.step = "read"])
    /\ UNCHANGED <<ops, dbVars, loginVars, fileVars, crashes, request, changes>>

(* _tick remembers the signature of what it read, then sync_once reads the *)
(* file again.                                                             *)
Tick ==
    /\ WatcherAt("wait")
    /\ file # seen
    /\ seen' = file
    /\ Watch([watcher EXCEPT !.step = "read"])
    /\ UNCHANGED <<ops, dbVars, loginVars, fileVars, crashes, request, changes>>

SyncRead ==
    /\ WatcherAt("read")
    /\ Watch([watcher EXCEPT !.step = "verify", !.copy = file,
                             !.todo = {u \in Users : file[u] # NoPassword}])
    /\ UNCHANGED <<ops, dbVars, loginVars, seen, crashes, fileVars, request, changes>>

(* A line whose user is unknown or whose password is in force is skipped.  *)
SyncVerify(u) ==
    /\ WatcherAt("verify")
    /\ u \in watcher.todo
    /\ Watch(IF account[u].present /\ account[u].pw # watcher.copy[u]
             THEN [watcher EXCEPT !.step = "set", !.todo = @ \ {u}, !.user = u]
             ELSE [watcher EXCEPT !.todo = @ \ {u}])
    /\ UNCHANGED <<ops, dbVars, loginVars, seen, crashes, fileVars, request, changes>>

SyncSet ==
    /\ WatcherAt("set")
    /\ StorePassword(watcher.user, watcher.copy[watcher.user])
    /\ Watch([watcher EXCEPT !.step = "bump"])
    /\ UNCHANGED <<ops, chosen, loginVars, seen, crashes, fileVars, request, changes>>

SyncBump ==
    /\ WatcherAt("bump")
    /\ LET u == watcher.user IN Update(u, [account[u] EXCEPT !.epoch = @ + 1])
    /\ Watch([watcher EXCEPT !.step = "verify", !.user = NoUser])
    /\ UNCHANGED <<ops, tokens, chosen, loginVars, seen, crashes, fileVars, request, changes>>

SyncEnds ==
    /\ WatcherAt("verify")
    /\ watcher.todo = {}
    /\ Watch(Settled)
    /\ UNCHANGED <<ops, dbVars, loginVars, seen, crashes, fileVars, request, changes>>

(* The database is locked: the tick is given up, with its signature        *)
(* remembered; at start-up nothing catches it and the thread ends.         *)
SyncException ==
    /\ "exception" \in ops
    /\ \E s \in {"verify", "set", "bump"} : WatcherAt(s)
    /\ Watch([Settled EXCEPT !.step = IF watcher.first THEN "dead" ELSE "wait"])
    /\ UNCHANGED <<ops, dbVars, loginVars, seen, crashes, fileVars, request, changes>>

-----------------------------------------------------------------------------
RootEdits(u, p) ==
    /\ "edit" \in ops
    /\ edits < MaxEdits
    /\ edits' = edits + 1
    /\ file' = [file EXCEPT ![u] = p]
    /\ chosen' = [chosen EXCEPT ![u] = p]
    /\ UNCHANGED <<ops, account, tokens, loginVars, tmp, watchVars, request, changes>>

(* The portal dies and is started again; bootstrap.py is another process.  *)
Crash ==
    /\ "crash" \in ops
    /\ crashes < MaxCrashes
    /\ crashes' = crashes + 1
    /\ request' = [t \in Threads |-> IF request[t].op = "bootstrap" THEN request[t] ELSE Idle]
    /\ seen' = NoFile
    /\ watcher' = Started
    /\ UNCHANGED <<ops, dbVars, loginVars, fileVars, changes>>

Arrival(t) ==
    \/ \E u \in Users : \/ BeginLogin(t, u) \/ BeginTerminal(t, u)
                        \/ BeginToggle(t, u) \/ BeginRole(t, u) \/ BeginRemove(t, u)
                        \/ \E p \in Passwords : BeginReset(t, u, p) \/ BeginBootstrap(t, u, p)
    \/ \E c \in cookies : BeginLogout(t, c) \/ \E p \in Passwords : BeginChange(t, c, p)
    \/ \E k \in tokens, p \in Passwords : BeginTerminalChange(t, k, p)

Handling(t) ==
    \/ OpenSession(t)
    \/ SetPassword(t) \/ BumpEpoch(t) \/ RenewCookie(t)
    \/ SetActive(t) \/ SetRole(t) \/ DeleteUser(t)
    \/ ReadFile(t) \/ WriteTmp(t) \/ ReplaceFile(t) \/ FileFails(t)
    \/ PasswordRight(t) \/ PasswordWrong(t) \/ RecordFailure(t)
    \/ Issue(t) \/ IssueRefused(t) \/ ClearFailures(t)

Watching ==
    \/ Tick \/ SyncRead \/ SyncSet \/ SyncBump \/ SyncEnds \/ SyncException
    \/ \E u \in Users : SyncVerify(u)

Next ==
    \/ \E t \in Threads : Arrival(t) \/ Handling(t)
    \/ Watching
    \/ \E u \in Users : WindowEnds(u)
    \/ \E u \in There, p \in Passwords : RootEdits(u, p)
    \/ \E k \in tokens : TokenEnds(k)
    \/ Crash

(* The watcher wakes up every PORTAL_PASSWD_SYNC_SECONDS; nobody owes a    *)
(* request, an edit or a fault.                                            *)
CredentialsSpec == Init /\ [][Next]_credentialVars /\ WF_credentialVars(Watching)

-----------------------------------------------------------------------------
(* Somebody has stored a new password and is about to raise the epoch.     *)
Revoking(u) ==
    \/ \E t \in Threads : At(t, "bump") /\ Subject(t) = u /\ request[t].op # "logout"
    \/ watcher.step = "bump" /\ watcher.user = u

(* A cookie that still works was given to somebody who knew the password   *)
(* in force, however logins, changes, resets and the watcher overlap; but  *)
(* for the cookie a change gives itself, and as long as nobody stops half- *)
(* way (a crash, an exception of the watcher) or bootstrap.py is used.     *)
SessionsProve ==
    ops \cap {"crash", "exception", "bootstrap"} = {} =>
        \A c \in cookies : Accepted(c) =>
            c.renewed \/ c.proof = account[c.user].salt \/ Revoking(c.user)

(* Wrong passwords are checked and counted in two statements: at most one  *)
(* guess per thread gets past the limit.                                   *)
LockoutBound == \A u \in Users : fails[u] < Limit + Cardinality(Threads)

(* A line that is new since the watcher last looked, be it root's or one   *)
(* that a request has put back from its copy, comes into force or is       *)
(* replaced in the file, however requests rewrite it and across restarts.  *)
NewLine(u, p) == file[u] = p /\ account[u].present /\ (seen = NoFile \/ seen[u] # p)
Applied(u, p) == account[u].pw = p \/ file[u] # p \/ ~account[u].present

FileApplied ==
    "sync" \in ops /\ "exception" \notin ops =>
        \A u \in Users, p \in Passwords : NewLine(u, p) ~> Applied(u, p)

(* Terminal tokens keep the promise of OrbitTokens.                        *)
Promise == INSTANCE OrbitTokens WITH
    secret  <- [u \in Users |-> account[u].salt],
    enabled <- {u \in Users : account[u].present /\ account[u].active},
    granted <- tokens

TokensPromise == Promise!TokensSpec

(* When nothing is under way, everybody's password is the one last chosen. *)
Quiet == /\ \A t \in Threads : At(t, "idle")
         /\ watcher.step = "wait" /\ (file = seen \/ "sync" \notin ops)
PasswordKept == Quiet => \A u \in Users : account[u].present => account[u].pw = chosen[u]
=============================================================================
