----------------------- MODULE OrbitCredentialsProofs -----------------------
(***************************************************************************)
(* Theorems about OrbitCredentials, for every number of users, passwords,  *)
(* threads and changes, every set of operations and every fault.           *)
(***************************************************************************)
EXTENDS OrbitCredentials, FiniteSetTheorems, TLAPS

-----------------------------------------------------------------------------
(* Type correctness                                                        *)

(* A request under way is about a user; one that is to set a password has  *)
(* it; one that is to write the file has read it.                          *)
SoundLocals ==
    {l \in Locals : /\ l.step # "idle" => l.user \in Users
                    /\ l.step = "set" => l.new \in Passwords
                    /\ l.step = "write" => l.copy \in Content}

(* The watcher compares and sets passwords of lines it has read.           *)
SoundWatchers ==
    {w \in WatcherLocals :
        /\ w.step \in {"verify", "set", "bump"} =>
              w.copy \in Content /\ \A u \in w.todo : w.copy[u] # NoPassword
        /\ w.step \in {"set", "bump"} => w.user \in Users /\ w.copy[w.user] # NoPassword}

TypeInv ==
    /\ CredentialsTypeOK
    /\ request \in [Threads -> SoundLocals]
    /\ watcher \in SoundWatchers

LEMMA BecomeType ==
    ASSUME NEW t \in Threads, NEW l \in SoundLocals,
           request \in [Threads -> SoundLocals], Become(t, l)
    PROVE  request' \in [Threads -> SoundLocals]
  BY DEF Become

LEMMA IdleType == Idle \in SoundLocals
  BY DEF Idle, SoundLocals, Locals, Steps

LEMMA FinishType ==
    ASSUME NEW t \in Threads, request \in [Threads -> SoundLocals], Finish(t)
    PROVE  request' \in [Threads -> SoundLocals]
  BY IdleType, BecomeType DEF Finish

(* The steps a request may go on to when it has nothing more to know.      *)
LEMMA GotoType ==
    ASSUME NEW t \in Threads, NEW s \in Steps \ {"set", "write"},
           request \in [Threads -> SoundLocals], request[t].step # "idle", Goto(t, s)
    PROVE  request' \in [Threads -> SoundLocals]
  <1> DEFINE m == request[t]
             l == [m EXCEPT !.step = s]
  <1>1. m \in Locals /\ m.user \in Users
    BY DEF SoundLocals
  <1>2. Become(t, l)
    BY DEF Goto
  <1> HIDE DEF m
  <1>3. l \in SoundLocals
    BY <1>1 DEF SoundLocals, Locals
  <1>4. QED
    BY <1>2, <1>3, BecomeType

LEMMA BusyType ==
    ASSUME request \in [Threads -> SoundLocals], NEW t \in Threads, ~At(t, "idle")
    PROVE  Subject(t) \in Users
  BY DEF At, Subject, SoundLocals

LEMMA UpdateType ==
    ASSUME NEW u, NEW r, account \in [Users -> Row], u \in Users => r \in Row, Update(u, r)
    PROVE  account' \in [Users -> Row]
  BY DEF Update

LEMMA BeginType ==
    ASSUME TypeInv, NEW t \in Threads, NEW l \in SoundLocals, Begin(t, l)
    PROVE  request' \in [Threads -> SoundLocals]
  BY BecomeType DEF TypeInv, Begin

LEMMA TypeKept ==
    ASSUME TypeInv, request' \in [Threads -> SoundLocals], changes' \in [Users -> 0 .. MaxChanges],
           UNCHANGED <<ops, dbVars, loginVars, fileVars, watchVars>>
    PROVE  TypeInv'
  <1>1. request' \in [Threads -> Locals]
    BY DEF SoundLocals
  <1>2. QED
    BY <1>1 DEF TypeInv, CredentialsTypeOK, dbVars, loginVars, fileVars, watchVars

LEMMA BeginUnchangedType ==
    ASSUME TypeInv, NEW t \in Threads, NEW l \in SoundLocals, Begin(t, l), UNCHANGED changes
    PROVE  TypeInv'
  <1>1. request' \in [Threads -> SoundLocals]
    BY BeginType
  <1>2. QED
    BY <1>1, TypeKept DEF Begin, TypeInv, CredentialsTypeOK

LEMMA BeginChangingType ==
    ASSUME TypeInv, NEW t \in Threads, NEW l \in SoundLocals, l.user \in Users,
           BeginChanging(t, l)
    PROVE  TypeInv'
  <1>1. request' \in [Threads -> SoundLocals]
    BY BeginType DEF BeginChanging
  <1>2. changes' \in [Users -> 0 .. MaxChanges]
    BY CredentialsAssumption DEF BeginChanging, TypeInv, CredentialsTypeOK
  <1>3. QED
    BY <1>1, <1>2, TypeKept DEF BeginChanging, Begin

LEMMA ArrivalType ==
    ASSUME TypeInv, NEW t \in Threads, Arrival(t)
    PROVE  TypeInv'
  <1> USE IdleType
  <1>1. ASSUME NEW u \in Users, BeginLogin(t, u) PROVE TypeInv'
    <2> DEFINE l == [Idle EXCEPT !.op = "login", !.step = "session", !.user = u,
                         !.epoch = account[u].epoch, !.proof = account[u].salt]
    <2>1. account[u] \in Row
      BY DEF TypeInv, CredentialsTypeOK
    <2>2. account[u].epoch \in Nat /\ account[u].salt \in Nat
      BY <2>1 DEF Row
    <2>3. l \in Locals
      BY <2>2 DEF Idle, Locals, Steps, AllOps
    <2>4. l \in SoundLocals
      BY <2>3 DEF Idle, SoundLocals
    <2>5. Begin(t, l) /\ UNCHANGED changes
      BY <1>1 DEF BeginLogin
    <2> HIDE DEF l
    <2>6. QED
      BY <2>4, <2>5, BeginUnchangedType
  <1>2. ASSUME NEW u \in Users, BeginTerminal(t, u) PROVE TypeInv'
    <2> DEFINE l == [Idle EXCEPT !.op = "terminal", !.step = "verify", !.user = u]
    <2>1. l \in SoundLocals
      BY DEF Idle, SoundLocals, Locals, Steps, AllOps
    <2>2. Begin(t, l) /\ UNCHANGED changes
      BY <1>2 DEF BeginTerminal
    <2> HIDE DEF l
    <2>3. QED
      BY <2>1, <2>2, BeginUnchangedType
  <1>3. ASSUME NEW o \in AllOps, NEW s \in Steps \ {"set", "write"}, NEW u \in Users,
               NEW b \in BOOLEAN,
               BeginChanging(t, [Idle EXCEPT !.op = o, !.step = s, !.user = u, !.flag = b])
        PROVE TypeInv'
    <2> DEFINE l == [Idle EXCEPT !.op = o, !.step = s, !.user = u, !.flag = b]
    <2>1. l \in Locals
      BY DEF Idle, SoundLocals, Locals
    <2>2. l \in SoundLocals /\ l.user \in Users
      BY <2>1 DEF Idle, SoundLocals
    <2>3. BeginChanging(t, l)
      BY <1>3
    <2> HIDE DEF l
    <2>4. QED
      BY <2>2, <2>3, BeginChangingType
  <1>0. ASSUME NEW o \in AllOps, NEW s \in Steps \ {"set", "write"}, NEW u \in Users,
               BeginChanging(t, [Idle EXCEPT !.op = o, !.step = s, !.user = u])
        PROVE TypeInv'
    <2> DEFINE l == [Idle EXCEPT !.op = o, !.step = s, !.user = u]
    <2>1. l \in Locals
      BY DEF Idle, SoundLocals, Locals
    <2>2. l \in SoundLocals /\ l.user \in Users
      BY <2>1 DEF Idle, SoundLocals
    <2>3. BeginChanging(t, l)
      BY <1>0
    <2> HIDE DEF l
    <2>4. QED
      BY <2>2, <2>3, BeginChangingType
  <1>4. ASSUME NEW u \in Users, BeginToggle(t, u) PROVE TypeInv'
    <2>1. account[u] \in Row
      BY DEF TypeInv, CredentialsTypeOK
    <2>2. account[u].active \in BOOLEAN
      BY <2>1 DEF Row
    <2>3. "toggle" \in AllOps /\ "active" \in Steps \ {"set", "write"}
      BY DEF AllOps, Steps
    <2>4. QED
      BY <1>3, <1>4, <2>2, <2>3 DEF BeginToggle
  <1>5. ASSUME NEW u \in Users, BeginRole(t, u) PROVE TypeInv'
    <2>1. (account[u].role = "admin") \in BOOLEAN
      OBVIOUS
    <2>2. "role" \in AllOps /\ "role" \in Steps \ {"set", "write"}
      BY DEF AllOps, Steps
    <2>3. QED
      BY <1>3, <1>5, <2>1, <2>2 DEF BeginRole
  <1>6. ASSUME NEW u \in Users, BeginRemove(t, u) PROVE TypeInv'
    <2>1. "remove" \in AllOps /\ "delete" \in Steps \ {"set", "write"}
      BY DEF AllOps, Steps
    <2>2. QED
      BY <1>0, <1>6, <2>1 DEF BeginRemove
  <1>7. ASSUME NEW c \in cookies, BeginLogout(t, c) PROVE TypeInv'
    <2>1. c.user \in Users
      BY DEF TypeInv, CredentialsTypeOK, Cookie
    <2>2. "logout" \in AllOps /\ "bump" \in Steps \ {"set", "write"}
      BY DEF AllOps, Steps
    <2>3. QED
      BY <1>0, <1>7, <2>1, <2>2 DEF BeginLogout
  <1>8. ASSUME NEW o \in AllOps, NEW u \in Users, NEW p \in Passwords,
               BeginChanging(t, [Idle EXCEPT !.op = o, !.step = "set", !.user = u, !.new = p])
        PROVE TypeInv'
    <2> DEFINE l == [Idle EXCEPT !.op = o, !.step = "set", !.user = u, !.new = p]
    <2>1. l \in SoundLocals /\ l.user \in Users
      BY DEF Idle, SoundLocals, Locals, Steps
    <2>2. BeginChanging(t, l)
      BY <1>8
    <2> HIDE DEF l
    <2>3. QED
      BY <2>1, <2>2, BeginChangingType
  <1>9. ASSUME NEW p \in Passwords,
               \/ \E u \in Users : BeginReset(t, u, p) \/ BeginBootstrap(t, u, p)
               \/ \E c \in cookies : BeginChange(t, c, p)
               \/ \E k \in tokens : BeginTerminalChange(t, k, p)
        PROVE TypeInv'
    <2>1. /\ \A c \in cookies : c.user \in Users
          /\ \A k \in tokens : k.user \in Users
      BY DEF TypeInv, CredentialsTypeOK, Cookie, Token
    <2>2. {"change", "terminal", "reset", "bootstrap"} \subseteq AllOps
      BY DEF AllOps
    <2>3. QED
      BY <1>8, <1>9, <2>1, <2>2 DEF BeginReset, BeginBootstrap, BeginChange,
                                    BeginTerminalChange
  <1>10. QED
    BY <1>1, <1>2, <1>4, <1>5, <1>6, <1>7, <1>9 DEF Arrival

(* A step of a handler that changes only the rows in the database.         *)
LEMMA DatabaseType ==
    ASSUME TypeInv, request' \in [Threads -> SoundLocals], account' \in [Users -> Row],
           tokens' \subseteq Token, chosen' \in [Users -> Passwords],
           UNCHANGED <<ops, loginVars, fileVars, watchVars, changes>>
    PROVE  TypeInv'
  <1>1. request' \in [Threads -> Locals]
    BY DEF SoundLocals
  <1>2. QED
    BY <1>1 DEF TypeInv, CredentialsTypeOK, loginVars, fileVars, watchVars

(* A step that changes only cookies and failure counters.                  *)
LEMMA LoginVarsType ==
    ASSUME TypeInv, request' \in [Threads -> SoundLocals], cookies' \subseteq Cookie,
           fails' \in [Users -> Nat],
           UNCHANGED <<ops, dbVars, fileVars, watchVars, changes>>
    PROVE  TypeInv'
  <1>1. request' \in [Threads -> Locals]
    BY DEF SoundLocals
  <1>2. QED
    BY <1>1 DEF TypeInv, CredentialsTypeOK, dbVars, fileVars, watchVars

(* A step that changes only the password file or its temporary file.       *)
LEMMA FileType ==
    ASSUME TypeInv, request' \in [Threads -> SoundLocals], file' \in Content,
           tmp' \in Content \cup {NoFile},
           UNCHANGED <<ops, dbVars, loginVars, edits, watchVars, changes>>
    PROVE  TypeInv'
  <1>1. request' \in [Threads -> Locals]
    BY DEF SoundLocals
  <1>2. QED
    BY <1>1 DEF TypeInv, CredentialsTypeOK, dbVars, loginVars, watchVars

(* Changes to a row keep it well-formed.                                   *)
LEMMA RowChangesType ==
    ASSUME NEW r \in Row, NEW p \in Passwords, NEW b \in BOOLEAN, NEW o \in {"user", "admin"}
    PROVE  /\ [r EXCEPT !.pw = p, !.salt = @ + 1] \in Row
           /\ [r EXCEPT !.epoch = @ + 1] \in Row
           /\ [r EXCEPT !.active = b] \in Row
           /\ [r EXCEPT !.role = o] \in Row
           /\ [r EXCEPT !.present = b] \in Row
  <1>1. [r EXCEPT !.pw = p, !.salt = @ + 1] \in Row
    <2> DEFINE n == r.salt + 1
    <2>1. n \in Nat
      BY DEF Row
    <2> HIDE DEF n
    <2>2. [r EXCEPT !.pw = p, !.salt = n] \in Row
      BY <2>1 DEF Row
    <2>3. QED
      BY <2>2 DEF n
  <1>2. [r EXCEPT !.epoch = @ + 1] \in Row
    BY DEF Row
  <1>3. [r EXCEPT !.active = b] \in Row
    BY DEF Row
  <1>4. [r EXCEPT !.role = o] \in Row
    BY DEF Row
  <1>5. [r EXCEPT !.present = b] \in Row
    BY DEF Row
  <1>6. QED
    BY <1>1, <1>2, <1>3, <1>4, <1>5

LEMMA StorePasswordType ==
    ASSUME TypeInv, NEW u \in Users, NEW p \in Passwords, StorePassword(u, p)
    PROVE  account' \in [Users -> Row] /\ tokens' \subseteq Token
  <1> DEFINE r == [account[u] EXCEPT !.pw = p, !.salt = @ + 1]
  <1>1. account[u] \in Row /\ account \in [Users -> Row]
    BY DEF TypeInv, CredentialsTypeOK
  <1>2. r \in Row
    BY <1>1, RowChangesType
  <1>3. Update(u, r)
    BY DEF StorePassword
  <1> HIDE DEF r
  <1>4. QED
    BY <1>1, <1>2, <1>3, UpdateType
       DEF StorePassword, Revoke, TypeInv, CredentialsTypeOK

(* The handlers of passwords, states and roles.                            *)
LEMMA RowHandlingType ==
    ASSUME TypeInv, NEW t \in Threads,
           \/ SetPassword(t) \/ BumpEpoch(t) \/ SetActive(t) \/ SetRole(t) \/ DeleteUser(t)
    PROVE  TypeInv'
  <1> DEFINE u == Subject(t)
             m == request[t]
  <1>1. ~At(t, "idle")
    BY DEF SetPassword, BumpEpoch, SetActive, SetRole, DeleteUser, At
  <1>2. /\ m \in SoundLocals /\ m \in Locals /\ m.step # "idle" /\ u \in Users
        /\ request \in [Threads -> SoundLocals]
    BY <1>1, BusyType DEF TypeInv, SoundLocals, At
  <1>3. /\ account[u] \in Row /\ account \in [Users -> Row] /\ tokens \subseteq Token
        /\ chosen \in [Users -> Passwords]
    BY <1>2 DEF TypeInv, CredentialsTypeOK
  <1>4. CASE SetPassword(t)
    <2>1. m.new \in Passwords
      BY <1>2, <1>4 DEF SetPassword, At, SoundLocals
    <2>2. account' \in [Users -> Row] /\ tokens' \subseteq Token
      BY <1>2, <1>4, <2>1, StorePasswordType DEF SetPassword
    <2>3. chosen' \in [Users -> Passwords]
      BY <1>3, <1>4, <2>1 DEF SetPassword
    <2> DEFINE n == account[u].salt + 1
               s == IF m.op = "bootstrap" THEN "read" ELSE "bump"
               l == [m EXCEPT !.step = s, !.proof = n]
    <2>4. Become(t, l)
      BY <1>4 DEF SetPassword
    <2>5. n \in Nat /\ s \in {"read", "bump"}
      BY <1>3 DEF Row
    <2> HIDE DEF m, n, s
    <2>6. l \in Locals
      BY <1>2, <2>5 DEF Locals, Steps
    <2>7. l \in SoundLocals
      BY <1>2, <2>5, <2>6 DEF SoundLocals, Locals, m, Subject
    <2> HIDE DEF l
    <2>8. request' \in [Threads -> SoundLocals]
      BY <1>2, <2>4, <2>7, BecomeType
    <2>9. QED
      BY <1>4, <2>2, <2>3, <2>8, DatabaseType DEF SetPassword
  <1>5. CASE BumpEpoch(t)
    <2>1. account' \in [Users -> Row]
      BY <1>3, <1>5, RowChangesType, UpdateType DEF BumpEpoch
    <2>2. \/ Finish(t)
          \/ Goto(t, "renew")
          \/ Goto(t, "read")
      BY <1>5 DEF BumpEpoch
    <2>3. request' \in [Threads -> SoundLocals]
      BY <1>2, <2>2, FinishType, GotoType DEF Steps
    <2>4. QED
      BY <1>3, <1>5, <2>1, <2>3, DatabaseType DEF BumpEpoch
  <1>6. CASE SetActive(t)
    <2>1. account' \in [Users -> Row]
      <3>1. (~m.flag) \in BOOLEAN
        OBVIOUS
      <3>2. QED
        BY <1>3, <1>6, <3>1, RowChangesType, UpdateType DEF SetActive
    <2>2. tokens' \subseteq Token
      BY <1>3, <1>6 DEF SetActive, Revoke
    <2>3. Finish(t) \/ Goto(t, "bump")
      BY <1>6 DEF SetActive
    <2>4. request' \in [Threads -> SoundLocals]
      BY <1>2, <2>3, FinishType, GotoType DEF Steps
    <2>5. QED
      BY <1>3, <1>6, <2>1, <2>2, <2>4, DatabaseType DEF SetActive
  <1>7. CASE SetRole(t)
    <2> DEFINE o == IF m.flag THEN "user" ELSE "admin"
    <2>1. o \in {"user", "admin"} /\ Update(u, [account[u] EXCEPT !.role = o])
      BY <1>7 DEF SetRole
    <2> HIDE DEF o
    <2>2. account' \in [Users -> Row]
      BY <1>3, <2>1, RowChangesType, UpdateType
    <2>3. request' \in [Threads -> SoundLocals]
      BY <1>2, <1>7, GotoType DEF SetRole, Steps
    <2>4. QED
      BY <1>3, <1>7, <2>2, <2>3, DatabaseType DEF SetRole
  <1>8. CASE DeleteUser(t)
    <2>1. account' = [account EXCEPT ![u] = [account[u] EXCEPT !.present = FALSE]]
      BY <1>8 DEF DeleteUser
    <2>2. account' \in [Users -> Row]
      BY <1>2, <1>3, <2>1, RowChangesType
    <2>3. tokens' \subseteq Token
      BY <1>3, <1>8 DEF DeleteUser, Revoke
    <2>4. request' \in [Threads -> SoundLocals]
      BY <1>2, <1>8, GotoType DEF DeleteUser, Steps
    <2>5. QED
      BY <1>3, <1>8, <2>2, <2>3, <2>4, DatabaseType DEF DeleteUser
  <1>9. QED
    BY <1>4, <1>5, <1>6, <1>7, <1>8

(* The password file is read, written to the temporary file, replaced.     *)
LEMMA FileHandlingType ==
    ASSUME TypeInv, NEW t \in Threads,
           ReadFile(t) \/ WriteTmp(t) \/ ReplaceFile(t) \/ FileFails(t)
    PROVE  TypeInv'
  <1> DEFINE m == request[t]
  <1>1. ~At(t, "idle")
    BY DEF ReadFile, WriteTmp, ReplaceFile, FileFails, At
  <1>2. /\ m \in SoundLocals /\ m \in Locals /\ m.step # "idle" /\ m.user \in Users
        /\ request \in [Threads -> SoundLocals]
        /\ file \in Content /\ tmp \in Content \cup {NoFile} /\ NoFile \notin Content
        /\ changes \in [Users -> 0 .. MaxChanges]
    BY <1>1, CredentialsAssumption DEF TypeInv, CredentialsTypeOK, SoundLocals, At
  <1>3. CASE ReadFile(t)
    <2> DEFINE l == [m EXCEPT !.step = "write", !.copy = file]
    <2>1. Become(t, l)
      BY <1>3 DEF ReadFile
    <2> HIDE DEF m
    <2>2. l \in Locals
      BY <1>2 DEF Locals, Steps
    <2>3. l \in SoundLocals
      BY <1>2, <2>2 DEF SoundLocals, Locals
    <2> HIDE DEF l
    <2>4. request' \in [Threads -> SoundLocals]
      BY <1>2, <2>1, <2>3, BecomeType
    <2>5. QED
      BY <1>2, <1>3, <2>4, TypeKept DEF ReadFile
  <1>4. CASE WriteTmp(t)
    <2> DEFINE l == [m EXCEPT !.step = "replace", !.copy = NoFile]
    <2>1. Become(t, l) /\ tmp' = [m.copy EXCEPT ![m.user] = m.new] /\ m.step = "write"
      BY <1>4 DEF WriteTmp, Subject, At
    <2> HIDE DEF m
    <2>2. m.copy \in Content /\ m.new \in Passwords \cup {NoPassword}
      BY <1>2, <2>1 DEF SoundLocals, Locals
    <2>3. tmp' \in Content
      BY <1>2, <2>1, <2>2 DEF Content
    <2>4. l \in Locals
      BY <1>2 DEF Locals, Steps
    <2>5. l \in SoundLocals
      BY <1>2, <2>4 DEF SoundLocals, Locals
    <2> HIDE DEF l
    <2>6. request' \in [Threads -> SoundLocals]
      BY <1>2, <2>1, <2>5, BecomeType
    <2>7. QED
      BY <1>2, <1>4, <2>3, <2>6, FileType DEF WriteTmp
  <1>5. CASE ReplaceFile(t)
    <2>1. request' \in [Threads -> SoundLocals]
      BY <1>2, <1>5, FinishType DEF ReplaceFile
    <2>2. file' \in Content /\ tmp' \in Content \cup {NoFile}
      BY <1>2, <1>5 DEF ReplaceFile
    <2>3. QED
      BY <1>5, <2>1, <2>2, FileType DEF ReplaceFile
  <1>6. CASE FileFails(t)
    <2>1. request' \in [Threads -> SoundLocals]
      BY <1>2, <1>6, FinishType DEF FileFails
    <2>2. QED
      BY <1>2, <1>6, <2>1, TypeKept DEF FileFails
  <1>7. QED
    BY <1>3, <1>4, <1>5, <1>6

(* Cookies, terminal tokens, the failure counter.                          *)
LEMMA LoginHandlingType ==
    ASSUME TypeInv, NEW t \in Threads,
           \/ OpenSession(t) \/ RenewCookie(t)
           \/ PasswordRight(t) \/ PasswordWrong(t) \/ RecordFailure(t)
           \/ Issue(t) \/ IssueRefused(t) \/ ClearFailures(t)
    PROVE  TypeInv'
  <1> DEFINE m == request[t]
             u == Subject(t)
  <1>1. ~At(t, "idle")
    BY DEF OpenSession, RenewCookie, PasswordRight, PasswordWrong, RecordFailure, Issue,
           IssueRefused, ClearFailures, At
  <1>2. /\ m \in SoundLocals /\ m \in Locals /\ m.step # "idle" /\ u \in Users
        /\ u = m.user /\ request \in [Threads -> SoundLocals]
        /\ cookies \subseteq Cookie /\ tokens \subseteq Token /\ fails \in [Users -> Nat]
        /\ changes \in [Users -> 0 .. MaxChanges] /\ account \in [Users -> Row]
        /\ chosen \in [Users -> Passwords] /\ account[u] \in Row
        /\ account[u].salt \in Nat /\ account[u].epoch \in Nat
    BY <1>1 DEF TypeInv, CredentialsTypeOK, SoundLocals, At, Subject, Row
  <1>3. m.epoch \in Nat /\ m.proof \in Nat
    BY <1>2 DEF Locals
  <1>4. CASE OpenSession(t)
    <2>1. [user |-> u, epoch |-> m.epoch, proof |-> m.proof, renewed |-> FALSE] \in Cookie
      BY <1>2, <1>3 DEF Cookie
    <2>2. cookies' \subseteq Cookie
      BY <1>2, <1>4, <2>1 DEF OpenSession
    <2>3. request' \in [Threads -> SoundLocals]
      BY <1>2, <1>4, FinishType DEF OpenSession
    <2>4. QED
      BY <1>2, <1>4, <2>2, <2>3, LoginVarsType DEF OpenSession
  <1>5. CASE RenewCookie(t)
    <2>1. [user |-> u, epoch |-> account[u].epoch, proof |-> m.proof, renewed |-> TRUE]
            \in Cookie
      BY <1>2, <1>3 DEF Cookie
    <2>2. cookies' \subseteq Cookie
      BY <1>2, <1>5, <2>1 DEF RenewCookie
    <2>3. Finish(t) \/ Goto(t, "read")
      BY <1>5 DEF RenewCookie
    <2>4. request' \in [Threads -> SoundLocals]
      BY <1>2, <2>3, FinishType, GotoType DEF Steps
    <2>5. QED
      BY <1>2, <1>5, <2>2, <2>4, LoginVarsType DEF RenewCookie
  <1>6. CASE PasswordRight(t)
    <2> DEFINE n == account[u].salt
               l == [m EXCEPT !.step = "issue", !.proof = n]
    <2>1. Become(t, l)
      BY <1>6 DEF PasswordRight
    <2> HIDE DEF m, n
    <2>2. n \in Nat /\ m.user \in Users
      BY <1>2 DEF n
    <2>3. l \in Locals
      BY <1>2, <2>2 DEF Locals, Steps
    <2>4. l \in SoundLocals
      BY <1>2, <2>2, <2>3 DEF SoundLocals, Locals
    <2> HIDE DEF l
    <2>5. request' \in [Threads -> SoundLocals]
      BY <1>2, <2>1, <2>4, BecomeType
    <2>6. QED
      BY <1>2, <1>6, <2>5, TypeKept DEF PasswordRight
  <1>7. CASE PasswordWrong(t)
    <2>1. request' \in [Threads -> SoundLocals]
      BY <1>2, <1>7, GotoType DEF PasswordWrong, Steps
    <2>2. QED
      BY <1>2, <1>7, <2>1, TypeKept DEF PasswordWrong
  <1>8. CASE RecordFailure(t) \/ ClearFailures(t)
    <2>1. request' \in [Threads -> SoundLocals]
      BY <1>2, <1>8, FinishType DEF RecordFailure, ClearFailures
    <2>2. fails' \in [Users -> Nat] /\ cookies' \subseteq Cookie
      BY <1>2, <1>8 DEF RecordFailure, ClearFailures
    <2>3. QED
      BY <1>8, <2>1, <2>2, LoginVarsType DEF RecordFailure, ClearFailures
  <1>9. CASE Issue(t)
    <2>1. \A n \in 1 .. MaxTokens : Grantable(t, n) \in Token
      BY <1>2, <1>3 DEF Grantable, Token
    <2>2. tokens' \subseteq Token
      BY <1>2, <1>9, <2>1 DEF Issue
    <2>3. request' \in [Threads -> SoundLocals]
      BY <1>2, <1>9, GotoType DEF Issue, Steps
    <2>4. QED
      BY <1>2, <1>9, <2>2, <2>3, DatabaseType DEF Issue
  <1>10. CASE IssueRefused(t)
    <2>1. request' \in [Threads -> SoundLocals]
      BY <1>2, <1>10, FinishType DEF IssueRefused
    <2>2. QED
      BY <1>2, <1>10, <2>1, TypeKept DEF IssueRefused
  <1>11. QED
    BY <1>4, <1>5, <1>6, <1>7, <1>8, <1>9, <1>10

LEMMA StartedType ==
    Started \in SoundWatchers /\ Settled \in SoundWatchers
  BY DEF Started, Settled, SoundWatchers, WatcherLocals

LEMMA WatcherKept ==
    ASSUME TypeInv, watcher' \in SoundWatchers, seen' \in Content \cup {NoFile},
           account' \in [Users -> Row], tokens' \subseteq Token,
           UNCHANGED <<ops, chosen, loginVars, fileVars, crashes, request, changes>>
    PROVE  TypeInv'
  <1>1. watcher' \in WatcherLocals
    BY DEF SoundWatchers
  <1>2. QED
    BY <1>1 DEF TypeInv, CredentialsTypeOK, loginVars, fileVars

LEMMA WatchingType ==
    ASSUME TypeInv, Watching
    PROVE  TypeInv'
  <1> DEFINE w == watcher
  <1>1. /\ w \in SoundWatchers /\ w \in WatcherLocals
        /\ seen \in Content \cup {NoFile} /\ file \in Content
        /\ account \in [Users -> Row] /\ tokens \subseteq Token
    BY DEF TypeInv, CredentialsTypeOK
  <1>2. CASE Tick
    <2>1. watcher' = [w EXCEPT !.step = "read"] /\ seen' = file
      BY <1>2 DEF Tick, Watch
    <2> HIDE DEF w
    <2>2. [w EXCEPT !.step = "read"] \in SoundWatchers
      BY <1>1 DEF SoundWatchers, WatcherLocals
    <2>3. QED
      BY <1>1, <1>2, <2>1, <2>2, WatcherKept DEF Tick, dbVars
  <1>3. CASE SyncRead
    <2> DEFINE d == {u \in Users : file[u] # NoPassword}
    <2>1. watcher' = [w EXCEPT !.step = "verify", !.copy = file, !.todo = d]
      BY <1>3 DEF SyncRead, Watch
    <2> HIDE DEF w
    <2>2. d \subseteq Users /\ \A u \in d : file[u] # NoPassword
      OBVIOUS
    <2> HIDE DEF d
    <2>3. [w EXCEPT !.step = "verify", !.copy = file, !.todo = d] \in SoundWatchers
      BY <1>1, <2>2 DEF SoundWatchers, WatcherLocals
    <2>4. QED
      BY <1>1, <1>3, <2>1, <2>3, WatcherKept DEF SyncRead, dbVars
  <1>4. ASSUME NEW u \in Users, SyncVerify(u) PROVE TypeInv'
    <2>1. /\ w.step = "verify" /\ u \in w.todo
          /\ watcher' = [w EXCEPT !.step = "set", !.todo = @ \ {u}, !.user = u] \/
             watcher' = [w EXCEPT !.todo = @ \ {u}]
      BY <1>4 DEF SyncVerify, Watch, WatcherAt
    <2> HIDE DEF w
    <2>2. [w EXCEPT !.step = "set", !.todo = @ \ {u}, !.user = u] \in SoundWatchers
      BY <1>1, <2>1 DEF SoundWatchers, WatcherLocals
    <2>3. [w EXCEPT !.todo = @ \ {u}] \in SoundWatchers
      BY <1>1, <2>1 DEF SoundWatchers, WatcherLocals
    <2>4. QED
      BY <1>1, <1>4, <2>1, <2>2, <2>3, WatcherKept DEF SyncVerify, dbVars
  <1>5. CASE SyncSet
    <2>1. /\ w.step = "set" /\ watcher' = [w EXCEPT !.step = "bump"]
          /\ StorePassword(w.user, w.copy[w.user])
      BY <1>5 DEF SyncSet, Watch, WatcherAt
    <2> HIDE DEF w
    <2>2. w.user \in Users /\ w.copy[w.user] \in Passwords
      BY <1>1, <2>1 DEF SoundWatchers, Content
    <2>3. account' \in [Users -> Row] /\ tokens' \subseteq Token
      BY <2>1, <2>2, StorePasswordType
    <2>4. [w EXCEPT !.step = "bump"] \in SoundWatchers
      BY <1>1, <2>1 DEF SoundWatchers, WatcherLocals
    <2>5. QED
      BY <1>1, <1>5, <2>1, <2>3, <2>4, WatcherKept DEF SyncSet
  <1>6. CASE SyncBump
    <2>1. /\ w.step = "bump"
          /\ watcher' = [w EXCEPT !.step = "verify", !.user = NoUser]
          /\ Update(w.user, [account[w.user] EXCEPT !.epoch = @ + 1])
      BY <1>6 DEF SyncBump, Watch, WatcherAt
    <2> HIDE DEF w
    <2>2. w.user \in Users
      BY <1>1, <2>1 DEF SoundWatchers
    <2> DEFINE r == [account[w.user] EXCEPT !.epoch = @ + 1]
    <2>6. r \in Row /\ Update(w.user, r)
      BY <1>1, <2>1, <2>2 DEF Row
    <2> HIDE DEF r
    <2>3. account' \in [Users -> Row]
      BY <1>1, <2>2, <2>6, UpdateType
    <2>4. [w EXCEPT !.step = "verify", !.user = NoUser] \in SoundWatchers
      BY <1>1, <2>1 DEF SoundWatchers, WatcherLocals
    <2>5. QED
      BY <1>1, <1>6, <2>1, <2>3, <2>4, WatcherKept DEF SyncBump
  <1>7. CASE SyncEnds
    BY <1>1, <1>7, StartedType, WatcherKept DEF SyncEnds, Watch, dbVars
  <1>8. CASE SyncException
    <2> DEFINE s == IF w.first THEN "dead" ELSE "wait"
    <2>1. watcher' = [Settled EXCEPT !.step = s]
      BY <1>8 DEF SyncException, Watch
    <2>2. s \in {"dead", "wait"}
      OBVIOUS
    <2> HIDE DEF s
    <2>3. [Settled EXCEPT !.step = s] \in SoundWatchers
      BY <2>2, StartedType DEF SoundWatchers, WatcherLocals
    <2>4. QED
      BY <1>1, <1>8, <2>1, <2>3, WatcherKept DEF SyncException, dbVars
  <1>9. QED
    BY <1>2, <1>3, <1>4, <1>5, <1>6, <1>7, <1>8 DEF Watching

LEMMA ThereType == There \subseteq Users
  BY CredentialsAssumption DEF There

LEMMA InitType == Init => TypeInv
  <1> SUFFICES ASSUME Init PROVE TypeInv
    OBVIOUS
  <1>0. NewUser \in Row /\ NoRow \in Row
    BY CredentialsAssumption DEF NoRow, NewUser, Row
  <1>1. account \in [Users -> Row]
    BY <1>0 DEF Init
  <1>2. file \in Content
    BY CredentialsAssumption DEF Init, Content
  <1>3. request \in [Threads -> SoundLocals] /\ Idle \in Locals
    BY IdleType DEF Init, SoundLocals
  <1>4. QED
    BY <1>1, <1>2, <1>3, StartedType, CredentialsAssumption
       DEF Init, TypeInv, CredentialsTypeOK, SoundWatchers

LEMMA NextType ==
    ASSUME TypeInv, [Next]_credentialVars
    PROVE  TypeInv'
  <1>1. CASE \E t \in Threads : Arrival(t) \/ Handling(t)
    BY <1>1, ArrivalType, RowHandlingType, FileHandlingType, LoginHandlingType DEF Handling
  <1>2. CASE Watching
    BY <1>2, WatchingType
  <1>3. ASSUME NEW u \in Users, WindowEnds(u) PROVE TypeInv'
    <2>1. fails' \in [Users -> Nat]
      BY <1>3 DEF WindowEnds, TypeInv, CredentialsTypeOK
    <2>2. QED
      BY <1>3, <2>1, LoginVarsType DEF WindowEnds, TypeInv, CredentialsTypeOK
  <1>4. ASSUME NEW u \in Users, NEW p \in Passwords, RootEdits(u, p) PROVE TypeInv'
    <2>1. /\ file' \in Content /\ chosen' \in [Users -> Passwords]
          /\ edits' \in 0 .. MaxEdits
      BY <1>4, CredentialsAssumption DEF RootEdits, TypeInv, CredentialsTypeOK, Content
    <2>2. QED
      BY <1>4, <2>1 DEF RootEdits, TypeInv, CredentialsTypeOK, loginVars, watchVars
  <1>5. ASSUME NEW k \in tokens, TokenEnds(k) PROVE TypeInv'
    <2>1. tokens' \subseteq Token
      BY <1>5 DEF TokenEnds, TypeInv, CredentialsTypeOK
    <2>2. QED
      BY <1>5, <2>1, DatabaseType DEF TokenEnds, TypeInv, CredentialsTypeOK
  <1>6. CASE Crash
    <2>1. request' \in [Threads -> SoundLocals]
      BY <1>6, IdleType DEF Crash, TypeInv
    <2>2. request' \in [Threads -> Locals]
      BY <2>1 DEF SoundLocals
    <2>3. watcher' \in SoundWatchers /\ watcher' \in WatcherLocals
      BY <1>6, StartedType DEF Crash, SoundWatchers
    <2>4. crashes' \in 0 .. MaxCrashes /\ seen' \in Content \cup {NoFile}
      BY <1>6, CredentialsAssumption DEF Crash, TypeInv, CredentialsTypeOK
    <2>5. QED
      BY <1>6, <2>1, <2>2, <2>3, <2>4
         DEF Crash, TypeInv, CredentialsTypeOK, dbVars, loginVars, fileVars
  <1>7. CASE UNCHANGED credentialVars
    BY <1>7 DEF credentialVars, TypeInv, CredentialsTypeOK, dbVars, loginVars, fileVars,
                watchVars
  <1>8. QED
    BY <1>1, <1>2, <1>3, <1>4, <1>5, <1>6, <1>7, ThereType DEF Next

(* Whatever requests, edits and faults there are, every variable of the    *)
(* portal's credentials keeps its type; a handler that is to set a         *)
(* password has one and a request under way is about a user.               *)
THEOREM CredentialsTypeCorrect ==
    CredentialsSpec => []CredentialsTypeOK
  <1>1. TypeInv => CredentialsTypeOK
    BY DEF TypeInv
  <1>2. QED
    BY <1>1, InitType, NextType, PTL DEF CredentialsSpec

LEMMA TypeInvCorrect == CredentialsSpec => []TypeInv
  BY InitType, NextType, PTL DEF CredentialsSpec

-----------------------------------------------------------------------------
(* Sessions                                                                *)

(* An epoch e seen together with the hash p: it is not from the future,    *)
(* and as long as it is the row's, so is the hash, or it will be raised.   *)
Proves(u, e, p) ==
    /\ e <= account[u].epoch
    /\ account[u].present /\ e = account[u].epoch => p = account[u].salt \/ Revoking(u)

SessionThread(t) ==
    /\ At(t, "session") => Proves(Subject(t), request[t].epoch, request[t].proof)
    /\ ~At(t, "idle") => request[t].op \in ops
    /\ At(t, "set") => request[t].op # "logout"

SessionsInv ==
    /\ \A c \in cookies : c.renewed \/ Proves(c.user, c.epoch, c.proof)
    /\ \A t \in Threads : SessionThread(t)

(* Nobody stops half-way.                                                  *)
Steady == ops \cap {"crash", "exception", "bootstrap"} = {}

StaysProved(u) == \A e, p \in Nat : Proves(u, e, p) => Proves(u, e, p)'

LEMMA ThreadStepSessions ==
    ASSUME TypeInv, TypeInv', SessionsInv, NEW t \in Threads, SessionThread(t)', ops' = ops,
           \A s \in Threads \ {t} : request'[s] = request[s],
           \A c \in cookies' : c \in cookies \/ c.renewed \/ Proves(c.user, c.epoch, c.proof)',
           \A u \in Users : StaysProved(u)
    PROVE  SessionsInv'
  <1>1. /\ cookies \subseteq Cookie
        /\ request \in [Threads -> SoundLocals]
    BY DEF TypeInv, CredentialsTypeOK
  <1>2. ASSUME NEW c \in cookies' PROVE c.renewed \/ Proves(c.user, c.epoch, c.proof)'
    <2>1. CASE c \in cookies
      BY <1>1, <2>1 DEF SessionsInv, StaysProved, Cookie
    <2>2. QED
      BY <2>1
  <1>3. ASSUME NEW s \in Threads \ {t} PROVE SessionThread(s)'
    <2>1. SessionThread(s) /\ request'[s] = request[s]
      BY DEF SessionsInv
    <2>2. request[s].epoch \in Nat /\ request[s].proof \in Nat
      BY <1>1 DEF SoundLocals, Locals
    <2>3. At(s, "session") => Subject(s) \in Users
      BY <1>1 DEF At, Subject, SoundLocals
    <2>4. (At(s, "session") => Proves(Subject(s), request[s].epoch, request[s].proof))'
      <3>1. SUFFICES ASSUME At(s, "session")
                     PROVE  Proves(Subject(s), request[s].epoch, request[s].proof)'
        BY <2>1 DEF At
      <3>2. PICK u \in Users, e \in Nat, p \in Nat :
               u = Subject(s) /\ e = request[s].epoch /\ p = request[s].proof
        BY <2>2, <2>3, <3>1
      <3>3. Proves(u, e, p)
        BY <2>1, <3>1, <3>2 DEF SessionThread
      <3>4. Proves(u, e, p)'
        BY <3>3 DEF StaysProved
      <3>5. u = Subject(s)' /\ e = request[s].epoch' /\ p = request[s].proof'
        BY <2>1, <3>2 DEF Subject
      <3>6. QED
        BY <3>4, <3>5 DEF Proves, Revoking
    <2>5. QED
      BY <2>1, <2>4 DEF SessionThread, At
  <1>4. QED
    BY <1>2, <1>3 DEF SessionsInv

LEMMA RevokingKept ==
    ASSUME TypeInv, NEW t \in Threads, ~At(t, "bump"), UNCHANGED watcher,
           \A s \in Threads \ {t} : request'[s] = request[s], NEW u, Revoking(u)
    PROVE  Revoking(u)'
  BY DEF Revoking, At, Subject

(* A row keeps its epoch and its hash, or loses its user.                  *)
LEMMA SameRowProves ==
    ASSUME NEW u, account'[u].epoch = account[u].epoch, account'[u].salt = account[u].salt,
           account'[u].present => account[u].present, Revoking(u) => Revoking(u)'
    PROVE  StaysProved(u)
  BY DEF StaysProved, Proves

LEMMA RevokingProves ==
    ASSUME NEW u, account'[u].epoch = account[u].epoch, Revoking(u)'
    PROVE  StaysProved(u)
  BY DEF StaysProved, Proves

LEMMA HigherProves ==
    ASSUME NEW u, account[u].epoch \in Nat, account'[u].epoch = account[u].epoch + 1
    PROVE  StaysProved(u)
  BY DEF StaysProved, Proves

LEMMA GoneProves ==
    ASSUME NEW u, account'[u].epoch = account[u].epoch, ~account'[u].present
    PROVE  StaysProved(u)
  BY DEF StaysProved, Proves

(* The row of u changes as by an UPDATE, or not at all.                    *)
LEMMA UpdatedRow ==
    ASSUME account \in [Users -> Row], NEW u \in Users, NEW r \in Row, Update(u, r)
    PROVE  /\ \A v \in Users \ {u} : account'[v] = account[v]
           /\ account[u].present => account'[u] = r
           /\ ~account[u].present => account'[u] = account[u]
  BY DEF Update

(* A request that is not about to raise the epoch, and leaves the table of *)
(* users alone.                                                            *)
LEMMA AloofSessions ==
    ASSUME TypeInv, TypeInv', SessionsInv, NEW t \in Threads, SessionThread(t)',
           ~At(t, "bump"), UNCHANGED <<ops, account, watcher>>,
           \A s \in Threads \ {t} : request'[s] = request[s],
           \A c \in cookies' : c \in cookies \/ c.renewed \/ Proves(c.user, c.epoch, c.proof)'
    PROVE  SessionsInv'
  <1>1. ASSUME NEW u \in Users PROVE StaysProved(u)
    BY RevokingKept, SameRowProves
  <1>2. QED
    BY <1>1, ThreadStepSessions

(* What Become and its like do to the threads.                             *)
LEMMA BecomeThreads ==
    ASSUME request \in [Threads -> SoundLocals], NEW t \in Threads, NEW l, Become(t, l)
    PROVE  request'[t] = l /\ \A s \in Threads \ {t} : request'[s] = request[s]
  BY DEF Become

LEMMA GotoThreads ==
    ASSUME request \in [Threads -> SoundLocals], NEW t \in Threads, NEW s, Goto(t, s)
    PROVE  /\ request'[t].step = s /\ request'[t].op = request[t].op
           /\ request'[t].user = request[t].user
           /\ \A x \in Threads \ {t} : request'[x] = request[x]
  <1> DEFINE m == request[t]
  <1>1. m \in SoundLocals /\ Become(t, [m EXCEPT !.step = s])
    BY DEF Goto
  <1>2. request'[t] = [m EXCEPT !.step = s]
        /\ \A x \in Threads \ {t} : request'[x] = request[x]
    BY <1>1, BecomeThreads
  <1> HIDE DEF m
  <1>3. [m EXCEPT !.step = s].step = s /\ [m EXCEPT !.step = s].op = m.op
        /\ [m EXCEPT !.step = s].user = m.user
    BY <1>1 DEF SoundLocals, Locals
  <1>4. QED
    BY <1>2, <1>3 DEF m

LEMMA FinishThreads ==
    ASSUME request \in [Threads -> SoundLocals], NEW t \in Threads, Finish(t)
    PROVE  /\ SessionThread(t)'
           /\ \A s \in Threads \ {t} : request'[s] = request[s]
  <1>1. request'[t] = Idle /\ \A s \in Threads \ {t} : request'[s] = request[s]
    BY BecomeThreads DEF Finish
  <1>2. QED
    BY <1>1 DEF SessionThread, At, Idle

(* A request that goes on, to a step of no interest for sessions.          *)
LEMMA GotoSession ==
    ASSUME TypeInv, SessionsInv, NEW t \in Threads, ~At(t, "idle"), ops' = ops,
           NEW s \in Steps \ {"session", "set", "idle"}, Goto(t, s)
    PROVE  SessionThread(t)'
  <1>1. request'[t].step = s /\ request'[t].op = request[t].op
    BY GotoThreads DEF TypeInv
  <1>2. SessionThread(t)
    BY DEF SessionsInv
  <1>3. QED
    BY <1>1, <1>2 DEF SessionThread, At

LEMMA ArrivalSessions ==
    ASSUME TypeInv, TypeInv', SessionsInv, NEW t \in Threads, Arrival(t)
    PROVE  SessionsInv'
  <1>1. ASSUME NEW l, Begin(t, l), l.step # "session", l.op # "logout" \/ l.step # "set"
        PROVE  SessionsInv'
    <2>1. request'[t] = l /\ \A s \in Threads \ {t} : request'[s] = request[s]
      BY <1>1, BecomeThreads DEF Begin, TypeInv
    <2>2. SessionThread(t)'
      BY <1>1, <2>1 DEF SessionThread, At, Begin
    <2>3. QED
      BY <1>1, <2>1, <2>2, AloofSessions DEF Begin, At, dbVars, loginVars, watchVars
  <1>2. ASSUME NEW u \in Users, BeginLogin(t, u) PROVE SessionsInv'
    <2> DEFINE l == [Idle EXCEPT !.op = "login", !.step = "session", !.user = u,
                         !.epoch = account[u].epoch, !.proof = account[u].salt]
    <2>1. Begin(t, l)
      BY <1>2 DEF BeginLogin
    <2>2. /\ l.op = "login" /\ l.step = "session" /\ l.user = u
          /\ l.epoch = account[u].epoch /\ l.proof = account[u].salt
      BY DEF Idle
    <2> HIDE DEF l
    <2>3. request'[t] = l /\ \A s \in Threads \ {t} : request'[s] = request[s]
      BY <2>1, BecomeThreads DEF Begin, TypeInv
    <2>4. account' = account /\ account'[u].epoch \in Nat
      BY <2>1 DEF Begin, dbVars, TypeInv, CredentialsTypeOK, Row
    <2>5. SessionThread(t)'
      BY <2>1, <2>2, <2>3, <2>4 DEF SessionThread, At, Subject, Proves, Begin
    <2>6. QED
      BY <2>1, <2>3, <2>5, AloofSessions DEF Begin, At, dbVars, loginVars, watchVars
  <1>3. ASSUME NEW o, NEW s \in {"verify", "active", "role", "delete", "bump"}, NEW u, NEW b,
               Begin(t, [Idle EXCEPT !.op = o, !.step = s, !.user = u, !.flag = b])
               \/ Begin(t, [Idle EXCEPT !.op = o, !.step = s, !.user = u])
        PROVE  SessionsInv'
    <2>1. /\ [Idle EXCEPT !.op = o, !.step = s, !.user = u, !.flag = b].step = s
          /\ [Idle EXCEPT !.op = o, !.step = s, !.user = u].step = s
      BY DEF Idle
    <2>2. QED
      BY <1>1, <1>3, <2>1
  <1>4. ASSUME NEW o, o # "logout", NEW u, NEW p,
               Begin(t, [Idle EXCEPT !.op = o, !.step = "set", !.user = u, !.new = p])
        PROVE  SessionsInv'
    <2>1. /\ [Idle EXCEPT !.op = o, !.step = "set", !.user = u, !.new = p].step = "set"
          /\ [Idle EXCEPT !.op = o, !.step = "set", !.user = u, !.new = p].op = o
      BY DEF Idle
    <2>2. QED
      BY <1>1, <1>4, <2>1
  <1>5. ASSUME NEW u \in Users,
               BeginTerminal(t, u) \/ BeginToggle(t, u) \/ BeginRole(t, u) \/ BeginRemove(t, u)
        PROVE  SessionsInv'
    BY <1>3, <1>5 DEF BeginTerminal, BeginToggle, BeginRole, BeginRemove, BeginChanging
  <1>6. ASSUME NEW p \in Passwords,
               \/ \E u \in Users : BeginReset(t, u, p) \/ BeginBootstrap(t, u, p)
               \/ \E c \in cookies : BeginChange(t, c, p)
               \/ \E k \in tokens : BeginTerminalChange(t, k, p)
        PROVE  SessionsInv'
    BY <1>4, <1>6 DEF BeginReset, BeginBootstrap, BeginChange, BeginTerminalChange,
                      BeginChanging
  <1>7. ASSUME NEW c \in cookies, BeginLogout(t, c) PROVE SessionsInv'
    BY <1>3, <1>7 DEF BeginLogout, BeginChanging
  <1>8. QED
    BY <1>2, <1>5, <1>6, <1>7 DEF Arrival

LEMMA AloofHandlingSessions ==
    ASSUME TypeInv, TypeInv', SessionsInv, NEW t \in Threads,
           \/ OpenSession(t) \/ RenewCookie(t)
           \/ ReadFile(t) \/ WriteTmp(t) \/ ReplaceFile(t) \/ FileFails(t)
           \/ PasswordRight(t) \/ PasswordWrong(t) \/ RecordFailure(t)
           \/ Issue(t) \/ IssueRefused(t) \/ ClearFailures(t)
    PROVE  SessionsInv'
  <1> DEFINE m == request[t]
  <1>1. /\ request \in [Threads -> SoundLocals] /\ m \in Locals /\ SessionThread(t)
        /\ m.user \in Users
        /\ UNCHANGED <<ops, account, watcher>> /\ ~At(t, "bump") /\ ~At(t, "idle")
    <2>1. UNCHANGED <<ops, account, watcher>> /\ ~At(t, "bump") /\ ~At(t, "idle")
      BY DEF OpenSession, RenewCookie, ReadFile, WriteTmp, ReplaceFile, FileFails,
             PasswordRight, PasswordWrong, RecordFailure, Issue, IssueRefused,
             ClearFailures, At, dbVars, watchVars
    <2>2. QED
      BY <2>1 DEF TypeInv, SoundLocals, SessionsInv, At
  <1>2. CASE \/ ReplaceFile(t) \/ FileFails(t) \/ RecordFailure(t) \/ IssueRefused(t)
             \/ ClearFailures(t)
    <2>1. Finish(t) /\ cookies' = cookies
      BY <1>2 DEF ReplaceFile, FileFails, RecordFailure, IssueRefused, ClearFailures,
                  loginVars
    <2>2. QED
      BY <1>1, <2>1, FinishThreads, AloofSessions
  <1>3. CASE PasswordWrong(t) \/ Issue(t)
    <2>1. (Goto(t, "count") \/ Goto(t, "clear")) /\ cookies' = cookies
      BY <1>3 DEF PasswordWrong, Issue, loginVars
    <2>2. SessionThread(t)'
      BY <1>1, <2>1, GotoSession DEF Steps
    <2>3. \A s \in Threads \ {t} : request'[s] = request[s]
      BY <1>1, <2>1, GotoThreads
    <2>4. QED
      BY <1>1, <2>1, <2>2, <2>3, AloofSessions
  <1>4. ASSUME NEW l, Become(t, l), l.op = m.op, l.step \in {"write", "replace", "issue"},
               cookies' = cookies
        PROVE  SessionsInv'
    <2>1. request'[t] = l /\ \A s \in Threads \ {t} : request'[s] = request[s]
      BY <1>1, <1>4, BecomeThreads
    <2>2. SessionThread(t)'
      BY <1>1, <1>4, <2>1 DEF SessionThread, At
    <2>3. QED
      BY <1>1, <1>4, <2>1, <2>2, AloofSessions
  <1>5. CASE ReadFile(t)
    <2> DEFINE l == [m EXCEPT !.step = "write", !.copy = file]
    <2>1. Become(t, l) /\ cookies' = cookies
      BY <1>5 DEF ReadFile, loginVars
    <2> HIDE DEF m
    <2>2. l.op = m.op /\ l.step = "write"
      BY <1>1 DEF Locals
    <2> HIDE DEF l
    <2>3. QED
      BY <1>4, <2>1, <2>2
  <1>6. CASE WriteTmp(t)
    <2> DEFINE l == [m EXCEPT !.step = "replace", !.copy = NoFile]
    <2>1. Become(t, l) /\ cookies' = cookies
      BY <1>6 DEF WriteTmp, loginVars
    <2> HIDE DEF m
    <2>2. l.op = m.op /\ l.step = "replace"
      BY <1>1 DEF Locals
    <2> HIDE DEF l
    <2>3. QED
      BY <1>4, <2>1, <2>2
  <1>7. CASE PasswordRight(t)
    <2> DEFINE n == account[Subject(t)].salt
               l == [m EXCEPT !.step = "issue", !.proof = n]
    <2>1. Become(t, l) /\ cookies' = cookies
      BY <1>7 DEF PasswordRight, loginVars
    <2> HIDE DEF m, n
    <2>2. l.op = m.op /\ l.step = "issue"
      BY <1>1 DEF Locals
    <2> HIDE DEF l
    <2>3. QED
      BY <1>4, <2>1, <2>2
  <1>8. CASE OpenSession(t)
    <2>1. Proves(m.user, m.epoch, m.proof)
      BY <1>1, <1>8 DEF OpenSession, SessionThread, Subject
    <2>2. Finish(t) /\ \A s \in Threads \ {t} : request'[s] = request[s]
      BY <1>1, <1>8, FinishThreads DEF OpenSession
    <2>3. PICK u \in Users, e \in Nat, p \in Nat : u = m.user /\ e = m.epoch /\ p = m.proof
      BY <1>1 DEF Locals
    <2>4. StaysProved(u)
      BY <1>1, <2>2, RevokingKept, SameRowProves
    <2>5. Proves(u, e, p)'
      <3>1. Proves(u, e, p)
        BY <2>1, <2>3
      <3>2. QED
        BY <2>4, <3>1 DEF StaysProved
    <2>6. ASSUME NEW c \in cookies', c \notin cookies
          PROVE  Proves(c.user, c.epoch, c.proof)'
      <3>1. c = [user |-> u, epoch |-> e, proof |-> p, renewed |-> FALSE]
        BY <1>8, <2>3, <2>6 DEF OpenSession, Subject
      <3>2. c.user = u /\ c.epoch = e /\ c.proof = p
        BY <3>1
      <3>3. QED
        BY <2>5, <3>2
    <2>7. QED
      BY <1>1, <2>2, <2>6, FinishThreads, AloofSessions
  <1>9. CASE RenewCookie(t)
    <2>1. ASSUME NEW c \in cookies' PROVE c \in cookies \/ c.renewed
      BY <1>9, <2>1 DEF RenewCookie
    <2>2. Finish(t) \/ Goto(t, "read")
      BY <1>9 DEF RenewCookie
    <2>3. SessionThread(t)' /\ \A s \in Threads \ {t} : request'[s] = request[s]
      BY <1>1, <2>2, FinishThreads, GotoThreads, GotoSession DEF Steps
    <2>4. QED
      BY <1>1, <2>1, <2>3, AloofSessions
  <1>10. QED
    BY <1>2, <1>3, <1>5, <1>6, <1>7, <1>8, <1>9

(* Storing a password leaves every epoch and presence as it is.            *)
LEMMA StorePasswordRows ==
    ASSUME TypeInv, NEW u \in Users, NEW p \in Passwords, StorePassword(u, p)
    PROVE  /\ \A v \in Users \ {u} : account'[v] = account[v]
           /\ account'[u].epoch = account[u].epoch
  <1> DEFINE m == account[u]
             r == [m EXCEPT !.pw = p, !.salt = @ + 1]
  <1>1. m \in Row /\ account \in [Users -> Row] /\ Update(u, r)
    BY DEF TypeInv, CredentialsTypeOK, StorePassword
  <1> HIDE DEF m
  <1>2. r \in Row
    BY <1>1, RowChangesType
  <1>3. r.epoch = m.epoch
    BY <1>1 DEF Row
  <1> HIDE DEF r
  <1>4. QED
    BY <1>1, <1>2, <1>3, UpdatedRow DEF m

(* Raising an epoch settles every cookie of the user, unless he is gone.   *)
LEMMA BumpProves ==
    ASSUME TypeInv, NEW u \in Users, Update(u, [account[u] EXCEPT !.epoch = @ + 1]),
           \A v \in Users \ {u} : Revoking(v) => Revoking(v)'
    PROVE  \A v \in Users : StaysProved(v)
  <1> DEFINE m == account[u]
             r == [m EXCEPT !.epoch = @ + 1]
  <1>1. m \in Row /\ account \in [Users -> Row] /\ Update(u, r)
    BY DEF TypeInv, CredentialsTypeOK
  <1> HIDE DEF m
  <1>2. r \in Row /\ r.epoch = m.epoch + 1 /\ m.epoch \in Nat
    BY <1>1 DEF Row
  <1> HIDE DEF r
  <1>3. /\ \A v \in Users \ {u} : account'[v] = account[v]
        /\ m.present => account'[u] = r
        /\ ~m.present => account'[u] = m
    BY <1>1, <1>2, UpdatedRow DEF m
  <1>4. ASSUME NEW v \in Users \ {u} PROVE StaysProved(v)
    BY <1>3, SameRowProves
  <1>5. StaysProved(u)
    BY <1>2, <1>3, HigherProves, GoneProves DEF m
  <1>6. QED
    BY <1>4, <1>5

LEMMA RowHandlingSessions ==
    ASSUME TypeInv, TypeInv', SessionsInv, Steady, NEW t \in Threads,
           \/ SetPassword(t) \/ BumpEpoch(t) \/ SetActive(t) \/ SetRole(t) \/ DeleteUser(t)
    PROVE  SessionsInv'
  <1> DEFINE m == request[t]
  <1>0. PICK u \in Users : u = Subject(t)
    <2>1. ~At(t, "idle")
      BY DEF SetPassword, BumpEpoch, SetActive, SetRole, DeleteUser, At
    <2>2. QED
      BY <2>1, BusyType DEF TypeInv
  <1> DEFINE row == account[u]
  <1>1. /\ request \in [Threads -> SoundLocals] /\ m \in Locals /\ SessionThread(t)
        /\ UNCHANGED <<ops, watcher, cookies>> /\ ~At(t, "idle")
        /\ row \in Row /\ account \in [Users -> Row]
    <2>1. UNCHANGED <<ops, watcher, cookies>> /\ ~At(t, "idle")
      BY DEF SetPassword, BumpEpoch, SetActive, SetRole, DeleteUser, At, loginVars, watchVars
    <2>2. QED
      BY <2>1 DEF TypeInv, CredentialsTypeOK, SoundLocals, SessionsInv
  <1>2. ASSUME NEW v \in Users, Revoking(v), ~At(t, "bump"),
               \A s \in Threads \ {t} : request'[s] = request[s]
        PROVE  Revoking(v)'
    BY <1>1, <1>2, RevokingKept
  <1>3. CASE SetPassword(t)
    <2> DEFINE n == row.salt + 1
               s == IF m.op = "bootstrap" THEN "read" ELSE "bump"
               l == [m EXCEPT !.step = s, !.proof = n]
    <2>1. Become(t, l) /\ At(t, "set") /\ StorePassword(u, m.new)
      BY <1>0, <1>3 DEF SetPassword
    <2>2. m.op \in ops /\ m.op \notin {"logout", "bootstrap"}
      BY <1>1, <2>1 DEF SessionThread, Steady
    <2>3. m.new \in Passwords /\ m.user = u
      BY <1>0, <1>1, <2>1 DEF SoundLocals, At, Subject
    <2>4. s = "bump"
      BY <2>2
    <2> HIDE DEF m, n, s
    <2>5. l.step = "bump" /\ l.op = m.op /\ l.user = m.user
      BY <1>1, <2>4 DEF Locals
    <2> HIDE DEF l
    <2>6. request'[t] = l /\ \A x \in Threads \ {t} : request'[x] = request[x]
      BY <1>1, <2>1, BecomeThreads
    <2>7. Revoking(u)'
      <3>1. At(t, "bump")' /\ request'[t].user = u /\ request'[t].op # "logout"
        BY <2>2, <2>3, <2>5, <2>6 DEF At
      <3>2. \E x \in Threads : request'[x].step = "bump" /\ request'[x].user = u
                               /\ request'[x].op # "logout"
        BY <3>1 DEF At
      <3>3. QED
        BY <3>2 DEF Revoking, At, Subject
    <2>8. /\ \A v \in Users \ {u} : account'[v] = account[v]
          /\ account'[u].epoch = account[u].epoch
      BY <1>1, <2>1, <2>3, StorePasswordRows
    <2>9. ASSUME NEW v \in Users PROVE StaysProved(v)
      <3>1. CASE v = u
        BY <2>7, <2>8, <3>1, RevokingProves
      <3>2. CASE v # u
        <4>1. Revoking(v) => Revoking(v)'
          BY <1>2, <2>1, <2>6 DEF At
        <4>2. QED
          BY <2>8, <3>2, <4>1, SameRowProves
      <3>3. QED
        BY <3>1, <3>2
    <2>10. SessionThread(t)'
      BY <1>1, <2>2, <2>5, <2>6 DEF SessionThread, At
    <2>11. QED
      BY <1>1, <2>6, <2>9, <2>10, ThreadStepSessions
  <1>4. CASE BumpEpoch(t)
    <2>1. Finish(t) \/ Goto(t, "renew") \/ Goto(t, "read")
      BY <1>4 DEF BumpEpoch
    <2>2. SessionThread(t)' /\ \A s \in Threads \ {t} : request'[s] = request[s]
      BY <1>1, <2>1, FinishThreads, GotoThreads, GotoSession DEF Steps
    <2>3. ASSUME NEW v \in Users \ {u}, Revoking(v) PROVE Revoking(v)'
      BY <1>0, <1>1, <2>2, <2>3 DEF Revoking, At, Subject
    <2>4. \A v \in Users : StaysProved(v)
      BY <1>0, <1>1, <1>4, <2>3, BumpProves DEF BumpEpoch
    <2>5. QED
      BY <1>1, <2>2, <2>4, ThreadStepSessions
  <1>5. CASE SetActive(t) \/ SetRole(t) \/ DeleteUser(t)
    <2>1. (Finish(t) \/ Goto(t, "bump") \/ Goto(t, "read")) /\ ~At(t, "bump")
      BY <1>5 DEF SetActive, SetRole, DeleteUser, At
    <2>2. SessionThread(t)' /\ \A s \in Threads \ {t} : request'[s] = request[s]
      BY <1>1, <2>1, FinishThreads, GotoThreads, GotoSession DEF Steps
    <2>3. ASSUME NEW r \in Row, Update(u, r), r.epoch = row.epoch, r.salt = row.salt,
                 r.present = row.present
          PROVE  \A v \in Users : StaysProved(v)
      <3>1. /\ \A v \in Users \ {u} : account'[v] = account[v]
            /\ account[u].present => account'[u] = r
            /\ ~account[u].present => account'[u] = account[u]
        BY <1>1, <2>3, UpdatedRow
      <3>2. ASSUME NEW v \in Users
            PROVE  /\ account'[v].epoch = account[v].epoch
                   /\ account'[v].salt = account[v].salt
                   /\ account'[v].present => account[v].present
        BY <2>3, <3>1
      <3>3. QED
        BY <1>2, <2>1, <2>2, <3>2, SameRowProves
    <2>4. \A v \in Users : StaysProved(v)
      <3>1. CASE SetActive(t)
        <4> DEFINE b == ~m.flag
        <4>1. b \in BOOLEAN /\ Update(u, [row EXCEPT !.active = b])
          BY <1>0, <3>1 DEF SetActive
        <4> HIDE DEF b, row
        <4>2. [row EXCEPT !.active = b] \in Row
          BY <1>1, <4>1 DEF Row
        <4>3. /\ [row EXCEPT !.active = b].epoch = row.epoch
              /\ [row EXCEPT !.active = b].salt = row.salt
              /\ [row EXCEPT !.active = b].present = row.present
          BY <1>1 DEF Row
        <4>4. QED
          BY <2>3, <4>1, <4>2, <4>3
      <3>2. CASE SetRole(t)
        <4> DEFINE o == IF m.flag THEN "user" ELSE "admin"
        <4>1. o \in {"user", "admin"} /\ Update(u, [row EXCEPT !.role = o])
          BY <1>0, <3>2 DEF SetRole
        <4> HIDE DEF o, row
        <4>2. [row EXCEPT !.role = o] \in Row
          BY <1>1, <4>1 DEF Row
        <4>3. /\ [row EXCEPT !.role = o].epoch = row.epoch
              /\ [row EXCEPT !.role = o].salt = row.salt
              /\ [row EXCEPT !.role = o].present = row.present
          BY <1>1 DEF Row
        <4>4. QED
          BY <2>3, <4>1, <4>2, <4>3
      <3>3. CASE DeleteUser(t)
        <4>1. account' = [account EXCEPT ![u] = [row EXCEPT !.present = FALSE]]
          BY <1>0, <3>3 DEF DeleteUser
        <4> HIDE DEF row
        <4>2. /\ [row EXCEPT !.present = FALSE].epoch = row.epoch
              /\ [row EXCEPT !.present = FALSE].salt = row.salt
              /\ [row EXCEPT !.present = FALSE].present = FALSE
          BY <1>1 DEF Row
        <4>3. ASSUME NEW v \in Users
              PROVE  /\ account'[v].epoch = account[v].epoch
                     /\ account'[v].salt = account[v].salt
                     /\ account'[v].present => account[v].present
          BY <1>1, <4>1, <4>2 DEF row
        <4>4. QED
          BY <1>2, <2>1, <2>2, <4>3, SameRowProves
      <3>4. QED
        BY <1>5, <3>1, <3>2, <3>3
    <2>5. QED
      BY <1>1, <2>2, <2>4, ThreadStepSessions
  <1>6. QED
    BY <1>3, <1>4, <1>5

(* A step that is not a request's.                                         *)
LEMMA OtherStepSessions ==
    ASSUME TypeInv, TypeInv', SessionsInv, UNCHANGED <<ops, request>>, cookies' \subseteq cookies,
           \A u \in Users : StaysProved(u)
    PROVE  SessionsInv'
  <1>1. /\ cookies \subseteq Cookie
        /\ request \in [Threads -> SoundLocals]
    BY DEF TypeInv, CredentialsTypeOK
  <1>2. ASSUME NEW c \in cookies' PROVE c.renewed \/ Proves(c.user, c.epoch, c.proof)'
    BY <1>1 DEF SessionsInv, StaysProved, Cookie
  <1>3. ASSUME NEW s \in Threads PROVE SessionThread(s)'
    <2>1. SessionThread(s) /\ request'[s] = request[s]
      BY DEF SessionsInv
    <2>2. SUFFICES ASSUME At(s, "session")
                   PROVE  Proves(Subject(s), request[s].epoch, request[s].proof)'
      BY <2>1 DEF SessionThread, At
    <2>3. PICK u \in Users, e \in Nat, p \in Nat :
             u = Subject(s) /\ e = request[s].epoch /\ p = request[s].proof
      BY <1>1, <2>2 DEF At, Subject, SoundLocals, Locals
    <2>4. Proves(u, e, p)
      BY <2>1, <2>2, <2>3 DEF SessionThread
    <2>5. Proves(u, e, p)'
      BY <2>4 DEF StaysProved
    <2>6. u = Subject(s)' /\ e = request[s].epoch' /\ p = request[s].proof'
      BY <2>1, <2>3 DEF Subject
    <2>7. QED
      BY <2>5, <2>6 DEF Proves, Revoking
  <1>4. QED
    BY <1>2, <1>3 DEF SessionsInv

LEMMA WatchingSessions ==
    ASSUME TypeInv, TypeInv', SessionsInv, Steady, Watching
    PROVE  SessionsInv'
  <1>1. UNCHANGED <<ops, request, cookies>> /\ account \in [Users -> Row]
        /\ watcher \in SoundWatchers
    BY DEF Watching, Tick, SyncRead, SyncVerify, SyncSet, SyncBump, SyncEnds, SyncException,
           loginVars, TypeInv, CredentialsTypeOK
  <1>2. CASE account' = account /\ watcher.step # "bump"
    <2>1. ASSUME NEW u \in Users, Revoking(u) PROVE Revoking(u)'
      BY <1>1, <1>2, <2>1 DEF Revoking, At, Subject
    <2>2. \A u \in Users : StaysProved(u)
      BY <1>2, <2>1, SameRowProves
    <2>3. QED
      BY <1>1, <2>2, OtherStepSessions
  <1>3. CASE SyncSet
    <2> DEFINE w == watcher
    <2>1. PICK u \in Users, p \in Passwords : u = w.user /\ p = w.copy[w.user]
      BY <1>1, <1>3 DEF SyncSet, WatcherAt, SoundWatchers, Content
    <2>2. StorePassword(u, p) /\ watcher' = [w EXCEPT !.step = "bump"]
      BY <1>3, <2>1 DEF SyncSet, Watch
    <2>3. watcher'.step = "bump" /\ watcher'.user = u
      BY <1>1, <2>1, <2>2 DEF SoundWatchers, WatcherLocals
    <2>4. /\ \A v \in Users \ {u} : account'[v] = account[v]
          /\ account'[u].epoch = account[u].epoch
      BY <2>2, StorePasswordRows
    <2>5. Revoking(u)'
      BY <2>3 DEF Revoking
    <2>6. ASSUME NEW v \in Users \ {u}, Revoking(v) PROVE Revoking(v)'
      BY <1>1, <1>3, <2>6 DEF SyncSet, WatcherAt, Revoking, At, Subject
    <2>7. ASSUME NEW v \in Users PROVE StaysProved(v)
      BY <2>4, <2>5, <2>6, RevokingProves, SameRowProves
    <2>8. QED
      BY <1>1, <2>7, OtherStepSessions
  <1>4. CASE SyncBump
    <2>1. PICK u \in Users : u = watcher.user
      BY <1>1, <1>4 DEF SyncBump, WatcherAt, SoundWatchers
    <2>2. Update(u, [account[u] EXCEPT !.epoch = @ + 1])
      BY <1>4, <2>1 DEF SyncBump
    <2>3. ASSUME NEW v \in Users \ {u}, Revoking(v) PROVE Revoking(v)'
      BY <1>1, <2>1, <2>3 DEF Revoking, At, Subject
    <2>4. \A v \in Users : StaysProved(v)
      BY <2>2, <2>3, BumpProves
    <2>5. QED
      BY <1>1, <2>4, OtherStepSessions
  <1>5. ~SyncException
    BY DEF SyncException, Steady
  <1>6. Tick \/ SyncRead \/ SyncEnds \/ (\E u \in Users : SyncVerify(u))
          => account' = account /\ watcher.step # "bump"
    BY DEF Tick, SyncRead, SyncEnds, SyncVerify, WatcherAt, dbVars
  <1>7. QED
    BY <1>2, <1>3, <1>4, <1>5, <1>6 DEF Watching

LEMMA InitSessions == Init => SessionsInv
  BY DEF Init, SessionsInv, SessionThread, At, Idle

LEMMA NextSessions ==
    ASSUME TypeInv, TypeInv', Steady => SessionsInv, [Next]_credentialVars
    PROVE  (Steady => SessionsInv)'
  <1>1. ops' = ops
    <2>1. ASSUME NEW t \in Threads, Arrival(t) PROVE ops' = ops
      <3>1. \A l : Begin(t, l) => ops' = ops
        BY DEF Begin
      <3>2. QED
        BY <2>1, <3>1 DEF Arrival, BeginLogin, BeginTerminal, BeginToggle, BeginRole,
           BeginRemove, BeginReset, BeginBootstrap, BeginLogout, BeginChange,
           BeginTerminalChange, BeginChanging
    <2>2. ASSUME NEW t \in Threads, Handling(t) PROVE ops' = ops
      BY <2>2 DEF Handling, OpenSession, SetPassword, BumpEpoch, RenewCookie, SetActive,
         SetRole, DeleteUser, ReadFile, WriteTmp, ReplaceFile, FileFails, PasswordRight,
         PasswordWrong, RecordFailure, Issue, IssueRefused, ClearFailures
    <2>3. CASE Watching
      BY <2>3 DEF Watching, Tick, SyncRead, SyncVerify, SyncSet, SyncBump, SyncEnds,
         SyncException
    <2>4. QED
      BY <2>1, <2>2, <2>3 DEF Next, WindowEnds, RootEdits, TokenEnds, Crash,
         credentialVars
  <1> SUFFICES ASSUME Steady, SessionsInv PROVE SessionsInv'
    BY <1>1 DEF Steady
  <1>2. CASE \E t \in Threads : Arrival(t) \/ Handling(t)
    BY <1>2, ArrivalSessions, AloofHandlingSessions, RowHandlingSessions DEF Handling
  <1>3. CASE Watching
    BY <1>3, WatchingSessions
  <1>4. ASSUME UNCHANGED <<ops, request, account, cookies, watcher>> PROVE SessionsInv'
    <2>1. ASSUME NEW u \in Users, Revoking(u) PROVE Revoking(u)'
      BY <1>4, <2>1 DEF Revoking, At, Subject
    <2>2. \A u \in Users : StaysProved(u)
      BY <1>4, <2>1, SameRowProves
    <2>3. QED
      BY <1>4, <2>2, OtherStepSessions
  <1>5. CASE \/ \E u \in Users : WindowEnds(u) \/ \E p \in Passwords : RootEdits(u, p)
             \/ \E k \in tokens : TokenEnds(k)
             \/ UNCHANGED credentialVars
    BY <1>4, <1>5 DEF WindowEnds, RootEdits, TokenEnds, credentialVars, dbVars, loginVars,
                      watchVars
  <1>6. ~Crash
    BY DEF Crash, Steady
  <1>7. QED
    BY <1>2, <1>3, <1>5, <1>6, ThereType DEF Next

(* A cookie that still works was given to somebody who knew the password   *)
(* in force: the epoch a login has read with the hash is never ahead of    *)
(* the row's, and a new hash is always followed by a new epoch.            *)
THEOREM SessionsCorrect ==
    CredentialsSpec => []SessionsProve
  <1>1. TypeInv /\ (Steady => SessionsInv) => SessionsProve
    <2> SUFFICES ASSUME TypeInv, Steady, SessionsInv, NEW c \in cookies, Accepted(c)
                 PROVE  c.renewed \/ c.proof = account[c.user].salt \/ Revoking(c.user)
      BY DEF SessionsProve, Steady
    <2>1. QED
      BY DEF SessionsInv, Proves, Accepted
  <1>2. Init => (Steady => SessionsInv)
    BY InitSessions
  <1>3. TypeInv /\ TypeInv' /\ (Steady => SessionsInv) /\ [Next]_credentialVars
          => (Steady => SessionsInv)'
    BY NextSessions
  <1>4. QED
    BY <1>1, <1>2, <1>3, TypeInvCorrect, PTL DEF CredentialsSpec

-----------------------------------------------------------------------------
(* Terminal tokens                                                         *)

Secret == [u \in Users |-> account[u].salt]
Enabled == {u \in Users : account[u].present /\ account[u].active}

(* What a step of OrbitTokens comes to in terms of rows and tokens.        *)
PromiseStep == [Promise!TokensNext]_<<Secret, Enabled, tokens>>

LEMMA StutterPromise ==
    ASSUME account' = account, tokens' = tokens
    PROVE  PromiseStep
  BY DEF PromiseStep, Secret, Enabled

LEMMA WithdrawPromise ==
    ASSUME account' = account, tokens' \subseteq tokens
    PROVE  PromiseStep
  BY DEF PromiseStep, Secret, Enabled, Promise!TokensNext, Promise!Withdraw

(* A row changes neither its hash nor who may log in.                      *)
LEMMA NeutralPromise ==
    ASSUME account \in [Users -> Row], account' \in [Users -> Row], tokens' = tokens,
           \A u \in Users : /\ account'[u].salt = account[u].salt
                            /\ account'[u].present = account[u].present
                            /\ account'[u].active = account[u].active
    PROVE  PromiseStep
  BY DEF PromiseStep, Secret, Enabled

(* A new password: the hash is another one, and the tokens go with it.     *)
LEMMA StorePromise ==
    ASSUME TypeInv, TypeInv', NEW u \in Users, NEW p \in Passwords, StorePassword(u, p)
    PROVE  PromiseStep
  <1> DEFINE m == account[u]
             r == [m EXCEPT !.pw = p, !.salt = @ + 1]
  <1>1. /\ m \in Row /\ account \in [Users -> Row] /\ Update(u, r)
        /\ tokens' = {k \in tokens : k.user # u}
    BY DEF TypeInv, CredentialsTypeOK, StorePassword, Revoke
  <1> HIDE DEF m
  <1>2. r \in Row
    BY <1>1, RowChangesType
  <1>3. r.salt = m.salt + 1 /\ r.present = m.present /\ r.active = m.active /\ m.salt \in Nat
    BY <1>1 DEF Row
  <1> HIDE DEF r
  <1>4. /\ \A v \in Users \ {u} : account'[v] = account[v]
        /\ m.present => account'[u] = r
        /\ ~m.present => account' = account
    BY <1>1, <1>2, UpdatedRow DEF m, Update
  <1>5. CASE ~m.present
    BY <1>1, <1>4, <1>5, WithdrawPromise
  <1>6. CASE m.present
    <2>1. Secret'[u] # Secret[u] /\ \A v \in Users \ {u} : Secret'[v] = Secret[v]
      BY <1>3, <1>4, <1>6 DEF Secret, m
    <2>2. Enabled' = Enabled
      BY <1>3, <1>4, <1>6 DEF Enabled, m
    <2>3. Promise!Revise(u)
      BY <1>1, <2>1, <2>2 DEF Promise!Revise, Promise!WithdrawAll, Secret, Enabled
    <2>4. QED
      BY <2>3 DEF PromiseStep, Promise!TokensNext
  <1>7. QED
    BY <1>5, <1>6

(* A row by which u may no longer log in; the tokens go with it.           *)
LEMMA DisablePromise ==
    ASSUME account \in [Users -> Row], account' \in [Users -> Row], NEW u \in Users,
           \A v \in Users \ {u} : account'[v] = account[v],
           account'[u].salt = account[u].salt,
           ~(account'[u].present /\ account'[u].active), Revoke(u)
    PROVE  PromiseStep
  <1>1. Secret' = Secret
    BY DEF Secret
  <1>2. Enabled' = Enabled \ {u}
    BY DEF Enabled
  <1>3. Promise!Disable(u)
    BY <1>1, <1>2 DEF Promise!Disable, Promise!WithdrawAll, Revoke, Secret, Enabled
  <1>4. QED
    BY <1>3 DEF PromiseStep, Promise!TokensNext

(* An UPDATE by a row with the same hash, the same user and state.         *)
LEMMA NeutralUpdate ==
    ASSUME TypeInv, TypeInv', NEW u \in Users, NEW r \in Row, Update(u, r), tokens' = tokens,
           r.salt = account[u].salt, r.present = account[u].present,
           r.active = account[u].active
    PROVE  PromiseStep
  <1>1. account \in [Users -> Row] /\ account' \in [Users -> Row]
    BY DEF TypeInv, CredentialsTypeOK
  <1>2. /\ \A v \in Users \ {u} : account'[v] = account[v]
        /\ account[u].present => account'[u] = r
        /\ ~account[u].present => account'[u] = account[u]
    BY <1>1, UpdatedRow
  <1>3. ASSUME NEW v \in Users
        PROVE  /\ account'[v].salt = account[v].salt
               /\ account'[v].present = account[v].present
               /\ account'[v].active = account[v].active
    BY <1>2
  <1>4. QED
    BY <1>1, <1>3, NeutralPromise

LEMMA BumpPromise ==
    ASSUME TypeInv, TypeInv', NEW u \in Users, tokens' = tokens,
           Update(u, [account[u] EXCEPT !.epoch = @ + 1])
    PROVE  PromiseStep
  <1> DEFINE m == account[u]
             r == [m EXCEPT !.epoch = @ + 1]
  <1>1. m \in Row /\ Update(u, r)
    BY DEF TypeInv, CredentialsTypeOK
  <1> HIDE DEF m
  <1>2. r \in Row /\ r.salt = m.salt /\ r.present = m.present /\ r.active = m.active
    BY <1>1 DEF Row
  <1> HIDE DEF r
  <1>3. QED
    BY <1>1, <1>2, NeutralUpdate DEF m

LEMMA ArrivalPromise ==
    ASSUME NEW t \in Threads, Arrival(t)
    PROVE  PromiseStep
  <1>1. \A l : Begin(t, l) => account' = account /\ tokens' = tokens
    BY DEF Begin, dbVars
  <1>2. account' = account /\ tokens' = tokens
    BY <1>1 DEF Arrival, BeginLogin, BeginTerminal, BeginToggle, BeginRole, BeginRemove,
                BeginReset, BeginBootstrap, BeginLogout, BeginChange, BeginTerminalChange,
                BeginChanging
  <1>3. QED
    BY <1>2, StutterPromise

LEMMA HandlingPromise ==
    ASSUME TypeInv, TypeInv', NEW t \in Threads, Handling(t)
    PROVE  PromiseStep
  <1> DEFINE m == request[t]
  <1>1. CASE \/ OpenSession(t) \/ RenewCookie(t)
             \/ ReadFile(t) \/ WriteTmp(t) \/ ReplaceFile(t) \/ FileFails(t)
             \/ PasswordRight(t) \/ PasswordWrong(t) \/ RecordFailure(t)
             \/ IssueRefused(t) \/ ClearFailures(t)
    BY <1>1, StutterPromise
       DEF OpenSession, RenewCookie, ReadFile, WriteTmp, ReplaceFile, FileFails,
           PasswordRight, PasswordWrong, RecordFailure, IssueRefused, ClearFailures, dbVars
  <1>2. CASE Issue(t)
    <2>1. PICK n \in 1 .. MaxTokens : tokens' = tokens \cup {Grantable(t, n)}
      BY <1>2 DEF Issue
    <2>2. /\ account[Subject(t)].present /\ account[Subject(t)].active
          /\ account[Subject(t)].salt = request[t].proof /\ account' = account
      BY <1>2 DEF Issue, StillSame
    <2>3. Subject(t) \in Users
      BY <1>2, BusyType DEF Issue, At, TypeInv
    <2>4. Grantable(t, n).user = Subject(t) /\ Grantable(t, n).proof = request[t].proof
      BY DEF Grantable
    <2>5. Subject(t) \in Enabled /\ Secret[Subject(t)] = request[t].proof
      BY <2>2, <2>3 DEF Enabled, Secret
    <2>6. \A k \in tokens' \ tokens : k.user \in Enabled /\ k.proof = Secret[k.user]
      BY <2>1, <2>4, <2>5
    <2>7. Promise!Grant
      BY <2>1, <2>2, <2>6 DEF Promise!Grant, Enabled, Secret
    <2>8. QED
      BY <2>7 DEF PromiseStep, Promise!TokensNext
  <1>3. CASE \/ SetPassword(t) \/ BumpEpoch(t) \/ SetActive(t) \/ SetRole(t)
             \/ DeleteUser(t)
    <2>1. ~At(t, "idle")
      BY <1>3 DEF SetPassword, BumpEpoch, SetActive, SetRole, DeleteUser, At
    <2>2. PICK u \in Users : u = Subject(t)
      BY <2>1, BusyType DEF TypeInv
    <2> DEFINE row == account[u]
    <2>3. /\ row \in Row /\ account \in [Users -> Row] /\ account' \in [Users -> Row]
          /\ m \in SoundLocals
      BY DEF TypeInv, CredentialsTypeOK
    <2>4. CASE SetPassword(t)
      <3>1. m.new \in Passwords
        BY <2>3, <2>4 DEF SetPassword, At, SoundLocals
      <3>2. StorePassword(u, m.new)
        BY <2>2, <2>4 DEF SetPassword
      <3>3. QED
        BY <3>1, <3>2, StorePromise
    <2>5. CASE BumpEpoch(t)
      BY <2>2, <2>5, BumpPromise DEF BumpEpoch
    <2>6. CASE SetRole(t)
      <3> DEFINE o == IF m.flag THEN "user" ELSE "admin"
      <3>1. o \in {"user", "admin"} /\ Update(u, [row EXCEPT !.role = o]) /\ tokens' = tokens
        BY <2>2, <2>6 DEF SetRole
      <3> HIDE DEF o, row
      <3>2. /\ [row EXCEPT !.role = o] \in Row
            /\ [row EXCEPT !.role = o].salt = row.salt
            /\ [row EXCEPT !.role = o].present = row.present
            /\ [row EXCEPT !.role = o].active = row.active
        BY <2>3, <3>1 DEF Row
      <3>3. QED
        BY <3>1, <3>2, NeutralUpdate DEF row
    <2>7. CASE SetActive(t)
      <3> DEFINE b == ~m.flag
                 r == [row EXCEPT !.active = b]
      <3>1. b \in BOOLEAN /\ Update(u, r)
            /\ IF b THEN tokens' = tokens ELSE Revoke(u)
        BY <2>2, <2>7 DEF SetActive
      <3> HIDE DEF b, row
      <3>2. /\ r \in Row /\ r.salt = row.salt /\ r.present = row.present /\ r.active = b
        BY <2>3, <3>1 DEF Row
      <3> HIDE DEF r
      <3>3. /\ \A v \in Users \ {u} : account'[v] = account[v]
            /\ row.present => account'[u] = r
            /\ ~row.present => account' = account
        BY <2>3, <3>1, <3>2, UpdatedRow DEF row, Update
      <3>4. CASE ~b
        <4>1. account'[u].salt = account[u].salt
              /\ ~(account'[u].present /\ account'[u].active)
          BY <3>2, <3>3, <3>4 DEF row
        <4>2. QED
          BY <2>3, <3>1, <3>3, <3>4, <4>1, DisablePromise
      <3>5. CASE b /\ row.present
        <4>1. Secret' = Secret
          BY <3>2, <3>3, <3>5 DEF Secret, row
        <4>2. Enabled' = Enabled \cup {u}
          BY <3>2, <3>3, <3>5 DEF Enabled, row
        <4>3. Promise!Enable(u)
          BY <3>1, <3>5, <4>1, <4>2 DEF Promise!Enable, Secret, Enabled
        <4>4. QED
          BY <4>3 DEF PromiseStep, Promise!TokensNext
      <3>6. CASE b /\ ~row.present
        BY <3>1, <3>3, <3>6, StutterPromise
      <3>7. QED
        BY <3>1, <3>4, <3>5, <3>6
    <2>8. CASE DeleteUser(t)
      <3>1. account' = [account EXCEPT ![u] = [row EXCEPT !.present = FALSE]] /\ Revoke(u)
        BY <2>2, <2>8 DEF DeleteUser
      <3> HIDE DEF row
      <3>2. [row EXCEPT !.present = FALSE].salt = row.salt
            /\ ~[row EXCEPT !.present = FALSE].present
        BY <2>3 DEF Row
      <3>3. /\ \A v \in Users \ {u} : account'[v] = account[v]
            /\ account'[u].salt = account[u].salt /\ ~account'[u].present
        BY <2>3, <3>1, <3>2 DEF row
      <3>4. QED
        BY <2>3, <3>1, <3>3, DisablePromise
    <2>9. QED
      BY <1>3, <2>4, <2>5, <2>6, <2>7, <2>8
  <1>4. QED
    BY <1>1, <1>2, <1>3 DEF Handling

LEMMA WatchingPromise ==
    ASSUME TypeInv, TypeInv', Watching
    PROVE  PromiseStep
  <1>1. watcher \in SoundWatchers
    BY DEF TypeInv
  <1>2. CASE SyncSet
    <2>1. PICK u \in Users, p \in Passwords :
            u = watcher.user /\ p = watcher.copy[watcher.user]
      BY <1>1, <1>2 DEF SyncSet, WatcherAt, SoundWatchers, Content
    <2>2. QED
      BY <1>2, <2>1, StorePromise DEF SyncSet
  <1>3. CASE SyncBump
    <2>1. PICK u \in Users : u = watcher.user
      BY <1>1, <1>3 DEF SyncBump, WatcherAt, SoundWatchers
    <2>2. QED
      BY <1>3, <2>1, BumpPromise DEF SyncBump
  <1>4. CASE Tick \/ SyncRead \/ SyncEnds \/ SyncException \/ \E u \in Users : SyncVerify(u)
    BY <1>4, StutterPromise DEF Tick, SyncRead, SyncEnds, SyncException, SyncVerify, dbVars
  <1>5. QED
    BY <1>2, <1>3, <1>4 DEF Watching

LEMMA NextPromise ==
    ASSUME TypeInv, TypeInv', [Next]_credentialVars
    PROVE  PromiseStep
  <1>1. CASE \E t \in Threads : Arrival(t) \/ Handling(t)
    BY <1>1, ArrivalPromise, HandlingPromise
  <1>2. CASE Watching
    BY <1>2, WatchingPromise
  <1>3. ASSUME NEW k \in tokens, TokenEnds(k) PROVE PromiseStep
    BY <1>3, WithdrawPromise DEF TokenEnds
  <1>4. CASE \/ \E u \in Users : WindowEnds(u) \/ \E p \in Passwords : RootEdits(u, p)
             \/ Crash
             \/ UNCHANGED credentialVars
    BY <1>4, StutterPromise DEF WindowEnds, RootEdits, Crash, credentialVars, dbVars
  <1>5. QED
    BY <1>1, <1>2, <1>3, <1>4, ThereType DEF Next

(* The portal's handling of terminal tokens implements OrbitTokens: a      *)
(* token is granted only on the password in force, and falls in the very   *)
(* step that changes the password or disables or deletes the user.         *)
THEOREM TokensCorrect ==
    CredentialsSpec => TokensPromise
  <1>1. Init => Promise!TokensInit
    BY DEF Init, Promise!TokensInit
  <1>2. TypeInv /\ TypeInv' /\ [Next]_credentialVars
          => [Promise!TokensNext]_<<Secret, Enabled, tokens>>
    BY NextPromise DEF PromiseStep
  <1>3. QED
    BY <1>1, <1>2, TypeInvCorrect, PTL
       DEF CredentialsSpec, TokensPromise, Promise!TokensSpec, Secret, Enabled

-----------------------------------------------------------------------------
(* The lockout                                                             *)

(* The threads that have looked at the failures of u, and may add to them. *)
Guessing(t, u) == (At(t, "verify") \/ At(t, "count")) /\ Subject(t) = u
Guessers(u) == {t \in Threads : Guessing(t, u)}

(* With every guess under way counted, one thread of them is let in only   *)
(* below the limit.                                                        *)
Bounded(u) == fails[u] + Cardinality(Guessers(u)) < Limit + Cardinality(Threads)

LockoutInv == \A u \in Users : Bounded(u)

LEMMA FewGuessers ==
    ASSUME IsFiniteSet(Threads), NEW u
    PROVE  /\ Guessers(u) \subseteq Threads /\ IsFiniteSet(Guessers(u))
           /\ Cardinality(Guessers(u)) \in Nat /\ Cardinality(Threads) \in Nat
           /\ Cardinality(Guessers(u)) <= Cardinality(Threads)
  <1>1. Guessers(u) \subseteq Threads
    BY DEF Guessers
  <1>2. QED
    BY <1>1, FS_Subset, FS_CardinalityType

LEMMA BoundedKept ==
    ASSUME TypeInv, TypeInv', IsFiniteSet(Threads), NEW u \in Users, Bounded(u),
           fails'[u] <= fails[u], Guessers(u)' \subseteq Guessers(u)
    PROVE  Bounded(u)'
  <1> DEFINE before == Guessers(u)
             after == Guessers(u)'
  <1>1. IsFiniteSet(before) /\ Cardinality(before) \in Nat /\ Cardinality(Threads) \in Nat
    BY FewGuessers
  <1>2. after \subseteq before
    OBVIOUS
  <1>3. fails[u] + Cardinality(before) < Limit + Cardinality(Threads)
    BY DEF Bounded
  <1>4. fails[u] \in Nat /\ fails'[u] \in Nat /\ Limit \in Nat
    BY CredentialsAssumption DEF TypeInv, CredentialsTypeOK
  <1>5. Bounded(u)' <=> fails'[u] + Cardinality(after) < Limit + Cardinality(Threads)
    BY DEF Bounded
  <1> HIDE DEF before, after
  <1>6. IsFiniteSet(after) /\ Cardinality(after) <= Cardinality(before)
    BY <1>1, <1>2, FS_Subset
  <1>7. Cardinality(after) \in Nat
    BY <1>6, FS_CardinalityType
  <1>8. QED
    BY <1>1, <1>3, <1>4, <1>5, <1>6, <1>7

(* Thread t stops guessing, if it was, and the others go on as they were.  *)
LEMMA NoNewGuess ==
    ASSUME TypeInv, TypeInv', IsFiniteSet(Threads), LockoutInv,
           NEW t \in Threads, \A s \in Threads \ {t} : request'[s] = request[s],
           \A u \in Users : Guessing(t, u)' => Guessing(t, u),
           \A u \in Users : fails'[u] <= fails[u]
    PROVE  LockoutInv'
  <1>1. ASSUME NEW u \in Users PROVE Bounded(u)'
    <2>1. \A s \in Threads : Guessing(s, u)' => Guessing(s, u)
      BY DEF Guessing, At, Subject
    <2>2. Guessers(u)' \subseteq Guessers(u)
      BY <2>1 DEF Guessers
    <2>3. QED
      BY <2>2, BoundedKept DEF LockoutInv
  <1>2. QED
    BY <1>1 DEF LockoutInv

(* A guess begins only while the failures are below the limit; each other  *)
(* thread is then worth one failure at most.                               *)
LEMMA GuessBegins ==
    ASSUME TypeInv, TypeInv', IsFiniteSet(Threads), LockoutInv,
           NEW t \in Threads, NEW v \in Users, BeginTerminal(t, v)
    PROVE  LockoutInv'
  <1> DEFINE l == [Idle EXCEPT !.op = "terminal", !.step = "verify", !.user = v]
  <1>1. Begin(t, l) /\ ~Locked(v)
    BY DEF BeginTerminal
  <1>2. l.user = v
    BY DEF Idle
  <1> HIDE DEF l
  <1>3. request'[t] = l /\ \A s \in Threads \ {t} : request'[s] = request[s]
    BY <1>1, BecomeThreads DEF Begin, TypeInv
  <1>4. fails' = fails /\ fails \in [Users -> Nat] /\ Limit \in Nat
    BY <1>1, CredentialsAssumption DEF Begin, loginVars, TypeInv, CredentialsTypeOK
  <1>5. Bounded(v)'
    <2>1. /\ Cardinality(Guessers(v)') \in Nat /\ Cardinality(Threads) \in Nat
          /\ Cardinality(Guessers(v)') <= Cardinality(Threads)
      <3> DEFINE after == Guessers(v)'
      <3>1. after \subseteq Threads
        BY DEF Guessers
      <3> HIDE DEF after
      <3>2. Cardinality(after) \in Nat /\ Cardinality(Threads) \in Nat
            /\ Cardinality(after) <= Cardinality(Threads)
        BY <3>1, FS_Subset, FS_CardinalityType
      <3>3. QED
        BY <3>2 DEF after
    <2>2. fails'[v] \in Nat /\ fails'[v] < Limit
      BY <1>1, <1>4 DEF Locked
    <2>3. Bounded(v)' <=> fails'[v] + Cardinality(Guessers(v)') < Limit + Cardinality(Threads)
      BY DEF Bounded, LockoutInv
    <2>4. QED
      BY <1>4, <2>1, <2>2, <2>3
  <1>6. ASSUME NEW u \in Users \ {v} PROVE Bounded(u)'
    <2>1. \A s \in Threads : Guessing(s, u)' => Guessing(s, u)
      BY <1>2, <1>3 DEF Guessing, At, Subject
    <2>2. Guessers(u)' \subseteq Guessers(u)
      BY <2>1 DEF Guessers
    <2>3. fails'[u] <= fails[u]
      BY <1>4
    <2>4. QED
      BY <2>2, <2>3, BoundedKept DEF LockoutInv
  <1>7. QED
    BY <1>5, <1>6 DEF LockoutInv

(* A failure is counted by a thread that was among those counted with it.  *)
LEMMA GuessCounted ==
    ASSUME TypeInv, TypeInv', IsFiniteSet(Threads), LockoutInv,
           NEW t \in Threads, RecordFailure(t)
    PROVE  LockoutInv'
  <1>1. PICK v \in Users : v = Subject(t)
    BY BusyType DEF RecordFailure, At, TypeInv
  <1>2. request'[t] = Idle /\ \A s \in Threads \ {t} : request'[s] = request[s]
    BY BecomeThreads DEF RecordFailure, Finish, TypeInv
  <1>3. /\ fails \in [Users -> Nat] /\ fails' = [fails EXCEPT ![v] = @ + 1]
        /\ Limit \in Nat
    BY <1>1, CredentialsAssumption DEF RecordFailure, TypeInv, CredentialsTypeOK
  <1>4. \A u : ~Guessing(t, u)'
    BY <1>2 DEF Guessing, At, Idle
  <1>5. Bounded(v)'
    <2> DEFINE before == Guessers(v)
               after == Guessers(v)'
    <2>1. after \subseteq before \ {t}
      BY <1>2, <1>4 DEF Guessers, Guessing, At, Subject
    <2>2. t \in before
      BY <1>1 DEF RecordFailure, Guessers, Guessing
    <2>3. /\ IsFiniteSet(before) /\ Cardinality(before) \in Nat
          /\ Cardinality(Threads) \in Nat
      BY FewGuessers
    <2>4. fails[v] + Cardinality(before) < Limit + Cardinality(Threads)
      BY DEF Bounded, LockoutInv
    <2>5. Bounded(v)' <=> fails'[v] + Cardinality(after) < Limit + Cardinality(Threads)
      BY DEF Bounded, LockoutInv
    <2> HIDE DEF before, after
    <2>6. IsFiniteSet(before \ {t}) /\ Cardinality(before \ {t}) = Cardinality(before) - 1
      BY <2>2, <2>3, FS_RemoveElement
    <2>7. IsFiniteSet(after) /\ Cardinality(after) <= Cardinality(before \ {t})
      BY <2>1, <2>6, FS_Subset
    <2>8. Cardinality(after) \in Nat
      BY <2>7, FS_CardinalityType
    <2>9. fails[v] \in Nat /\ fails'[v] = fails[v] + 1
      BY <1>3
    <2>10. QED
      BY <1>3, <2>3, <2>4, <2>5, <2>6, <2>7, <2>8, <2>9
  <1>6. ASSUME NEW u \in Users \ {v} PROVE Bounded(u)'
    <2>1. Guessers(u)' \subseteq Guessers(u)
      BY <1>2, <1>4 DEF Guessers, Guessing, At, Subject
    <2>2. fails'[u] <= fails[u]
      BY <1>3
    <2>3. QED
      BY <2>1, <2>2, BoundedKept DEF LockoutInv
  <1>7. QED
    BY <1>5, <1>6 DEF LockoutInv

LEMMA ArrivalBounded ==
    ASSUME TypeInv, TypeInv', IsFiniteSet(Threads), LockoutInv,
           NEW t \in Threads, Arrival(t)
    PROVE  LockoutInv'
  <1>1. fails \in [Users -> Nat]
    BY DEF TypeInv, CredentialsTypeOK
  <1>2. ASSUME NEW l, Begin(t, l), l.step \notin {"verify", "count"}
        PROVE  LockoutInv'
    <2>1. request'[t] = l /\ \A s \in Threads \ {t} : request'[s] = request[s]
      BY <1>2, BecomeThreads DEF Begin, TypeInv
    <2>2. \A u : ~Guessing(t, u)'
      BY <1>2, <2>1 DEF Guessing, At
    <2>3. \A u \in Users : fails'[u] <= fails[u]
      BY <1>1, <1>2 DEF Begin, loginVars
    <2>4. QED
      BY <2>1, <2>2, <2>3, NoNewGuess
  <1>3. ASSUME NEW o, NEW s \in {"active", "role", "delete", "bump"}, NEW u, NEW b,
               Begin(t, [Idle EXCEPT !.op = o, !.step = s, !.user = u, !.flag = b])
               \/ Begin(t, [Idle EXCEPT !.op = o, !.step = s, !.user = u])
        PROVE  LockoutInv'
    <2>1. /\ [Idle EXCEPT !.op = o, !.step = s, !.user = u, !.flag = b].step = s
          /\ [Idle EXCEPT !.op = o, !.step = s, !.user = u].step = s
      BY DEF Idle
    <2>2. QED
      BY <1>2, <1>3, <2>1
  <1>4. ASSUME NEW o, NEW u, NEW p,
               Begin(t, [Idle EXCEPT !.op = o, !.step = "set", !.user = u, !.new = p])
        PROVE  LockoutInv'
    <2>1. [Idle EXCEPT !.op = o, !.step = "set", !.user = u, !.new = p].step = "set"
      BY DEF Idle
    <2>2. QED
      BY <1>2, <1>4, <2>1
  <1>5. ASSUME NEW u \in Users, BeginLogin(t, u) PROVE LockoutInv'
    <2> DEFINE l == [Idle EXCEPT !.op = "login", !.step = "session", !.user = u,
                         !.epoch = account[u].epoch, !.proof = account[u].salt]
    <2>1. Begin(t, l)
      BY <1>5 DEF BeginLogin
    <2>2. l.step = "session"
      BY DEF Idle
    <2> HIDE DEF l
    <2>3. QED
      BY <1>2, <2>1, <2>2
  <1>6. ASSUME NEW u \in Users, BeginToggle(t, u) \/ BeginRole(t, u) \/ BeginRemove(t, u)
        PROVE  LockoutInv'
    BY <1>3, <1>6 DEF BeginToggle, BeginRole, BeginRemove, BeginChanging
  <1>7. ASSUME NEW p \in Passwords,
               \/ \E u \in Users : BeginReset(t, u, p) \/ BeginBootstrap(t, u, p)
               \/ \E c \in cookies : BeginChange(t, c, p)
               \/ \E k \in tokens : BeginTerminalChange(t, k, p)
        PROVE  LockoutInv'
    BY <1>7, <1>4 DEF BeginReset, BeginBootstrap, BeginChange, BeginTerminalChange,
                      BeginChanging
  <1>8. ASSUME NEW c \in cookies, BeginLogout(t, c) PROVE LockoutInv'
    BY <1>3, <1>8 DEF BeginLogout, BeginChanging
  <1>9. QED
    BY <1>6, <1>7, <1>8, <1>5, GuessBegins DEF Arrival

LEMMA HandlingBounded ==
    ASSUME TypeInv, TypeInv', IsFiniteSet(Threads), LockoutInv,
           NEW t \in Threads, Handling(t)
    PROVE  LockoutInv'
  <1> DEFINE m == request[t]
  <1>1. /\ request \in [Threads -> SoundLocals] /\ m \in SoundLocals /\ m \in Locals
        /\ fails \in [Users -> Nat]
    BY DEF TypeInv, CredentialsTypeOK, SoundLocals
  <1>2. CASE RecordFailure(t)
    BY <1>2, GuessCounted
  <1>3. CASE ClearFailures(t)
    <2>1. request'[t] = Idle /\ \A s \in Threads \ {t} : request'[s] = request[s]
      BY <1>1, <1>3, BecomeThreads DEF ClearFailures, Finish
    <2>2. \A u : ~Guessing(t, u)'
      BY <2>1 DEF Guessing, At, Idle
    <2>3. PICK v \in Users : v = Subject(t)
      BY <1>1, <1>3, BusyType DEF ClearFailures, At
    <2>4. \A u \in Users : fails'[u] <= fails[u]
      BY <1>1, <1>3, <2>3 DEF ClearFailures
    <2>5. QED
      BY <2>1, <2>2, <2>4, NoNewGuess
  <1>4. ASSUME fails' = fails, NEW s, s \notin {"verify", "count"}, Goto(t, s) \/ Finish(t)
        PROVE  LockoutInv'
    <2>1. request'[t].step \notin {"verify", "count"}
          /\ \A x \in Threads \ {t} : request'[x] = request[x]
      BY <1>1, <1>4, GotoThreads, BecomeThreads DEF Finish, Idle
    <2>2. \A u : ~Guessing(t, u)'
      BY <2>1 DEF Guessing, At
    <2>3. \A u \in Users : fails'[u] <= fails[u]
      BY <1>1, <1>4
    <2>4. QED
      BY <2>1, <2>2, <2>3, NoNewGuess
  <1>5. CASE PasswordWrong(t)
    <2>1. /\ request'[t].step = "count" /\ request'[t].user = request[t].user
          /\ \A x \in Threads \ {t} : request'[x] = request[x]
      BY <1>1, <1>5, GotoThreads DEF PasswordWrong
    <2>2. \A u \in Users : Guessing(t, u)' => Guessing(t, u)
      BY <1>5, <2>1 DEF PasswordWrong, Guessing, At, Subject
    <2>3. \A u \in Users : fails'[u] <= fails[u]
      BY <1>1, <1>5 DEF PasswordWrong, loginVars
    <2>4. QED
      BY <2>1, <2>2, <2>3, NoNewGuess
  <1>6. ASSUME fails' = fails, NEW l, l.step \notin {"verify", "count"}, Become(t, l)
        PROVE  LockoutInv'
    <2>1. request'[t] = l /\ \A x \in Threads \ {t} : request'[x] = request[x]
      BY <1>1, <1>6, BecomeThreads
    <2>2. \A u : ~Guessing(t, u)'
      BY <1>6, <2>1 DEF Guessing, At
    <2>3. \A u \in Users : fails'[u] <= fails[u]
      BY <1>1, <1>6
    <2>4. QED
      BY <2>1, <2>2, <2>3, NoNewGuess
  <1>7. CASE SetPassword(t)
    <2> DEFINE s == IF m.op = "bootstrap" THEN "read" ELSE "bump"
               n == account[Subject(t)].salt + 1
               l == [m EXCEPT !.step = s, !.proof = n]
    <2>1. Become(t, l) /\ fails' = fails /\ s \in {"read", "bump"}
      BY <1>7 DEF SetPassword, loginVars
    <2> HIDE DEF m, n, s
    <2>2. l.step = s
      BY <1>1 DEF Locals
    <2> HIDE DEF l
    <2>3. QED
      BY <1>6, <2>1, <2>2
  <1>8. CASE ReadFile(t)
    <2> DEFINE l == [m EXCEPT !.step = "write", !.copy = file]
    <2>1. Become(t, l) /\ fails' = fails
      BY <1>8 DEF ReadFile, loginVars
    <2> HIDE DEF m
    <2>2. l.step = "write"
      BY <1>1 DEF Locals
    <2> HIDE DEF l
    <2>3. QED
      BY <1>6, <2>1, <2>2
  <1>9. CASE WriteTmp(t)
    <2> DEFINE l == [m EXCEPT !.step = "replace", !.copy = NoFile]
    <2>1. Become(t, l) /\ fails' = fails
      BY <1>9 DEF WriteTmp, loginVars
    <2> HIDE DEF m
    <2>2. l.step = "replace"
      BY <1>1 DEF Locals
    <2> HIDE DEF l
    <2>3. QED
      BY <1>6, <2>1, <2>2
  <1>10. CASE PasswordRight(t)
    <2> DEFINE n == account[Subject(t)].salt
               l == [m EXCEPT !.step = "issue", !.proof = n]
    <2>1. Become(t, l) /\ fails' = fails
      BY <1>10 DEF PasswordRight, loginVars
    <2> HIDE DEF m, n
    <2>2. l.step = "issue"
      BY <1>1 DEF Locals
    <2> HIDE DEF l
    <2>3. QED
      BY <1>6, <2>1, <2>2
  <1>11. CASE \/ OpenSession(t) \/ BumpEpoch(t) \/ RenewCookie(t)
              \/ SetActive(t) \/ SetRole(t) \/ DeleteUser(t)
              \/ ReplaceFile(t) \/ FileFails(t) \/ Issue(t) \/ IssueRefused(t)
    <2>1. fails' = fails
      BY <1>11 DEF OpenSession, BumpEpoch, RenewCookie, SetActive, SetRole, DeleteUser,
                   ReplaceFile, FileFails, Issue, IssueRefused, loginVars
    <2>2. Finish(t) \/ Goto(t, "bump") \/ Goto(t, "renew") \/ Goto(t, "read") \/ Goto(t, "clear")
      BY <1>11 DEF OpenSession, BumpEpoch, RenewCookie, SetActive, SetRole, DeleteUser,
                   ReplaceFile, FileFails, Issue, IssueRefused
    <2>3. QED
      BY <1>4, <2>1, <2>2
  <1>12. QED
    BY <1>2, <1>3, <1>5, <1>7, <1>8, <1>9, <1>10, <1>11 DEF Handling

(* A step that leaves the threads alone and adds no failure.               *)
LEMMA NoFailureBounded ==
    ASSUME TypeInv, TypeInv', IsFiniteSet(Threads), LockoutInv, request' = request,
           \A u \in Users : fails'[u] <= fails[u]
    PROVE  LockoutInv'
  <1>1. ASSUME NEW u \in Users PROVE Bounded(u)'
    <2>1. Guessers(u)' \subseteq Guessers(u)
      BY DEF Guessers, Guessing, At, Subject
    <2>2. QED
      BY <2>1, BoundedKept DEF LockoutInv
  <1>2. QED
    BY <1>1 DEF LockoutInv

LEMMA CrashBounded ==
    ASSUME TypeInv, TypeInv', IsFiniteSet(Threads), LockoutInv, Crash
    PROVE  LockoutInv'
  <1>1. ASSUME NEW u \in Users PROVE Bounded(u)'
    <2>1. \A t \in Threads : request'[t] = request[t] \/ request'[t] = Idle
      BY DEF Crash
    <2>2. Guessers(u)' \subseteq Guessers(u)
      BY <2>1 DEF Guessers, Guessing, At, Subject, Idle
    <2>3. fails'[u] <= fails[u]
      BY DEF Crash, loginVars, TypeInv, CredentialsTypeOK
    <2>4. QED
      BY <2>2, <2>3, BoundedKept DEF LockoutInv
  <1>2. QED
    BY <1>1 DEF LockoutInv

LEMMA NextBounded ==
    ASSUME TypeInv, TypeInv', IsFiniteSet(Threads), LockoutInv, [Next]_credentialVars
    PROVE  LockoutInv'
  <1>1. fails \in [Users -> Nat]
    BY DEF TypeInv, CredentialsTypeOK
  <1>2. CASE \E t \in Threads : Arrival(t) \/ Handling(t)
    BY <1>2, ArrivalBounded, HandlingBounded
  <1>3. CASE Watching
    <2>1. request' = request /\ fails' = fails
      BY <1>3 DEF Watching, Tick, SyncRead, SyncVerify, SyncSet, SyncBump, SyncEnds,
                  SyncException, loginVars
    <2>2. QED
      BY <1>1, <2>1, NoFailureBounded
  <1>4. ASSUME NEW u \in Users, WindowEnds(u) PROVE LockoutInv'
    <2>1. request' = request /\ \A v \in Users : fails'[v] <= fails[v]
      BY <1>1, <1>4 DEF WindowEnds
    <2>2. QED
      BY <2>1, NoFailureBounded
  <1>5. CASE \/ \E u \in Users, p \in Passwords : RootEdits(u, p)
             \/ \E k \in tokens : TokenEnds(k)
             \/ UNCHANGED credentialVars
    <2>1. request' = request /\ fails' = fails
      BY <1>5 DEF RootEdits, TokenEnds, credentialVars, loginVars
    <2>2. QED
      BY <1>1, <2>1, NoFailureBounded
  <1>6. QED
    BY <1>2, <1>3, <1>4, <1>5, CrashBounded, ThereType DEF Next

(* With any finite number of threads, wrong passwords cannot be tried more *)
(* than once per thread beyond the limit: whoever is about to count a      *)
(* failure looked at the counter while it was below.                       *)
THEOREM LockoutCorrect ==
    ASSUME IsFiniteSet(Threads)
    PROVE  CredentialsSpec => []LockoutBound
  <1>1. Init => LockoutInv
    <2> SUFFICES ASSUME Init, NEW u \in Users PROVE Bounded(u)
      BY DEF LockoutInv
    <2>1. Guessers(u) = {}
      BY DEF Init, Guessers, Guessing, At, Idle
    <2>2. fails[u] = 0 /\ Limit \in Nat \ {0} /\ Cardinality(Threads) \in Nat
      BY FS_CardinalityType, CredentialsAssumption DEF Init
    <2>3. QED
      BY <2>1, <2>2, FS_EmptySet DEF Bounded
  <1>2. TypeInv /\ TypeInv' /\ LockoutInv /\ [Next]_credentialVars => LockoutInv'
    BY NextBounded
  <1>3. TypeInv /\ LockoutInv => LockoutBound
    <2> SUFFICES ASSUME TypeInv, LockoutInv, NEW u \in Users
                 PROVE  fails[u] < Limit + Cardinality(Threads)
      BY DEF LockoutBound
    <2>1. Cardinality(Guessers(u)) \in Nat /\ Cardinality(Threads) \in Nat
      BY FewGuessers
    <2>2. fails[u] \in Nat /\ Limit \in Nat
      BY CredentialsAssumption DEF TypeInv, CredentialsTypeOK
    <2>3. fails[u] + Cardinality(Guessers(u)) < Limit + Cardinality(Threads)
      BY DEF LockoutInv, Bounded
    <2>4. QED
      BY <2>1, <2>2, <2>3
  <1>4. QED
    BY <1>1, <1>2, <1>3, TypeInvCorrect, PTL DEF CredentialsSpec
=============================================================================
