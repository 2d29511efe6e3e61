SPECIFICATION CredentialsSpec
CONSTANTS
  Users = {u1, u2}
  Alone = u1
  NoUser = NoUser
  Passwords = {"a", "b"}
  First = "a"
  NoPassword = NoPassword
  NoFile = NoFile
  Threads = {t1, t2}
  Scenarios = {{"login", "logout", "change", "reset"},
               {"login", "change", "sync"},
               {"reset", "sync", "edit", "crash"},
               {"terminal", "toggle", "reset"},
               {"login", "role", "toggle", "reset", "remove", "disk"},
               {"bootstrap", "edit", "sync", "exception"},
               {"several", "reset", "sync", "edit"}}
  MaxChanges = 2
  MaxEdits = 1
  MaxCrashes = 1
  MaxCookies = 2
  MaxTokens = 2
  Limit = 2
CHECK_DEADLOCK FALSE
INVARIANTS CredentialsTypeOK SessionsProve LockoutBound
PROPERTIES TokensPromise FileApplied
