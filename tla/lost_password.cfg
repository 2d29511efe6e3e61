SPECIFICATION CredentialsSpec
CONSTANTS
  Users = {u1, u2}
  Alone = u1
  NoUser = NoUser
  Passwords = {"a", "b"}
  First = "a"
  NoPassword = NoPassword
  NoFile = NoFile
  Threads = {t1, t2}
  Scenarios = {{"several", "reset", "sync"}}
  MaxChanges = 1
  MaxEdits = 0
  MaxCrashes = 0
  MaxCookies = 0
  MaxTokens = 0
  Limit = 1
CHECK_DEADLOCK FALSE
INVARIANTS PasswordKept
