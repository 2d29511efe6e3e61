SPECIFICATION TenantsSpec
CONSTANTS
  Threads = {t1, t2}
  Scenarios = {{"account-add", "account-edit", "account-delete", "member-add", "helper"},
               {"serial", "account-add", "account-edit", "account-delete", "member-add",
                "member-remove", "user-create", "user-delete"},
               {"serial", "account-add", "account-edit", "account-delete", "helper", "half"},
               {"serial", "user-create", "user-delete", "quota", "helper", "by-hand"},
               {"serial", "user-create", "user-delete", "node", "quota", "set-quota", "lost"},
               {"user-create", "user-delete", "key-add"},
               {"turns", "view", "key-add", "own-edit", "helper"},
               {"serial", "key-add", "key-delete", "view", "own-edit", "helper",
                "user-delete", "user-create"},
               {"serial", "account-add", "account-edit", "member-add", "member-remove", "book"},
               {"plan", "book", "helper", "user-delete"},
               {"serial", "plan", "book", "key-add", "user-delete", "helper"},
               {"save", "order", "image-delete", "apart", "fail", "proxy"},
               {"save", "rename", "root-rename", "order", "apart"},
               {"serial", "rename", "root-rename", "image-delete", "order", "apart"},
               {"serial", "save", "rename", "image-delete", "order", "apart", "fail"}}
  MaxRequests = 4
  MaxInTurn = 4
  MaxBooking = 5
  Names = {n1, n2}
  None = None
  Accounts = {s, a}
  Site = s
  MaxPriority = 2
  Keys = {k1, k2}
  Quotas = {q1, q2}
  NoLimit = NoLimit
  Images = {i1, i2}
  Slots = {x, y}
  Plans = {p1, p2}
  Rows = {r1}
  Present = {n1}
  FirstQuota = q1
SYMMETRY Symmetry
CHECK_DEADLOCK FALSE
INVARIANTS TenantsTypeOK RowBacked DefaultIsMember RegisteredKeyWorks QuotaAgrees  PlanOnRecord
           ImagesWhole ImageAtHand
PROPERTIES SyncedOnSuccess ChargedOpenAccount NothingOverwritten
