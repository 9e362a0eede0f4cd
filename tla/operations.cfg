CONSTANTS
  Workers = {w1, w2}
  Staff = {s1, s2}
  Nobody = Nobody
  Backups = {1, 2}
  NoBackup = NoBackup
  Users = {u1, u2}
  Tokens = {t1, t2}
  Notices = {n1}
  NoUser = NoUser
  NoToken = NoToken
  NoNotice = NoNotice
  MaxRetries = 2
  MaxCuts = 2
  Texts = {m1, m2}
  Plans = {p1, p2}
  Bundles = {b1, b2}
  Purchases = {o1}
  NoPlan = NoPlan
  NoBundle = NoBundle
  RateRows = {r1, r2}
  Values = {x1, x2}
  NoRow = NoRow
  NoValue = NoValue
  MaxUsage = 2
  Admins = {a1, a2}
  NoAdmin = NoAdmin
SPECIFICATION Spec
INVARIANTS
  TypeOK
  ClosedProperly
  TasksKept
  AnswersAreTrue
  CatalogueKept
  
PROPERTIES
  BackupsEnd
