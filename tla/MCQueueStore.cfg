SPECIFICATION Spec
CONSTANTS
  RecipientId = {q1, q2}
  SenderId = {s1, s2}
  NotifierId = {n1, n2}
  LinkId = {l1}
  ServiceId = {v1}
  Cert = {c1}
  Role = {"messaging"}
  Key = {k1, k2}
  RcvKeys = {r1, r2}
  LinkData <- OneLinkData
  Date = {d1, d2}
  Thread = {t1, t2}
  None = None
  Absent = Absent
  Deleted = Deleted
  MaxOps = 3
  MaxCrashes = 2
  MaxFails = 1
SYMMETRY Symmetry
INVARIANT IndexesAgree
INVARIANT ServicesAgree
INVARIANT RestartKeeps
INVARIANT DeletedStays
INVARIANT KeyKept
