CONSTANTS
  Admin = {a1}
  Ingester = {i1}
  Type = {t1, t2}
  Schema = {s1}
  Entry = {e1, e2, e3}
  Ctx = {c1, c2}
  Client = {k1, k2}
  Configs <- AllConfigs
  None = None
SPECIFICATION Spec
SYMMETRY Symmetry
INVARIANTS
  TypeOK
  RoutingMatchesTypes
  StatusIsTrue
  LockHasOwner
