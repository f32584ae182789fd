CONSTANTS
  Admin = {a1}
  Ingester = {i1}
  Type = {t1}
  Schema = {s1, s2}
  Entry = {e1, e2, e3}
  Ctx = {c1, c2}
  Client = {k1, k2}
  Configs <- ValidConfigs
  None = None
SPECIFICATION Spec
INVARIANTS
  RowFitsItsWriter
