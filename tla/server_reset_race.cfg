CONSTANTS
  Admin = {a1, a2}
  Ingester = {}
  Type = {t1, t2}
  Schema = {s1}
  Entry = {e1, e2, e3, e4}
  Ctx = {c1, c2, c3}
  Client = {k1, k2}
  Configs <- PlainConfigs
  None = None
SPECIFICATION Spec
INVARIANTS
  RunningTypesAreRouted
