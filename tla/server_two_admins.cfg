CONSTANTS
  Admin = {a1, a2}
  Ingester = {}
  Type = {t1, t2}
  Schema = {s1}
  Entry = {e1, e2, e3}
  Ctx = {c1, c2}
  Client = {k1}
  Configs <- PlainConfigs
  None = None
SPECIFICATION FairSpec
INVARIANTS
  TypesMatchDefinitions
  NoLeakedEntry
  EndIsAwaited
  RoutesLeadHome
PROPERTIES
  RequestsAnswered
