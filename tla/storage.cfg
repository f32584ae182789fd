CONSTANTS
  Dir = {d1}
  Account = {a1}
  Folder = {1, 2}
  Type = {1, 2}
  Definition <- MCDefinitions
  IngestTime = "ingest_time"
  None = None
  MapId = {m1, m2, m3}
  MaxTroubles = 1
SPECIFICATION Spec
SYMMETRY MapSymmetry
INVARIANTS
  StorageTypeOK
  StoredSchemaIsKept
  CatalogFitsStorage
  SnapshotIsStable
  RunningTypesListed
PROPERTIES
  RefusedForCause
  StaysQueryable
