CONSTANTS
  MinName = 2
  MaxName = 4
  Exact = 4
  Widest = 15
  MaxTypes = 1
  DefinitionInput <- MCDefinitionInput
  ItemInput <- MCItemInput
SPECIFICATION Spec
INVARIANTS
  ItemsTypeOK
  TextChecksAgree
  RecordReadsBack
  ItemsAccounted
  DefaultActsAsExplicit
