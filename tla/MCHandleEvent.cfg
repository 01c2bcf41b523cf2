SPECIFICATION Spec
CONSTANT Configs <- MCConfigs
INVARIANTS
  Expands
  
  ExtensionsRun
CHECK_DEADLOCK FALSE
