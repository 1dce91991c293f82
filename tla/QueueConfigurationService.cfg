SPECIFICATION FairConfigurationSpec
CONSTANTS
  Node = {n1, n2}
  Call = {c1, c2}
  Limits <- MCLimits
  None = None
  MaxEdits = 3
INVARIANTS ConfigurationTypeOK
PROPERTIES Converges LostOnlyToStaleEntry
