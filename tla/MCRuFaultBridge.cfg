SPECIFICATION Spec
CONSTANTS
  Fault = {1}
  Source = {s1, s2}
  Severity = {2, 3, 4}
  Warning = 2
  MaxQueue = 3
SYMMETRY Symmetry
INVARIANTS
  RegistryMirrorsReports
  MirrorCatchesUp
