SPECIFICATION Commands
CONSTANTS
  Setups <- MCSetups
  Disk <- MCDisk
  Environ <- MCEnviron
  Strings <- MCStrings
  ValidNames <- MCNames
  ValidTables <- MCTables
  Certificates <- MCCertificates
  BadHosts <- MCBadHosts
  Runs = {r1, r2, r3}
  Releases = 3
SYMMETRY Symmetry
INVARIANTS
  StartsIffSound
  RolesApart
  StorageReleased
  Gated
  GuardLifted
  OnlyVerified
  ReportsTrue
CHECK_DEADLOCK FALSE
