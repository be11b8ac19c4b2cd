SPECIFICATION InstallSpec
CONSTANTS
  p1 = p1
  p2 = p2
  q = q
  old_build = old_build
  new_build = new_build
  Procs = {p1, p2, q}
  Versions = {old_build, new_build}
  Want <- Builds
  Missing = Missing
  Junk = Junk
  MaxDeaths = 2
SYMMETRY SameBuild
INVARIANTS
  ReturnedIsWanted
  FailedInstallRestores
  VouchedStays
  LoadedIsTrusted
CHECK_DEADLOCK FALSE
