SPECIFICATION FairSpec
CONSTANTS
  Requests <- MCRequests
  Worlds <- Worlds3
  Stubs <- MCStubs
  Sources <- MCSources
  ManifestName <- MCManifestName
  Generated = {"journal.json", "JOURNAL.JSON", "covenant-setup-uninstall.exe", "covenant-setup-installer.exe"}
  MaxFaults = 1
CHECK_DEADLOCK FALSE
INVARIANTS
  TypeOK
  WorkIsEntitled
  RelaunchKeepsCommand
  HelperSpeaksAlike
  ExitHonest
  ReportedOnce
  CutOffPackageIsRefused
  UnpacksWhatWasPackaged
PROPERTIES
  AutomationEnds
