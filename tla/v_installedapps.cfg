SPECIFICATION Spec
CONSTANTS
  Requests <- Registered
  Worlds <- GoodWorlds
  Stubs <- MCStubs
  Sources <- MCSources
  ManifestName <- MCManifestName
  Generated = {"journal.json", "JOURNAL.JSON", "covenant-setup-uninstall.exe", "covenant-setup-installer.exe"}
  MaxFaults = 1
CHECK_DEADLOCK FALSE
INVARIANTS
  RegisteredCommandWorks
