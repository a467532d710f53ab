SPECIFICATION Spec
CONSTANTS
  local = local
  root = root
  bin = bin
  desktop = desktop
  progfiles = progfiles
  pf = pf
  store = store
  exe = exe
  log = log
  uninstaller = uninstaller
  journal = journal
  pfuninst = pfuninst
  pfjournal = pfjournal
  link = link
  note = note
  helper = helper
  letter = letter
  portal = portal
  writelog = writelog
  mklink = mklink
  None = None
  NoPath = None
  BadKey = BadKey
  DirPath <- HomeDirs
  FilePath <- HomeFiles
  Link = {}
  Leads <- MCLeads
  Ancestors <- MCAncestors
  AdminPath <- MCAdminPath
  Node0 <- MCNode0
  Key <- MCKeys
  Tree <- MCTree
  AdminKey = {"machinekey", "arpmachine"}
  UninstallKey = {"arpuser", "arpmachine"}
  Name <- MCNames
  Reg0 <- MCReg0
  Root <- MCRoots
  UninstallerIn <- MCUninstallerIn
  JournalIn <- MCJournalIn
  JournalPath <- MCJournalPaths
  SideJournal = journal
  ArpHkcu = "arpuser"
  ArpHklm = "arpmachine"
  ArpNames <- MCArpNames
  Script = {writelog}
  Leaves <- MCLeaves
  HelperExe = helper
  Manifests <- JustSample
  Tokens = {TRUE}
  Images = {None}
  Modes = {"gui", "silent"}
  Holdable = {exe}
  Overlap = FALSE
  MaxTries = 2
  MaxFaults = 0
  MaxInstalls = 2
  MaxUninstalls = 1
  MaxBoots = 1
CHECK_DEADLOCK FALSE
INVARIANTS
  InstalledStaysIntact
