SPECIFICATION FairSpec
CONSTANTS
  p1 = p1
  p2 = p2
  t1 = t1
  t2 = t2
  Procs = {p1, p2}
  First = p1
  Threads = {t1, t2}
  Addrs <- Three
  Scenarios <- Scanning
  Sanity = TRUE
  UIntMod = 4
  MaxChan = 2
  MaxCmds = 1
  MaxDrift = 2
INVARIANTS NoGhosts NoFalseCharge ScanSound
PROPERTIES ScanEnds
