SPECIFICATION Spec
CONSTANTS
  t1 = t1
  t2 = t2
  c1 = c1
  f1 = f1
  f2 = f2
  Ret = Ret
  Brk = Brk
  Entry = Entry
  NULL = NULL
  Funcs <- Funcs2
  LibOf <- Lib2
  MainLib = "main"
  HwBreakpoints = 2
  Threshold = 1
  Procs <- Leaders2
  Threads <- OneThread
  Attached <- TwoTasks
  First = t1
  NoReturn = {}
  Scenarios <- Everyday
INVARIANTS TypeOK AssertsHold References SlotsAgree Armed Released ReportedOnce
PROPERTIES NoneMissed
CHECK_DEADLOCK FALSE
