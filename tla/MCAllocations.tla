--------------------------- MODULE MCAllocations ---------------------------
(***************************************************************************)
(* Small instances of Allocations for TLC: a process p1, the child p2 it   *)
(* may fork, and one or two threads.                                       *)
(***************************************************************************)
EXTENDS Allocations, TLC

CONSTANTS p1, p2, t1, t2

\* The two threads are interchangeable: with a scenario, its image is an
\* instance too.
Symmetry == Permutations({t1, t2})

Three == 1..3
TwoThreads == {t1 :> p1 @@ t2 :> p1}                      \* two threads of p1
TwoProcs == {t1 :> p1 @@ t2 :> p2, t1 :> p2 @@ t2 :> p1}  \* one of p1, one of its child

Instance(owners, n, sizes, ops, fails, modes, interactive) ==
  [owner : owners, room : {1..n}, sizes : {sizes}, ops : {ops}, fails : {fails},
   modes : {modes}, interactive : {interactive}]

\* One process: its heap, where allocations fail, and its mappings.
OneProcess ==
  Instance(TwoThreads, 2, {0, 1}, {"malloc", "free", "realloc", "exit"},
           {"malloc", "realloc"}, {}, FALSE)
  \cup Instance(TwoThreads, 3, {2}, {"mmap", "munmap", "mremap", "malloc", "scan", "scan_empty",
                                     "hidden", "exit"}, {}, {"all", "new", "leak"}, TRUE)

\* A process and its child, and tracing that is stopped and started again.
ForkAndRestart ==
  Instance(TwoProcs, 2, {1}, {"malloc", "free", "fork", "exit"}, {}, {}, FALSE)
  \cup Instance(TwoProcs, 2, {1}, {"malloc", "free", "mmap", "munmap", "munmap_past", "start",
                                   "stop"}, {}, {}, TRUE)

\* Scans, the answers to which are late, scans of a process that has exited, and
\* bookkeeping that is reset under the calls of the program.
Scanning ==
  Instance(TwoThreads, 2, {1}, {"malloc", "free", "lose", "scan", "reset", "exit"}, {}, {"all"}, TRUE)
  \cup Instance(TwoProcs, 1, {1}, {"malloc", "fork", "scan", "exit"}, {}, {"all"}, TRUE)
  \cup Instance(TwoThreads, 2, {1}, {"realloc", "reset"}, {}, {}, TRUE)
=============================================================================
