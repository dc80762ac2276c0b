SPECIFICATION Spec
CONSTANTS
  CPUs = {c1, c2}
  Threads = {t1, t2}
  Lk = Lk
  NoCpu = NoCpu
SYMMETRY Symmetry
INVARIANTS LocksSound IntrRestored
