SPECIFICATION Spec
CONSTANTS
  Thread = {t1, t2}
  Cpu = {c1, c2}
  Dev = Dev
  None = None
SYMMETRY Symmetry
INVARIANTS MutualExclusion IntrRestored
