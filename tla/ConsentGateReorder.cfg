SPECIFICATION Spec
CONSTANTS
  Subjects = {s1, s2}
  Overlapping = {s2}
  Requests = {r1, r2}
  Inputs <- MCInputs
  None = None
SYMMETRY Sym
INVARIANT
  ConsentSurvivesRestart
