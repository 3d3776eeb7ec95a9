CONSTANTS
  Sessions = {s1, s2}
  Names = {h1, h2}
  Links = {e1, e2, e3, e4}
  None = None
SYMMETRY Symmetry
SPECIFICATION Spec
INVARIANTS SharedOnlyByRace ErrorsNeedRemoval
