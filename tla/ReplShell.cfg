\* Every key on a small buffer with a small history.
SPECIFICATION Spec
CONSTANTS
  Char = {":", " "}
  Blank = {" "}
  Colon = ":"
  NUL = "nul" CR = "cr" LF = "lf" BS = "bs" ESC = "esc"
  Bracket = "["
  KEY_UP = "A" KEY_DOWN = "B" KEY_LEFT = "D" KEY_RIGHT = "C"
  BuffSize = 3
  HistMax = 3
  MaxBlock = 2
INVARIANTS Terminated SavedReachable
PROPERTIES IsEditor UpRecallsLast
