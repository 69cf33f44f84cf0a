SPECIFICATION IdSpec
CONSTANTS
  Callers = {g1, g2}
  Times = {1, 2, 10}
  Base = 6
  Digits = 2
  CounterBits = 2
  MachineBits = 0
  MachineID = 0
  Window = 9
  MaxCalls = 4
  MaxSetBacks = 1
INVARIANTS IdTypeOK DuplicatesHaveACause
SYMMETRY CallerSymmetry
CHECK_DEADLOCK FALSE
