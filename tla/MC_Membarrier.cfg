CONSTANTS
  Majors = {3, 4, 5}
  Minors = {0, 13, 14, 19}
  ApiLevels = {28, 29}
  MaxCalls = 2

SPECIFICATION Spec

INVARIANT SyscallExactlyWhenUsable
