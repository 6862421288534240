\* One program with one option, which is enough for its stdin to be a pipe.
CONSTANTS
  Objects = {o1}
  Programs = {o1}
  Closers = {}
  Parent = Parent
  Nothing = Nothing
  MaxFd = 8
  MaxOptions <- OneThenTwo
SPECIFICATION Spec
INVARIANT
  InputPipesAreReadable
CHECK_DEADLOCK FALSE
