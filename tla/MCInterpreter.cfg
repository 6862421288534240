\* Two jobs that end or are killed before a third starts, or that overlap with
\* it, on two archives.  Calls and children end: deadlock is not checked.
CONSTANTS
  Jobs = {j1, j2, j3}
  Archives <- TwoArchives
  Blocks <- TwoFirstAlike
  Files <- TwoFiles
  Nobody = Nobody
SPECIFICATION Spec
INVARIANTS
  OwnFiles
  WholeFiles
SYMMETRY JobSymmetry
CHECK_DEADLOCK FALSE
