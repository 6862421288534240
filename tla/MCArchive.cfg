\* Four entries, one of them without data.  An object that is destroyed, or was
\* never constructed, has nothing left to do: deadlock is not checked.
CONSTANTS
  Sizes <- SomeSizes
SPECIFICATION FairSpec
INVARIANTS
  WholeUnlessWarned
  HandleFreedOnce
PROPERTIES
  ImplementsFairExtraction
CHECK_DEADLOCK FALSE
