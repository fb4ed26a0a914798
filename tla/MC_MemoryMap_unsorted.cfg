\* Three pages in half-page granules, maps of up to two entries; with memory maps whose entries are in any order.
CONSTANTS
  Top = 6
  PAGE = 2
  MaxEntries = 2
  SortedMap = FALSE
  AlignedModule = TRUE
  NONE = NONE
SPECIFICATION Spec
INVARIANT NoReservedHandedOut
CHECK_DEADLOCK FALSE
