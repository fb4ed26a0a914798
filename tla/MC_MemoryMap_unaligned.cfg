\* Three pages in half-page granules, maps of up to two entries; with initramfs modules that may start inside a page.
CONSTANTS
  Top = 6
  PAGE = 2
  MaxEntries = 2
  SortedMap = TRUE
  AlignedModule = FALSE
  NONE = NONE
SPECIFICATION Spec
INVARIANT NoReservedHandedOut
CHECK_DEADLOCK FALSE
