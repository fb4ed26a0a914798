\* The boot run's instance, checking that the information structure is
\* never handed out as free memory.
CONSTANTS
  Top = 5
  PAGE = 2
  MaxEntries = 2
  MaxModules = 2
  NONE = NONE
  LoaderName = "GRUB"
SPECIFICATION Spec
INVARIANT
  BootInfoNotHandedOut
CHECK_DEADLOCK FALSE
