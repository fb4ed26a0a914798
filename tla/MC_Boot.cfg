CONSTANTS
  Top = 5
  PAGE = 2
  MaxEntries = 2
  MaxModules = 2
  NONE = NONE
  LoaderName = "GRUB"
SPECIFICATION Spec
INVARIANTS
  BootTypeOK
  PrintedAreasFree
  PrintedOrdered
  MultibootHeaderValid
PROPERTIES
  BootCompletes
CHECK_DEADLOCK FALSE
