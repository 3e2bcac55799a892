\* One crash during a dump.
SPECIFICATION Spec
CONSTANTS
  Cols <- MCCols
  Startup <- MCStartup
  MaxDocs = 2
  MaxVer = 2
  MaxCrashes = 1
INVARIANT StoreIsRetained
\* A server that cannot read its files stays down.
CHECK_DEADLOCK FALSE
