\* Two collections, two documents, two updates of each, two crashes.
SPECIFICATION Spec
CONSTANTS
  Cols <- MCCols
  Startup <- MCStartup
  MaxDocs = 2
  MaxVer = 2
  MaxCrashes = 2
INVARIANTS FileIsPrefix TornByOneUpdate SavedSurvives
PROPERTY DocumentsReachDisk
\* A server that cannot read its files stays down.
CHECK_DEADLOCK FALSE
