SPECIFICATION ScanSpec
CONSTANTS
  Total = 8
  Low = 1
  Ram = {0, 1, 2, 3, 4, 5, 6, 7}
  Holes = {3}
  BootTables = {3}
  Sizes = {0, 2, 3, 9}
INVARIANTS TypeOK Accounts
PROPERTIES IsFrame IsPool Returns
