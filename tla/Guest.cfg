CONSTANTS
  Tabs = {t1, t2}
  Others = {o1}
  Tokens = {k1, k2}
  Names = {ann}
  Faults = {"db", "lost", "drop", "private"}
  None = None
SPECIFICATION FairSpec
INVARIANTS RowBacked IInv
PROPERTIES NamesStay SavedStays CookieStays ScanEnters
CHECK_DEADLOCK FALSE
