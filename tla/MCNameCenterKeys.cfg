SPECIFICATION Spec
CONSTANTS
  Absent = Absent
  Apps <- MCOddApps
  Runs <- MCOnce
  Depends <- MCDepends
  Word = 16
INVARIANTS TokensAgree
CHECK_DEADLOCK FALSE
