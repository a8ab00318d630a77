SPECIFICATION FairSpec
CONSTANTS
  Absent = Absent
  Apps <- MCApps
  Runs <- MCRuns
  Depends <- MCDepends
  Word = 16
INVARIANTS TablesOK TokensAgree 
PROPERTIES ServersLearn
CHECK_DEADLOCK FALSE
