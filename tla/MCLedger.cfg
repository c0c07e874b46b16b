SPECIFICATION FairSpec
CONSTANTS
  Orgs <- MCOrgs
  System = "SYSTEM"
  CreditLimit <- MCLimit
  Switched = {"c", "p"}
  Rank <- MCRank
  Jobs <- MCJobs
  Rows <- MCRows
  NoRow = "none"
  Sessions = {s1, s2}
  NoSession = NoSession
INVARIANTS
  TypeOK
  CreditFloor
  ReplayNeverPostsTwice
  AllOrNothing
  
PROPERTIES
  ImplementsWalletBook
  JobsEnd
