SPECIFICATION Spec
CONSTANTS
  Orgs <- MCOrgs
  System = "SYSTEM"
  CreditLimit <- MCLimit
  Switched = {"c", "p"}
  Rank <- MCRank
  Jobs <- ObservedJobs
  Rows <- MCRows
  NoRow = "none"
  Sessions = {s1, s2}
  NoSession = NoSession
INVARIANT NoDeadlock
