SPECIFICATION FairSpec
CONSTANTS
  Orgs = {"root", "mid"}
  Parent <- ParentOf
  Actors = {"admin", "manager"}
  Home <- HomeOf
  Root = "admin"
  CreditLimit <- LimitOf
  Requests = {r1}
  Corrections = {c1}
  Fundings = {1}
  Adjustments <- Signed
  Ttl = 1
  MaxClock = 1
  Sessions = {s1, s2}
  NoOne = NoOne
INVARIANTS
  TypeOK
  MoneyFollowsDecision
  WithinCredit
PROPERTIES
  DecidedForGood
  OnlyAskedInTime
  DecisionsEnd
