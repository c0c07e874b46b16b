SPECIFICATION FairSpec
CONSTANTS
  Bindings = {"bLeaf"}
  Orgs <- MCOrgs
  Root = "root"
  Path <- MCPath
  Price <- FinePrice
  Coefficient <- MCCoefficient
  Gib = 3
  CreditLimit <- MCLimit
  ConfirmReadings = 3
  MaxTraffic <- LongTraffic
  MaxResets <- MCResets
  MaxKept <- TwoKept
  MaxAccepted <- TwoAccepted
  FundAmount = 1
  MaxBalance <- FullBalance
  Suspendable = {"mid"}
  NoReading = NoReading
INVARIANT
  UsageNeverInvented
PROPERTY
  BilledOrHeld
