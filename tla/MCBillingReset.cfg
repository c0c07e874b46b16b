SPECIFICATION Spec
CONSTANTS
  Bindings = {"bLeaf"}
  Orgs <- MCOrgs
  Root = "root"
  Path <- MCPath
  Price <- MCPrice
  Coefficient <- MCCoefficient
  Gib = 2
  CreditLimit <- MCLimit
  ConfirmReadings = 2
  MaxTraffic <- MCTraffic
  MaxResets <- MCResets
  MaxKept <- NoneKept
  MaxAccepted <- TwoAccepted
  FundAmount = 1
  MaxBalance <- FullBalance
  Suspendable = {"mid"}
  NoReading = NoReading
INVARIANT AcceptedIsCharged
