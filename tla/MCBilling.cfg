SPECIFICATION Spec
CONSTANTS
  Bindings = {"bLeaf", "bMid"}
  Orgs <- MCOrgs
  Root = "root"
  Path <- MCPath
  Price <- MCPrice
  Coefficient <- MCCoefficient
  Gib = 2
  CreditLimit <- MCLimit
  ConfirmReadings = 2
  MaxTraffic <- MCTraffic
  MaxResets <- MCResets
  MaxKept <- OneKept
  MaxAccepted <- OneAccepted
  FundAmount = 1
  MaxBalance <- MCBalance
  Suspendable = {"mid"}
  NoReading = NoReading
INVARIANTS
  TypeOK
  ChargesMatchAccepted
