SPECIFICATION Spec
CONSTANTS
  Orders = {o1}
  Buyer <- BuyerOf
  Panel <- PanelOf
  Owner <- OwnerOf
  RoomBelow = {"seller"}
  Plans = {plan}
  Shelves = {shelf}
  Keeper <- KeeperOf
  Terms = {t1, t2}
  Admins = {a1}
  Sessions = {s1, s2}
  NoOne = NoOne
  NoPlan = NoPlan
  NoShelf = NoShelf
  NoTerms = NoTerms
  NoAdmin = NoAdmin
INVARIANTS
  TypeOK
  AccountIffApproved
  ConfirmedAsShown
  OpenedAsAgreed
  NothingUsedIsDeleted
PROPERTY ImplementsFunnel
SYMMETRY Symmetry
