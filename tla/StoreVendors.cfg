\* Two vendors work on the lines of two orders.
SPECIFICATION Spec
CONSTANTS
  u1 = u1
  u2 = u2
  p1 = p1
  p2 = p2
  v1 = v1
  v2 = v2
  Users = {u1, u2}
  Guest = Guest
  Products = {p1, p2}
  Vendors = {v1, v2}
  Manager = Manager
  Nil = Nil
  Checkouts = {c1, c2}
  StatusRequests = {a1, a2, a3}
  Editors = {}
  Owner <- MCOwner
  Price <- MCPrice
  Credit <- CreditP2
  Unlimited = {}
  InitStock <- FewUnits
  InitWallet <- OneWallet
  CodeOwner = u2
  Incentive = 1
  Buyers = {u1}
  Methods = {"order"}
  Baskets <- BasketsPair
  Referrals = {FALSE}
  ManagerStatuses = {}
  VendorStatuses = {"accepted", "rejected", "pending"}
  EditStocks = {}
  Shoppers = {}
  Trashable = {}
  MaxFaults = 0
SYMMETRY Symmetry
INVARIANTS
  OrderStatusAggregates
  StockFollowsLines
CHECK_DEADLOCK FALSE
