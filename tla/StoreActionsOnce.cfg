\* Two managers complete the same order.
SPECIFICATION Spec
CONSTANTS
  u1 = u1
  u2 = u2
  p1 = p1
  p2 = p2
  v1 = v1
  v2 = v2
  Users = {u1, u2}
  Guest = Guest
  Products = {p2}
  Vendors = {v1, v2}
  Manager = Manager
  Nil = Nil
  Checkouts = {c1}
  StatusRequests = {a1, a2}
  Editors = {}
  Owner <- MCOwner
  Price <- MCPrice
  Credit <- CreditP2
  Unlimited = {}
  InitStock <- LastUnits
  InitWallet <- OneWallet
  CodeOwner = u2
  Incentive = 1
  Buyers = {u1}
  Methods = {"order"}
  Baskets <- BasketsSecond
  Referrals = {FALSE}
  ManagerStatuses = {"accepted", "completed", "pending", "cancelled"}
  VendorStatuses = {}
  EditStocks = {0}
  Shoppers = {}
  Trashable = {}
  MaxFaults = 0
INVARIANT SpecialActionsOnce
CHECK_DEADLOCK FALSE
