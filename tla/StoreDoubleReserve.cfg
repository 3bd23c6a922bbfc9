\* One vendor and then a manager accept an order of two vendors.
SPECIFICATION Spec
CONSTANTS
  u1 = u1
  u2 = u2
  p1 = p1
  p2 = p2
  v1 = v1
  v2 = v2
  Users = {u1, u2}
  Guest = Guest
  Products = {p1, p2}
  Vendors = {v1, v2}
  Manager = Manager
  Nil = Nil
  Checkouts = {c1}
  StatusRequests = {a1, a2}
  Editors = {}
  Owner <- MCOwner
  Price <- MCPrice
  Credit <- CreditP2
  Unlimited = {}
  InitStock <- TwoUnits
  InitWallet <- OneWallet
  CodeOwner = u2
  Incentive = 1
  Buyers = {u1}
  Methods = {"order"}
  Baskets <- BasketsPair
  Referrals = {FALSE}
  ManagerStatuses = {"accepted"}
  VendorStatuses = {"accepted", "rejected", "pending"}
  EditStocks = {}
  Shoppers = {}
  Trashable = {}
  MaxFaults = 0
INVARIANT NoDoubleReservation
CHECK_DEADLOCK FALSE
