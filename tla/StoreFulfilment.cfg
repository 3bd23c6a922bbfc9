\* One order under a manager, a vendor, an edit, the trash, restarts and failures.
SPECIFICATION Spec
CONSTANTS
  u1 = u1
  u2 = u2
  p1 = p1
  p2 = p2
  v1 = v1
  v2 = v2
  Users = {u1, u2}
  Guest = Guest
  Products = {p2}
  Vendors = {v1, v2}
  Manager = Manager
  Nil = Nil
  Checkouts = {c1}
  StatusRequests = {a1}
  Editors = {e1}
  Owner <- MCOwner
  Price <- MCPrice
  Credit <- CreditP2
  Unlimited = {}
  InitStock <- LastUnits
  InitWallet <- OneWallet
  CodeOwner = u2
  Incentive = 1
  Buyers = {u1, Guest}
  Methods = {"wallet"}
  Baskets <- BasketsSecond
  Referrals = {TRUE}
  ManagerStatuses = {"accepted", "completed", "cancelled"}
  VendorStatuses = {"accepted", "rejected", "completed"}
  EditStocks = {0}
  Shoppers = {}
  Trashable = {c1}
  MaxFaults = 1
INVARIANTS
  TypeOK
  NoOversell
  PayoutOncePerOrder
  RefundBacked
CHECK_DEADLOCK FALSE
