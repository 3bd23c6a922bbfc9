\* Two concurrent checkouts compete for the last units and for one wallet.
SPECIFICATION Spec
CONSTANTS
  u1 = u1
  u2 = u2
  p1 = p1
  p2 = p2
  v1 = v1
  v2 = v2
  Users = {u1, u2}
  Guest = Guest
  Products = {p1, p2}
  Vendors = {v1, v2}
  Manager = Manager
  Nil = Nil
  Checkouts = {c1, c2}
  StatusRequests = {}
  Editors = {}
  Owner <- MCOwner
  Price <- MCPrice
  Credit <- CreditP2
  Unlimited = {}
  InitStock <- FewUnits
  InitWallet <- OneWallet
  CodeOwner = u2
  Incentive = 1
  Buyers = {u1}
  Methods = {"wallet", "provider", "delivery_cash"}
  Baskets <- BasketsBoth
  Referrals = {FALSE}
  ManagerStatuses = {}
  VendorStatuses = {}
  EditStocks = {}
  Shoppers = {u1}
  Trashable = {}
  MaxFaults = 0
INVARIANTS
  NoOverdraft
  MoneySettled
  SuccessHoldsStock
  StockFollowsLines
CHECK_DEADLOCK FALSE
