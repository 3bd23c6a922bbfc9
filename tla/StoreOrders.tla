---------------------------- MODULE StoreOrders ----------------------------
(***************************************************************************)
(* Checkout, fulfilment and the money of the store                         *)
(* (src/backend/internal/store).                                           *)
(*                                                                         *)
(* Every HTTP request is a process that performs one SQL statement, one    *)
(* SQL transaction or one Redis call per step; between two steps any other *)
(* request may run.  PostgreSQL transactions are atomic and, because every *)
(* one of them locks the rows it decides on (FOR UPDATE, a conditional     *)
(* UPDATE, an advisory lock), serialisable.                                *)
(*                                                                         *)
(* The order a checkout creates is identified with the checkout itself, so *)
(* Checkouts is also the set of order identities.  An order has one line   *)
(* per product.  Product prices do not change.                             *)
(***************************************************************************)
EXTENDS Integers, FiniteSets

CONSTANTS
  Users,            \* signed-in accounts
  Guest,            \* a buyer without an account (is_guest)
  Products,
  Vendors,          \* accounts that own products but cannot manage orders
  Manager,          \* an account with store.manageOrders
  Nil,              \* no cached entry, no order found
  Checkouts,        \* POST /checkout and POST /orders requests
  StatusRequests,   \* PUT /orders/{id}/status requests
  Editors,          \* PUT and DELETE /products/{id} requests
  Owner,            \* product -> vendor
  Price,            \* product -> cents
  Credit,           \* product -> cents its special action grants (0: none)
  Unlimited,        \* products with stock_unlimited
  InitStock,        \* product -> units
  InitWallet,       \* user -> cents
  CodeOwner,        \* the account the one reference code belongs to
  Incentive         \* its incentive_amount

\* The inputs of the requests.
CONSTANTS
  Buyers,           \* who checks out
  Methods,          \* payment_method_id; "order" is POST /orders
  Baskets,          \* requested quantities, 0 for a product not requested
  Referrals,        \* may a request carry the reference code?
  ManagerStatuses,  \* statuses a manager sends
  VendorStatuses,   \* statuses a vendor sends
  EditStocks,       \* stock values an edit carries
  Shoppers,         \* users that use their server-side cart meanwhile
  Trashable,        \* orders that may be moved to the trash and back
  MaxFaults         \* bound on failed statements and process restarts

\* orders.status and order_items.vendor_status; "none": no such row yet.
Statuses == {"none", "pending", "accepted", "paid", "completed", "failed",
             "cancelled", "rejected", "vendor_review"}

ASSUME StoreAssumption ==
  /\ Users # {} /\ Guest \notin Users /\ Manager \notin Vendors
  /\ Nil \notin Int
  /\ Checkouts \cap StatusRequests = {}
  /\ Checkouts \cap Editors = {}
  /\ StatusRequests \cap Editors = {}
  /\ Owner \in [Products -> Vendors]
  /\ Price \in [Products -> Nat]
  /\ Credit \in [Products -> Nat]
  /\ Unlimited \subseteq Products
  /\ InitStock \in [Products -> Nat]
  /\ InitWallet \in [Users -> Nat]
  /\ CodeOwner \in Users
  /\ Incentive \in Nat \ {0}
  /\ Buyers \subseteq Users \cup {Guest}
  /\ Methods \subseteq {"wallet", "provider", "delivery_cash", "order"}
  /\ Baskets \subseteq [Products -> Nat]
  /\ Referrals \subseteq BOOLEAN
  /\ ManagerStatuses \subseteq Statuses
  /\ VendorStatuses \subseteq Statuses
  /\ EditStocks \subseteq Nat
  /\ Shoppers \subseteq Users
  /\ Trashable \subseteq Checkouts
  /\ MaxFaults \in Nat

VARIABLES
  stock,          \* products.stock
  listed,         \* products whose deleted_at is NULL
  cache,          \* Redis: product -> cached stock, or Nil
  orders,         \* orders.status, "none" before the row exists
  trashed,        \* orders whose deleted_at is set
  lines,          \* order -> product -> order_items.vendor_status
  payments,       \* payments.status of the order, "none" without a row
  wallet,         \* user -> SUM(credits) - SUM(debits)
  debits,         \* order -> number of its wallet debit rows
  refunds,        \* order -> number of its refund credit rows
  payoutCredits,  \* order -> number of its reference-reward credit rows
  payouts,        \* orders with a store_reference_code_payouts row
  granted,        \* order -> product -> times its special action ran
  cart,           \* user -> products in the server-side cart
  codeActive,     \* the reference code exists and is active
  faults,         \* failures so far
  pc,             \* request -> where its handler stands
  req,            \* checkout -> its decoded body
  total,          \* checkout -> price summed so far
  pay,            \* checkout -> payStatus
  outcome,        \* checkout -> what was answered
  job,            \* status request -> its decoded body and first read
  before,         \* request -> status UpdateOrderStatus read first
  todo,           \* request -> products its loop has left
  cur,            \* request -> product it is working on
  seen            \* request -> stock of that product as it read it

catalogVars == <<stock, listed, cache>>
orderVars   == <<orders, trashed, lines, payments>>
moneyVars   == <<wallet, debits, refunds, payoutCredits, payouts, granted>>
otherVars   == <<cart, codeActive, faults>>
inputVars   == <<req, job>>
localVars   == <<total, pay, outcome, before, todo, cur, seen>>
vars == <<catalogVars, orderVars, moneyVars, otherVars, pc, inputVars, localVars>>

Requests == Checkouts \cup StatusRequests \cup Editors

-----------------------------------------------------------------------------
(* Statuses and the rows of an order.                                      *)

\* Order statuses under which AcceptWithStockCheck takes no stock.
Reserved == {"accepted", "paid", "completed"}

\* Order statuses UpdateStatus copies to every line.
LineWide == {"completed", "cancelled", "failed", "rejected"}

Lines(o) == {p \in Products : req[o].items[p] > 0}

VendorLines(o, v) == {p \in Lines(o) : Owner[p] = v}

\* Mutant: the UPDATE has no stock >= quantity condition.
CanReserveBlind(o, ps) == ps \subseteq listed

\* The conditional UPDATE of products: one statement per line, rolled back
\* together when one of them matches no row.
CanReserve(o, ps) ==
  \A p \in ps : p \in listed /\ (p \in Unlimited \/ stock[p] >= req[o].items[p])

\* Mutant: the quantity is ignored.
ReserveOne(o, ps) ==
  [p \in Products |-> IF p \in ps \ Unlimited THEN stock[p] - 1 ELSE stock[p]]

Reserve(o, ps) ==
  [p \in Products |-> IF p \in ps \ Unlimited THEN stock[p] - req[o].items[p]
                                              ELSE stock[p]]

Release(o, ps) ==
  [p \in Products |-> IF p \in ps \ Unlimited THEN stock[p] + req[o].items[p]
                                              ELSE stock[p]]

WithLines(o, ps, s) ==
  [lines EXCEPT ![o] = [p \in Products |-> IF p \in ps THEN s ELSE lines[o][p]]]

\* aggregateOrderStatus: the order's status from its lines' statuses.
Aggregate(ps, ls) ==
  IF ps = {} THEN "pending"
  ELSE IF \A p \in ps : ls[p] = "completed" THEN "completed"
  ELSE IF \A p \in ps : ls[p] = "rejected" THEN "rejected"
  ELSE IF \A p \in ps : ls[p] \in {"accepted", "completed"} THEN "accepted"
  ELSE IF \A p \in ps : ls[p] = "pending" THEN "pending"
  ELSE "vendor_review"

-----------------------------------------------------------------------------
(* The order repository's transactions.                                    *)

\* What AcceptWithStockCheck(o) still has to reserve.
ToReserve(o) == IF orders[o] \in Reserved THEN {} ELSE Lines(o)

CanAccept(o) == o \notin trashed /\ CanReserve(o, ToReserve(o))

\* orders.AcceptWithStockCheck, committed.
AcceptWithStockCheck(o) ==
  /\ stock' = Reserve(o, ToReserve(o))
  /\ orders' = [orders EXCEPT ![o] = "accepted"]
  /\ lines' = WithLines(o, Lines(o), "accepted")

\* orders.UpdateStatus, committed.
UpdateStatus(o, s) ==
  /\ orders' = [orders EXCEPT ![o] = s]
  /\ lines' = IF s \in LineWide THEN WithLines(o, Lines(o), s) ELSE lines

\* A caller that ignores the error of orders.UpdateStatus on a trashed order.
TryStatus(o, s) ==
  \/ o \in trashed /\ UNCHANGED <<orders, lines>>
  \/ o \notin trashed /\ UpdateStatus(o, s)

\* Lines of vendor v that UpdateVendorStatus must take from or return to stock.
VendorToReserve(o, v, s) ==
  IF s = "accepted"
  THEN {p \in VendorLines(o, v) : lines[o][p] \notin {"accepted", "completed"}}
  ELSE {}

\* Mutant: lines that hold no stock give some back.
VendorToReleaseAll(o, v, s) ==
  IF s \in {"rejected", "pending"} THEN VendorLines(o, v) ELSE {}

VendorToRelease(o, v, s) ==
  IF s \in {"rejected", "pending"}
  THEN {p \in VendorLines(o, v) : lines[o][p] = "accepted"}
  ELSE {}

\* Mutant: the aggregate is computed before the lines are written.
UpdateVendorStatusEarly(o, v, s) ==
  /\ stock' = IF s = "accepted" THEN Reserve(o, VendorToReserve(o, v, s))
                                ELSE Release(o, VendorToRelease(o, v, s))
  /\ lines' = WithLines(o, VendorLines(o, v), s)
  /\ orders' = IF o \in trashed THEN orders
               ELSE [orders EXCEPT ![o] = Aggregate(Lines(o), lines[o])]

\* orders.UpdateVendorStatus, committed.  The lock query does not notice that
\* the order is trashed; only the last UPDATE of the order's row does.
UpdateVendorStatus(o, v, s) ==
  /\ stock' = IF s = "accepted" THEN Reserve(o, VendorToReserve(o, v, s))
                                ELSE Release(o, VendorToRelease(o, v, s))
  /\ lines' = WithLines(o, VendorLines(o, v), s)
  /\ orders' = IF o \in trashed THEN orders
               ELSE [orders EXCEPT ![o] = Aggregate(Lines(o), lines'[o])]

-----------------------------------------------------------------------------
(* Initial state.                                                          *)

NoRequest == [buyer |-> Guest, method |-> "order", referral |-> FALSE,
              items |-> [p \in Products |-> 0]]

NoJob == [order |-> Nil, actor |-> Manager, status |-> "pending", before |-> Nil]

Init ==
  /\ stock = InitStock
  /\ listed = Products
  /\ cache = [p \in Products |-> Nil]
  /\ orders = [o \in Checkouts |-> "none"]
  /\ trashed = {}
  /\ lines = [o \in Checkouts |-> [p \in Products |-> "none"]]
  /\ payments = [o \in Checkouts |-> "none"]
  /\ wallet = InitWallet
  /\ debits = [o \in Checkouts |-> 0]
  /\ refunds = [o \in Checkouts |-> 0]
  /\ payoutCredits = [o \in Checkouts |-> 0]
  /\ payouts = {}
  /\ granted = [o \in Checkouts |-> [p \in Products |-> 0]]
  /\ cart = [u \in Users |-> {}]
  /\ codeActive = TRUE
  /\ faults = 0
  /\ pc = [x \in Requests |-> "idle"]
  /\ req = [r \in Checkouts |-> NoRequest]
  /\ total = [r \in Checkouts |-> 0]
  /\ pay = [r \in Checkouts |-> "none"]
  /\ outcome = [r \in Checkouts |-> "none"]
  /\ job = [a \in StatusRequests |-> NoJob]
  /\ before = [x \in Requests |-> Nil]
  /\ todo = [x \in Requests |-> {}]
  /\ cur = [x \in Requests |-> Nil]
  /\ seen = [x \in Requests |-> Nil]

Goto(x, label) == pc' = [pc EXCEPT ![x] = label]

\* The checkout goes on, or ends with this answer.
Proceed(r, label) == Goto(r, label) /\ UNCHANGED outcome

Answer(r, o) ==
  /\ Goto(r, "done")
  /\ outcome' = [outcome EXCEPT ![r] = o]

-----------------------------------------------------------------------------
(* Checkout (service.go) and createOrder (handler.go).                     *)

\* The request arrives.  POST /orders needs an account and has no code field.
Begin(r) ==
  /\ pc[r] = "idle"
  /\ \E b \in Buyers, m \in Methods, it \in Baskets, ref \in Referrals :
       /\ \E p \in Products : it[p] > 0
       /\ m = "order" => b # Guest /\ ~ref
       /\ req' = [req EXCEPT ![r] =
                    [buyer |-> b, method |-> m, referral |-> ref, items |-> it]]
       /\ todo' = [todo EXCEPT ![r] = {p \in Products : it[p] > 0}]
  /\ Goto(r, "resolve")
  /\ UNCHANGED <<catalogVars, orderVars, moneyVars, otherVars, job, total, pay,
                 outcome, before, cur, seen>>

\* GetProduct answered product p with stock s: an edit keeps the copy, a
\* checkout validates the quantity against it and adds the line's price.
KeepCopy(e, s) ==
  /\ seen' = [seen EXCEPT ![e] = s]
  /\ Proceed(e, "write")
  /\ UNCHANGED <<todo, total, cur>>

Enough(r, p, s) == p \in Unlimited \/ s >= req[r].items[p]

AddLine(r, p) ==
  /\ todo' = [todo EXCEPT ![r] = @ \ {p}]
  /\ total' = [total EXCEPT ![r] = @ + Price[p] * req[r].items[p]]
  /\ Proceed(r, IF todo[r] = {p} THEN "code" ELSE "resolve")
  /\ cur' = [cur EXCEPT ![r] = Nil]
  /\ seen' = [seen EXCEPT ![r] = Nil]

Got(x, p, s) ==
  \/ x \in Editors /\ KeepCopy(x, s)
  \/ x \in Checkouts /\ Enough(x, p, s) /\ AddLine(x, p)
  \/ x \in Checkouts /\ ~Enough(x, p, s) /\ Answer(x, "rejected")
     /\ UNCHANGED <<todo, total, cur, seen>>

\* GetProduct, cache hit.
CacheHit(x) ==
  /\ pc[x] = "resolve"
  /\ \E p \in todo[x] :
       /\ cache[p] # Nil
       /\ Got(x, p, cache[p])
  /\ UNCHANGED <<catalogVars, orderVars, moneyVars, otherVars, inputVars, pay,
                 before>>

\* GetProduct, cache miss: read the row, which a deleted product has not.
CacheMiss(x) ==
  /\ pc[x] = "resolve"
  /\ \E p \in todo[x] :
       /\ cache[p] = Nil
       /\ cur' = [cur EXCEPT ![x] = p]
       /\ seen' = [seen EXCEPT ![x] = stock[p]]
       /\ \/ p \in listed /\ Proceed(x, "fill")
          \/ p \notin listed /\ x \in Checkouts /\ Answer(x, "rejected")
          \/ p \notin listed /\ x \in Editors /\ Proceed(x, "done")
  /\ UNCHANGED <<catalogVars, orderVars, moneyVars, otherVars, inputVars, total,
                 pay, before, todo>>

\* GetProduct, after a miss: write what was read into the cache and return it.
CacheFill(x) ==
  /\ pc[x] = "fill"
  /\ cache' = [cache EXCEPT ![cur[x]] = seen[x]]
  /\ Got(x, cur[x], seen[x])
  /\ UNCHANGED <<stock, listed, orderVars, moneyVars, otherVars, inputVars, pay,
                 before>>

\* The reference code must be active and not the buyer's own.
CodeRefused(r) == req[r].referral /\ (~codeActive \/ req[r].buyer = CodeOwner)

CheckReferral(r) ==
  /\ pc[r] = "code"
  /\ \/ CodeRefused(r) /\ Answer(r, "rejected")
     \/ ~CodeRefused(r) /\ Proceed(r, "create")
  /\ UNCHANGED <<catalogVars, orderVars, moneyVars, otherVars, inputVars, total,
                 pay, before, todo, cur, seen>>

\* orders.Create: the order and its lines, all pending, in one transaction.
CreateOrder(r) ==
  /\ pc[r] = "create"
  /\ orders' = [orders EXCEPT ![r] = "pending"]
  /\ lines' = WithLines(r, Lines(r), "pending")
  /\ Goto(r, "created")
  /\ UNCHANGED <<catalogVars, trashed, payments, moneyVars, otherVars,
                 inputVars, localVars>>

\* orders.Create reads the committed order back, and fails if it was trashed.
ReadCreated(r) ==
  /\ pc[r] = "created"
  /\ \/ r \in trashed /\ Answer(r, "error")
     \/ /\ r \notin trashed
        /\ Proceed(r, IF req[r].method = "order" THEN "clear" ELSE "charge")
  /\ UNCHANGED <<catalogVars, orderVars, moneyVars, otherVars, inputVars, total,
                 pay, before, todo, cur, seen>>

\* Mutant: the balance is not compared with the amount.
CanDebitBlind(r) == req[r].buyer # Guest /\ total[r] > 0

\* WalletRepo.DebitIfSufficient under the user's advisory lock.
CanDebit(r) ==
  /\ req[r].buyer # Guest
  /\ total[r] > 0
  /\ wallet[req[r].buyer] >= total[r]

Paid(r, s) == pay' = [pay EXCEPT ![r] = s]

Debit(r) ==
  /\ wallet' = [wallet EXCEPT ![req[r].buyer] = @ - total[r]]
  /\ debits' = [debits EXCEPT ![r] = @ + 1]
  /\ Paid(r, "succeeded")

\* Mutant: a status outside the payments' vocabulary is recorded.
ChargeWalletDeclines(r) ==
  /\ pc[r] = "charge" /\ req[r].method = "wallet"
  /\ Paid(r, "declined")
  /\ Goto(r, "persist")
  /\ UNCHANGED <<catalogVars, orderVars, moneyVars, otherVars, inputVars, total,
                 outcome, before, todo, cur, seen>>

ChargeWallet(r) ==
  /\ pc[r] = "charge" /\ req[r].method = "wallet"
  /\ \/ CanDebit(r) /\ Debit(r)
     \/ ~CanDebit(r) /\ Paid(r, "failed") /\ UNCHANGED <<wallet, debits>>
  /\ Goto(r, "persist")
  /\ UNCHANGED <<catalogVars, orderVars, refunds, payoutCredits, payouts, granted,
                 otherVars, inputVars, total, outcome, before, todo, cur, seen>>

\* Cash on delivery stays pending; a provider answers any payment status.
ChargeOther(r) ==
  /\ pc[r] = "charge" /\ req[r].method # "wallet"
  /\ \E s \in IF req[r].method = "delivery_cash" THEN {"pending"}
              ELSE {"succeeded", "failed", "pending"} : Paid(r, s)
  /\ Goto(r, "persist")
  /\ UNCHANGED <<catalogVars, orderVars, moneyVars, otherVars, inputVars, total,
                 outcome, before, todo, cur, seen>>

RecordPayment(r, s) == payments' = [payments EXCEPT ![r] = s]

\* payments.Create.  user_id 0 of a guest violates the foreign key.
PersistPayment(r) ==
  /\ pc[r] = "persist"
  /\ \/ req[r].buyer = Guest /\ Answer(r, "error") /\ UNCHANGED payments
     \/ req[r].buyer # Guest /\ RecordPayment(r, pay[r]) /\ Proceed(r, "settle")
  /\ UNCHANGED <<catalogVars, orders, trashed, lines, moneyVars, otherVars,
                 inputVars, total, pay, before, todo, cur, seen>>

\* An unsuccessful payment decides the order's status; errors are ignored.
SettleOrder(r) ==
  /\ pc[r] = "settle"
  /\ \/ pay[r] = "succeeded" /\ UNCHANGED <<orders, lines>>
     \/ pay[r] = "failed" /\ TryStatus(r, "failed")
     \/ pay[r] = "pending" /\ TryStatus(r, "pending")
  /\ Goto(r, "clear")
  /\ UNCHANGED <<catalogVars, trashed, payments, moneyVars, otherVars,
                 inputVars, localVars>>

\* cart.ClearCart: the whole server-side cart of the buyer.
ClearCart(r) ==
  /\ pc[r] = "clear"
  /\ cart' = IF req[r].buyer = Guest THEN cart
             ELSE [cart EXCEPT ![req[r].buyer] = {}]
  /\ \/ pay[r] = "succeeded" /\ Proceed(r, "accept")
     \/ pay[r] \in {"failed", "pending"} /\ Answer(r, pay[r])
     \/ pay[r] = "none" /\ Answer(r, "created")
  /\ UNCHANGED <<catalogVars, orderVars, moneyVars, codeActive, faults, inputVars,
                 total, pay, before, todo, cur, seen>>

\* Mutant: the error of AcceptWithStockCheck is dropped.
AcceptPaidAnyway(r) ==
  /\ pc[r] = "accept"
  /\ Goto(r, "accepted")
  /\ IF CanAccept(r) THEN AcceptWithStockCheck(r) ELSE UNCHANGED <<stock, orders, lines>>
  /\ UNCHANGED <<listed, cache, trashed, payments, moneyVars, otherVars, inputVars,
                 localVars>>

\* A paid order reserves its stock, or the payment has to be undone.
AcceptPaid(r) ==
  /\ pc[r] = "accept"
  /\ \/ CanAccept(r) /\ AcceptWithStockCheck(r) /\ Goto(r, "accepted")
     \/ ~CanAccept(r) /\ Goto(r, "refund") /\ UNCHANGED <<stock, orders, lines>>
  /\ UNCHANGED <<listed, cache, trashed, payments, moneyVars, otherVars, inputVars,
                 localVars>>

Refund(r) ==
  /\ wallet' = [wallet EXCEPT ![req[r].buyer] = @ + total[r]]
  /\ refunds' = [refunds EXCEPT ![r] = @ + 1]

\* A mutant of RefundWallet: the refund is forgotten.
RefundForgotten(r) ==
  /\ pc[r] = "refund"
  /\ Goto(r, "payfail")
  /\ UNCHANGED <<catalogVars, orderVars, moneyVars, otherVars, inputVars, localVars>>

\* Only a wallet payment is given back.
RefundWallet(r) ==
  /\ pc[r] = "refund"
  /\ \/ req[r].method = "wallet" /\ Refund(r)
     \/ req[r].method # "wallet" /\ UNCHANGED <<wallet, refunds>>
  /\ Goto(r, "payfail")
  /\ UNCHANGED <<catalogVars, orderVars, debits, payoutCredits, payouts, granted,
                 otherVars, inputVars, localVars>>

FailPayment(r) ==
  /\ pc[r] = "payfail"
  /\ RecordPayment(r, "failed")
  /\ Goto(r, "orderfail")
  /\ UNCHANGED <<catalogVars, orders, trashed, lines, moneyVars, otherVars,
                 inputVars, localVars>>

FailOrder(r) ==
  /\ pc[r] = "orderfail"
  /\ TryStatus(r, "failed")
  /\ Answer(r, "error")
  /\ UNCHANGED <<catalogVars, trashed, payments, moneyVars, otherVars, inputVars,
                 total, pay, before, todo, cur, seen>>

\* Drop the cached lines and decide how the paid order goes on: special actions
\* complete it at once (the buyer is no guest, whose payment was not persisted).
AfterAccept(r) ==
  /\ pc[r] = "accepted"
  /\ cache' = [p \in Products |-> IF p \in Lines(r) \cap listed THEN Nil ELSE cache[p]]
  /\ Goto(r, IF \A p \in Lines(r) \cap listed : Credit[p] = 0
             THEN "paid" ELSE "before")
  /\ UNCHANGED <<stock, listed, orderVars, moneyVars, otherVars, inputVars,
                 localVars>>

MarkPaid(r) ==
  /\ pc[r] = "paid"
  /\ TryStatus(r, "paid")
  /\ Answer(r, "succeeded")
  /\ UNCHANGED <<catalogVars, trashed, payments, moneyVars, otherVars, inputVars,
                 total, pay, before, todo, cur, seen>>

-----------------------------------------------------------------------------
(* Service.UpdateOrderStatus, called by a manager's request and by a        *)
(* checkout that completes its own order.                                   *)

OrderOf(x) == IF x \in Checkouts THEN x ELSE job[x].order

Wanted(x) == IF x \in Checkouts THEN "completed" ELSE job[x].status

\* updateOrderStatus, up to the choice of path: reads the order it is about.
StartStatus(a) ==
  /\ pc[a] = "idle"
  /\ \E o \in Checkouts, v \in Vendors \cup {Manager},
        s \in ManagerStatuses \cup VendorStatuses :
       /\ orders[o] # "none"
       /\ IF v = Manager THEN s \in ManagerStatuses
          ELSE /\ s \in VendorStatuses
               /\ o \notin trashed
               /\ VendorLines(o, v) # {}
       /\ job' = [job EXCEPT ![a] =
                    [order |-> o, actor |-> v, status |-> s,
                     before |-> IF o \in trashed THEN Nil ELSE orders[o]]]
       /\ Goto(a, IF v = Manager THEN "before" ELSE "vendor")
  /\ UNCHANGED <<catalogVars, orderVars, moneyVars, otherVars, req, localVars>>

\* The service reads the order again.
ReadBefore(x) ==
  /\ pc[x] = "before"
  /\ before' = [before EXCEPT ![x] =
                  IF OrderOf(x) \in trashed THEN Nil ELSE orders[OrderOf(x)]]
  /\ Goto(x, "update")
  /\ UNCHANGED <<catalogVars, orderVars, moneyVars, otherVars, inputVars, total,
                 pay, outcome, todo, cur, seen>>

\* The transaction fails: the manager gets an error, a checkout goes on.
UpdateFails(x) ==
  /\ pc[x] = "update"
  /\ IF Wanted(x) = "accepted" THEN ~CanAccept(OrderOf(x)) ELSE OrderOf(x) \in trashed
  /\ Goto(x, IF x \in Checkouts THEN "actions" ELSE "done")
  /\ UNCHANGED <<catalogVars, orderVars, moneyVars, otherVars, inputVars, localVars>>

\* A manager accepts: stock is reserved unless the order already holds it.
UpdateAccepts(x) ==
  /\ pc[x] = "update" /\ Wanted(x) = "accepted"
  /\ CanAccept(OrderOf(x))
  /\ AcceptWithStockCheck(OrderOf(x))
  /\ Goto(x, IF before[x] \in Reserved \cup {Nil} THEN "done" ELSE "invalidate")
  /\ UNCHANGED <<listed, cache, trashed, payments, moneyVars, otherVars, inputVars,
                 localVars>>

\* Any other status; becoming completed earns the reference code its reward.
UpdateSets(x) ==
  /\ pc[x] = "update" /\ Wanted(x) # "accepted"
  /\ OrderOf(x) \notin trashed
  /\ UpdateStatus(OrderOf(x), Wanted(x))
  /\ Goto(x, IF Wanted(x) = "completed" /\ before[x] \notin {"completed", Nil}
             THEN "award" ELSE "actions")
  /\ UNCHANGED <<catalogVars, trashed, payments, moneyVars, otherVars, inputVars,
                 localVars>>

\* AwardReferenceCodePayout: no reward yet, the code active and not the buyer's.
EarnsPayout(o) ==
  /\ req[o].referral
  /\ o \notin payouts
  /\ codeActive
  /\ req[o].buyer # CodeOwner

AwardCheck(x) ==
  /\ pc[x] = "award"
  /\ Goto(x, IF EarnsPayout(OrderOf(x)) THEN "payout" ELSE "actions")
  /\ UNCHANGED <<catalogVars, orderVars, moneyVars, otherVars, inputVars, localVars>>

CreatePayout(o) ==
  /\ payouts' = payouts \cup {o}
  /\ wallet' = [wallet EXCEPT ![CodeOwner] = @ + Incentive]
  /\ payoutCredits' = [payoutCredits EXCEPT ![o] = @ + 1]

\* Mutant: no UNIQUE(order_id) stops the second payout.
PayPayoutAgain(x) ==
  /\ pc[x] = "payout"
  /\ CreatePayout(OrderOf(x))
  /\ Goto(x, "actions")
  /\ UNCHANGED <<catalogVars, orderVars, debits, refunds, granted, otherVars,
                 inputVars, localVars>>

\* CreatePayoutWithWalletCredit: the row and the credit commit together, or
\* UNIQUE(order_id) rejects both.
PayPayout(x) ==
  /\ pc[x] = "payout"
  /\ \/ OrderOf(x) \in payouts /\ UNCHANGED <<payouts, wallet, payoutCredits>>
     \/ OrderOf(x) \notin payouts /\ CreatePayout(OrderOf(x))
  /\ Goto(x, "actions")
  /\ UNCHANGED <<catalogVars, orderVars, debits, refunds, granted, otherVars,
                 inputVars, localVars>>

\* A checkout always runs its special actions here; a manager's request only if
\* the order it read at the very start was not completed, and has an account.
RunsActions(x) ==
  \/ x \in Checkouts
  \/ /\ job[x].status = "completed"
     /\ job[x].before \notin {"completed", Nil}
     /\ req[job[x].order].buyer # Guest

StartActions(x) ==
  /\ pc[x] = "actions"
  /\ todo' = [todo EXCEPT ![x] =
                IF RunsActions(x) THEN Lines(OrderOf(x)) ELSE {}]
  /\ Goto(x, "grant")
  /\ UNCHANGED <<catalogVars, orderVars, moneyVars, otherVars, inputVars, total,
                 pay, outcome, before, cur, seen>>

\* One line's special action, if it has one: a wallet credit for the buyer.  The
\* manager's handler looks every line's product up through the cache, which a
\* miss fills; the checkout reads the row.
Grants(x, p) ==
  Credit[p] > 0 /\ (p \in listed \/ (x \in StatusRequests /\ cache[p] # Nil))

Grant(o, p) ==
  /\ wallet' = [wallet EXCEPT ![req[o].buyer] = @ + Credit[p] * req[o].items[p]]
  /\ granted' = [granted EXCEPT ![o][p] = @ + 1]

GrantAction(x) ==
  /\ pc[x] = "grant"
  /\ \E p \in todo[x] :
       /\ \/ Grants(x, p) /\ Grant(OrderOf(x), p)
          \/ ~Grants(x, p) /\ UNCHANGED <<wallet, granted>>
       /\ cache' = IF x \in StatusRequests /\ cache[p] = Nil /\ p \in listed
                   THEN [cache EXCEPT ![p] = stock[p]] ELSE cache
       /\ todo' = [todo EXCEPT ![x] = @ \ {p}]
  /\ UNCHANGED <<stock, listed, orderVars, debits, refunds, payoutCredits, payouts,
                 otherVars, pc, inputVars, total, pay, outcome, before, cur, seen>>

EndActions(x) ==
  /\ pc[x] = "grant" /\ todo[x] = {}
  /\ \/ x \in Checkouts /\ Answer(x, "succeeded")
     \/ x \in StatusRequests /\ Proceed(x, "done")
  /\ UNCHANGED <<catalogVars, orderVars, moneyVars, otherVars, inputVars, total,
                 pay, before, todo, cur, seen>>

\* A vendor's request: one transaction, then the order is read back, which
\* fails for a trashed order and skips the cache invalidation.
VendorUpdate(a) ==
  /\ pc[a] = "vendor"
  /\ LET o == job[a].order
         v == job[a].actor
         s == job[a].status
     IN \/ /\ CanReserve(o, VendorToReserve(o, v, s))
           /\ UpdateVendorStatus(o, v, s)
           /\ Goto(a, IF o \in trashed THEN "done" ELSE "invalidate")
        \/ /\ ~CanReserve(o, VendorToReserve(o, v, s))
           /\ Goto(a, "done") /\ UNCHANGED <<stock, orders, lines>>
  /\ UNCHANGED <<listed, cache, trashed, payments, moneyVars, otherVars, inputVars,
                 localVars>>

\* cache.Invalidate for the lines the request has changed.
InvalidateLines(a) ==
  /\ pc[a] = "invalidate"
  /\ LET ps == IF job[a].actor = Manager THEN Lines(job[a].order)
               ELSE VendorLines(job[a].order, job[a].actor)
     IN cache' = [p \in Products |-> IF p \in ps THEN Nil ELSE cache[p]]
  /\ Goto(a, "done")
  /\ UNCHANGED <<stock, listed, orderVars, moneyVars, otherVars, inputVars,
                 localVars>>

-----------------------------------------------------------------------------
(* Catalogue requests, carts, the trash, the reference code.               *)

\* updateProduct and deleteProduct look the product up through the cache.
StartEdit(e) ==
  /\ pc[e] = "idle"
  /\ \E p \in Products :
       /\ todo' = [todo EXCEPT ![e] = {p}]
       /\ cur' = [cur EXCEPT ![e] = p]
  /\ Goto(e, "resolve")
  /\ UNCHANGED <<catalogVars, orderVars, moneyVars, otherVars, inputVars, total,
                 pay, outcome, before, seen>>

\* products.Update writes every column back: the stock the request carries, or
\* else the stock of the copy it started from.  A deleted row is not updated.
UpdateProduct(e) ==
  /\ pc[e] = "write"
  /\ \/ /\ cur[e] \in listed
        /\ \E n \in EditStocks \cup {seen[e]} : stock' = [stock EXCEPT ![cur[e]] = n]
        /\ Goto(e, "reread")
     \/ cur[e] \notin listed /\ Goto(e, "done") /\ UNCHANGED stock
  /\ UNCHANGED <<listed, cache, orderVars, moneyVars, otherVars, inputVars,
                 localVars>>

\* products.Update reads the row back; if it is gone the cache is left alone.
RereadProduct(e) ==
  /\ pc[e] = "reread"
  /\ Goto(e, IF cur[e] \in listed THEN "forget" ELSE "done")
  /\ UNCHANGED <<catalogVars, orderVars, moneyVars, otherVars, inputVars, localVars>>

DeleteProduct(e) ==
  /\ pc[e] = "write"
  /\ listed' = listed \ {cur[e]}
  /\ Goto(e, "forget")
  /\ UNCHANGED <<stock, cache, orderVars, moneyVars, otherVars, inputVars, localVars>>

\* cache.Invalidate, after the write committed.
ForgetProduct(e) ==
  /\ pc[e] = "forget"
  /\ cache' = [cache EXCEPT ![cur[e]] = Nil]
  /\ Goto(e, "done")
  /\ UNCHANGED <<stock, listed, orderVars, moneyVars, otherVars, inputVars,
                 localVars>>

\* The trash restores a product.
RestoreProduct(p) ==
  /\ p \notin listed
  /\ listed' = listed \cup {p}
  /\ UNCHANGED <<stock, cache, orderVars, moneyVars, otherVars, pc, inputVars,
                 localVars>>

\* The five minutes of productTTL are over.
CacheExpires(p) ==
  /\ cache[p] # Nil
  /\ cache' = [cache EXCEPT ![p] = Nil]
  /\ UNCHANGED <<stock, listed, orderVars, moneyVars, otherVars, pc, inputVars,
                 localVars>>

AddToCart(u, p) ==
  /\ p \notin cart[u]
  /\ cart' = [cart EXCEPT ![u] = @ \cup {p}]
  /\ UNCHANGED <<catalogVars, orderVars, moneyVars, codeActive, faults, pc,
                 inputVars, localVars>>

RemoveFromCart(u, p) ==
  /\ p \in cart[u]
  /\ cart' = [cart EXCEPT ![u] = @ \ {p}]
  /\ UNCHANGED <<catalogVars, orderVars, moneyVars, codeActive, faults, pc,
                 inputVars, localVars>>

DeleteOrder(o) ==
  /\ orders[o] # "none" /\ o \notin trashed
  /\ trashed' = trashed \cup {o}
  /\ UNCHANGED <<catalogVars, orders, lines, payments, moneyVars, otherVars, pc,
                 inputVars, localVars>>

RestoreOrder(o) ==
  /\ o \in trashed
  /\ trashed' = trashed \ {o}
  /\ UNCHANGED <<catalogVars, orders, lines, payments, moneyVars, otherVars, pc,
                 inputVars, localVars>>

\* A manager activates, deactivates, deletes or restores the reference code.
EditReferenceCode ==
  /\ TRUE \in Referrals
  /\ codeActive' = ~codeActive
  /\ UNCHANGED <<catalogVars, orderVars, moneyVars, cart, faults, pc, inputVars,
                 localVars>>

-----------------------------------------------------------------------------
(* Failures.                                                               *)

Fault == faults < MaxFaults /\ faults' = faults + 1

\* payments.Create fails: the checkout gives up and undoes nothing.
PersistFails(r) ==
  /\ pc[r] = "persist" /\ Fault
  /\ Answer(r, "error")
  /\ UNCHANGED <<catalogVars, orderVars, moneyVars, cart, codeActive, inputVars,
                 total, pay, before, todo, cur, seen>>

\* Mutant: a refund whose answer is lost after it committed is tried again.
RefundRetried(r) ==
  /\ pc[r] = "refund" /\ Fault
  /\ Refund(r)
  /\ Goto(r, "refund")
  /\ UNCHANGED <<catalogVars, orderVars, debits, payoutCredits, payouts, granted,
                 cart, codeActive, inputVars, localVars>>

\* The refund's error is discarded.
RefundFails(r) ==
  /\ pc[r] = "refund" /\ Fault
  /\ Goto(r, "payfail")
  /\ UNCHANGED <<catalogVars, orderVars, moneyVars, cart, codeActive, inputVars,
                 localVars>>

\* The accepting transaction is aborted, for instance as a deadlock victim.
AcceptAborts(r) ==
  /\ pc[r] = "accept" /\ Fault
  /\ Goto(r, "refund")
  /\ UNCHANGED <<catalogVars, orderVars, moneyVars, cart, codeActive, inputVars,
                 localVars>>

\* The accepting transaction commits but reading the lines back fails: the
\* checkout takes the order for not accepted.
AcceptUnseen(r) ==
  /\ pc[r] = "accept" /\ Fault
  /\ CanAccept(r)
  /\ AcceptWithStockCheck(r)
  /\ Goto(r, "refund")
  /\ UNCHANGED <<listed, cache, trashed, payments, moneyVars, cart, codeActive,
                 inputVars, localVars>>

\* The backend restarts: requests under way are never resumed.
Restart ==
  /\ Fault
  /\ pc' = [x \in Requests |-> IF pc[x] \in {"idle", "done"} THEN pc[x] ELSE "dead"]
  /\ UNCHANGED <<catalogVars, orderVars, moneyVars, cart, codeActive, inputVars,
                 localVars>>

-----------------------------------------------------------------------------
(* The specification.                                                      *)

CheckoutStep(r) ==
  \/ CheckReferral(r) \/ CreateOrder(r) \/ ReadCreated(r)
  \/ ChargeWallet(r) \/ ChargeOther(r) \/ PersistPayment(r) \/ SettleOrder(r)
  \/ ClearCart(r) \/ AcceptPaid(r)
  \/ RefundWallet(r) \/ FailPayment(r) \/ FailOrder(r) \/ AfterAccept(r)
  \/ MarkPaid(r)

\* Steps of GetProduct.
LookupStep(x) == CacheHit(x) \/ CacheMiss(x) \/ CacheFill(x)

\* Steps of UpdateOrderStatus and of the special actions.
StatusStep(x) ==
  \/ ReadBefore(x) \/ UpdateFails(x) \/ UpdateAccepts(x) \/ UpdateSets(x)
  \/ AwardCheck(x) \/ PayPayout(x)
  \/ StartActions(x) \/ GrantAction(x) \/ EndActions(x)

FaultStep ==
  \/ Restart
  \/ \E r \in Checkouts :
       PersistFails(r) \/ RefundFails(r) \/ AcceptAborts(r) \/ AcceptUnseen(r)

Next ==
  \/ \E r \in Checkouts : Begin(r) \/ CheckoutStep(r)
  \/ \E x \in Checkouts \cup Editors : LookupStep(x)
  \/ \E x \in Checkouts \cup StatusRequests : StatusStep(x)
  \/ \E a \in StatusRequests : StartStatus(a) \/ VendorUpdate(a) \/ InvalidateLines(a)
  \/ \E e \in Editors :
       \/ StartEdit(e) \/ UpdateProduct(e) \/ RereadProduct(e)
       \/ DeleteProduct(e) \/ ForgetProduct(e)
  \/ \E p \in Products : RestoreProduct(p) \/ CacheExpires(p)
  \/ \E u \in Shoppers, p \in Products : AddToCart(u, p) \/ RemoveFromCart(u, p)
  \/ \E o \in Trashable : DeleteOrder(o) \/ RestoreOrder(o)
  \/ EditReferenceCode
  \/ FaultStep

Spec == Init /\ [][Next]_vars

-----------------------------------------------------------------------------
(* Properties.                                                             *)

Labels == {"idle", "resolve", "fill", "code", "create", "created", "charge", "persist",
           "settle", "clear", "accept", "refund", "payfail", "orderfail",
           "accepted", "paid", "before", "update", "award", "payout", "actions",
           "grant", "vendor", "invalidate", "write", "reread", "forget", "done", "dead"}

PayStatuses == {"none", "pending", "succeeded", "failed"}

CatalogOK ==
  /\ stock \in [Products -> Int]
  /\ listed \subseteq Products
  /\ cache \in [Products -> Int \cup {Nil}]

OrdersOK ==
  /\ orders \in [Checkouts -> Statuses]
  /\ trashed \subseteq Checkouts
  /\ lines \in [Checkouts -> [Products -> Statuses]]
  /\ payments \in [Checkouts -> PayStatuses]

MoneyOK ==
  /\ wallet \in [Users -> Int]
  /\ debits \in [Checkouts -> Nat]
  /\ refunds \in [Checkouts -> Nat]
  /\ payoutCredits \in [Checkouts -> Nat]
  /\ payouts \subseteq Checkouts
  /\ granted \in [Checkouts -> [Products -> Nat]]

OthersOK ==
  /\ cart \in [Users -> SUBSET Products]
  /\ codeActive \in BOOLEAN
  /\ faults \in 0..MaxFaults

InputsOK ==
  /\ req \in [Checkouts -> [buyer : Users \cup {Guest}, referral : BOOLEAN,
                method : {"wallet", "provider", "delivery_cash", "order"},
                items : [Products -> Nat]]]
  /\ job \in [StatusRequests -> [order : Checkouts \cup {Nil},
                actor : Vendors \cup {Manager}, status : Statuses,
                before : Statuses \cup {Nil}]]

HandlersOK ==
  /\ pc \in [Requests -> Labels]
  /\ total \in [Checkouts -> Nat]
  /\ pay \in [Checkouts -> PayStatuses]
  /\ outcome \in [Checkouts -> {"none", "rejected", "created", "error",
                                "pending", "succeeded", "failed"}]
  /\ before \in [Requests -> Statuses \cup {Nil}]
  /\ todo \in [Requests -> SUBSET Products]
  /\ cur \in [Requests -> Products \cup {Nil}]
  /\ seen \in [Requests -> Int \cup {Nil}]

\* Every table, cache entry and handler variable has its type.
TypeOK ==
  CatalogOK /\ OrdersOK /\ MoneyOK /\ OthersOK /\ InputsOK /\ HandlersOK

\* No sequence of checkouts, acceptances, vendor updates and edits drives a
\* product's stock below zero (the conditional UPDATEs of products).
NoOversell == \A p \in Products : stock[p] >= 0

\* Concurrent checkouts cannot spend the same balance twice, and no wallet is
\* ever overdrawn (DebitIfSufficient).
NoOverdraft == \A u \in Users : wallet[u] >= 0

\* However often and by whomever an order is completed, its reference code is
\* rewarded at most once, and never for its owner's own order
\* (AwardReferenceCodePayout, UNIQUE(order_id)).
PayoutOncePerOrder ==
  \A o \in Checkouts :
    /\ payoutCredits[o] <= 1
    /\ payoutCredits[o] = 1 => req[o].referral /\ req[o].buyer # CodeOwner

\* A wallet refund is paid at most once, only to an order whose wallet debit
\* happened, and never to an order answered as paid (Checkout's failure path),
\* whatever fails and whoever else changes the order.
RefundBacked ==
  \A r \in Checkouts :
    /\ refunds[r] <= debits[r] /\ debits[r] <= 1
    /\ outcome[r] = "succeeded" => refunds[r] = 0

\* Without failed statements and restarts, a checkout that took wallet money has,
\* when it answers, either kept it for a paid order or given it all back and
\* marked the payment failed.
MoneySettled ==
  \A r \in Checkouts :
    pc[r] = "done" /\ faults = 0 /\ debits[r] = 1 =>
      IF outcome[r] = "succeeded"
      THEN refunds[r] = 0 /\ payments[r] = "succeeded"
      ELSE refunds[r] = 1 /\ payments[r] = "failed"

\* A checkout answered as paid holds stock for every line it sold, although
\* the stock it validated may have come from a stale cache entry.
SuccessHoldsStock ==
  \A r \in Checkouts :
    outcome[r] = "succeeded" =>
      \A p \in Lines(r) : lines[r][p] \in {"accepted", "completed"}

\* The status of an order that only vendors work on is the aggregate of its
\* lines after every vendor's transaction.
OrderStatusAggregates ==
  \A o \in Checkouts :
    orders[o] # "none" => orders[o] = Aggregate(Lines(o), lines[o])

\* One unit for every piece the orders of S ask for, q telling how many pieces
\* each of them asks for.
Units(q, S) == UNION {{o} \X (1 .. q[o]) : o \in S}

\* How many pieces of p each order asks for.
Asked(p) == [o \in Checkouts |-> req[o].items[p]]

Holders(p) == {o \in Checkouts : lines[o][p] \in {"accepted", "completed"}}

\* The units of p the orders hold: those of their accepted or completed lines.
Held(p) == Units(Asked(p), Holders(p))

\* Stock is neither lost nor made up: what was taken from a product is what
\* accepted lines hold, at every moment (AcceptWithStockCheck,
\* UpdateVendorStatus).
StockFollowsLines ==
  \A p \in Products \ Unlimited : stock[p] + Cardinality(Held(p)) = InitStock[p]

\* Claim of handler.go's updateOrderStatus: the special actions of an order are
\* executed only once.
SpecialActionsOnce ==
  \A o \in Checkouts, p \in Products : granted[o][p] <= 1
=============================================================================
