------------------------- MODULE StoreOrdersProofs -------------------------
(***************************************************************************)
(* Proofs about StoreOrders, for every number of requests, products,       *)
(* vendors and users, every basket and every interleaving: types, stock,   *)
(* wallets, refunds, payments and rewards; then the lines of the orders: a *)
(* checkout answered as paid holds stock for every line, the status of an  *)
(* order that only vendors work on is the aggregate of its lines, and what *)
(* was taken from the stock is what the lines hold.                        *)
(***************************************************************************)
EXTENDS StoreOrders, FiniteSetTheorems, TLAPS

-----------------------------------------------------------------------------
(* The inductive invariant.                                                *)

\* What GetProduct has read is a product of the catalogue and a stock level.
LookupInv ==
  \A x \in Requests :
    /\ pc[x] = "fill" => cur[x] \in Products /\ seen[x] # Nil
    /\ pc[x] = "write" => seen[x] # Nil
    /\ x \in Editors /\ pc[x] \in {"resolve", "write", "forget"} => cur[x] \in Products

\* A status request under way is about an order whose checkout has begun, so
\* the order's request no longer changes.
JobInv ==
  /\ \A o \in Checkouts : orders[o] # "none" => pc[o] # "idle"
  /\ \A a \in StatusRequests :
       pc[a] \notin {"idle", "done", "dead"} =>
         job[a].order \in Checkouts /\ pc[job[a].order] # "idle"

\* The inductive strengthening of TypeOK.
TypeInv == TypeOK /\ LookupInv /\ JobInv

\* A request cannot be of two kinds.
LEMMA Kinds ==
  /\ \A r \in Checkouts : r \in Requests /\ r \notin StatusRequests /\ r \notin Editors
  /\ \A a \in StatusRequests : a \in Requests /\ a \notin Checkouts /\ a \notin Editors
  /\ \A e \in Editors : e \in Requests /\ e \notin Checkouts /\ e \notin StatusRequests
BY StoreAssumption DEF StoreAssumption, Requests

\* The initial state is well-typed and no request is under way.
LEMMA TypeInit == Init => TypeInv
<1> SUFFICES ASSUME Init PROVE TypeInv
  OBVIOUS
<1>1. TypeOK
  BY StoreAssumption
     DEF Init, TypeOK, CatalogOK, OrdersOK, MoneyOK, OthersOK, InputsOK, HandlersOK,
         StoreAssumption, NoRequest, NoJob, Labels, PayStatuses, Statuses
<1>2. LookupInv
  BY DEF Init, LookupInv
<1>3. JobInv
  BY Kinds DEF Init, JobInv
<1> QED
  BY <1>1, <1>2, <1>3 DEF TypeInv

\* Reserving and releasing keep stock levels integers.
LEMMA ReserveType ==
  ASSUME CatalogOK, InputsOK, NEW o \in Checkouts, NEW ps
  PROVE  /\ Reserve(o, ps) \in [Products -> Int]
         /\ Release(o, ps) \in [Products -> Int]
BY DEF CatalogOK, InputsOK, Reserve, Release

\* Updating the statuses of some lines keeps the lines well-typed.
LEMMA LinesType ==
  ASSUME OrdersOK, NEW o \in Checkouts, NEW ps, NEW s \in Statuses
  PROVE  WithLines(o, ps, s) \in [Checkouts -> [Products -> Statuses]]
BY DEF OrdersOK, WithLines

\* aggregateOrderStatus returns a status.
LEMMA AggregateType ==
  ASSUME NEW ps, NEW ls PROVE Aggregate(ps, ls) \in Statuses
BY DEF Aggregate, Statuses

\* The order repository's transactions keep the tables well-typed.
LEMMA AcceptType ==
  ASSUME CatalogOK, InputsOK, OrdersOK, NEW o \in Checkouts, AcceptWithStockCheck(o)
  PROVE  /\ stock' \in [Products -> Int]
         /\ orders' = [orders EXCEPT ![o] = "accepted"]
         /\ orders' \in [Checkouts -> Statuses]
         /\ lines' \in [Checkouts -> [Products -> Statuses]]
<1>1. "accepted" \in Statuses
  BY DEF Statuses
<1> QED
  BY <1>1, ReserveType, LinesType DEF AcceptWithStockCheck, OrdersOK

\* UpdateStatus touches one order and keeps the tables well-typed.
LEMMA UpdateStatusType ==
  ASSUME OrdersOK, NEW o \in Checkouts, NEW s \in Statuses, UpdateStatus(o, s)
  PROVE  /\ orders' = [orders EXCEPT ![o] = s]
         /\ orders' \in [Checkouts -> Statuses]
         /\ lines' \in [Checkouts -> [Products -> Statuses]]
BY LinesType DEF UpdateStatus, OrdersOK

\* So does an UpdateStatus whose error the caller discards.
LEMMA TryStatusType ==
  ASSUME OrdersOK, NEW o \in Checkouts, NEW s \in Statuses, TryStatus(o, s)
  PROVE  /\ \A c \in Checkouts \ {o} : orders'[c] = orders[c]
         /\ orders' \in [Checkouts -> Statuses]
         /\ lines' \in [Checkouts -> [Products -> Statuses]]
<1>1. CASE UNCHANGED <<orders, lines>>
  BY <1>1 DEF OrdersOK
<1>2. CASE UpdateStatus(o, s)
  BY <1>2, UpdateStatusType DEF OrdersOK
<1> QED
  BY <1>1, <1>2 DEF TryStatus

\* UpdateVendorStatus touches one order and keeps the tables well-typed.
LEMMA VendorType ==
  ASSUME CatalogOK, InputsOK, OrdersOK, NEW o \in Checkouts, NEW v,
         NEW s \in Statuses, UpdateVendorStatus(o, v, s)
  PROVE  /\ stock' \in [Products -> Int]
         /\ \A c \in Checkouts \ {o} : orders'[c] = orders[c]
         /\ orders' \in [Checkouts -> Statuses]
         /\ lines' \in [Checkouts -> [Products -> Statuses]]
<1>1. stock' \in [Products -> Int]
  BY ReserveType DEF UpdateVendorStatus
<1>2. lines' \in [Checkouts -> [Products -> Statuses]]
  BY LinesType DEF UpdateVendorStatus
<1>3. /\ orders' \in [Checkouts -> Statuses]
      /\ \A c \in Checkouts \ {o} : orders'[c] = orders[c]
  BY AggregateType DEF UpdateVendorStatus, OrdersOK
<1> QED
  BY <1>1, <1>2, <1>3

\* A credit or a debit keeps the balances integers.
LEMMA WalletType ==
  ASSUME MoneyOK, NEW u, NEW n \in Int
  PROVE  [wallet EXCEPT ![u] = @ + n] \in [Users -> Int]
<1>1. CASE u \in Users
  BY <1>1 DEF MoneyOK
<1>2. CASE u \notin Users
  <2>1. [wallet EXCEPT ![u] = @ + n] = wallet
    BY <1>2 DEF MoneyOK
  <2> QED
    BY <2>1 DEF MoneyOK
<1> QED
  BY <1>1, <1>2

\* The price of a line is a natural number.
LEMMA LinePrice ==
  ASSUME InputsOK, NEW r \in Checkouts, NEW p \in Products
  PROVE  Price[p] * req[r].items[p] \in Nat
BY StoreAssumption DEF StoreAssumption, InputsOK

\* A request in the middle of a status change has an order to work on.
LEMMA OrderOfType ==
  ASSUME JobInv, NEW x \in Checkouts \cup StatusRequests,
         pc[x] \notin {"idle", "done", "dead"}
  PROVE  OrderOf(x) \in Checkouts /\ pc[OrderOf(x)] # "idle"
BY DEF JobInv, OrderOf

\* Every action keeps the types and the facts about handlers under way.
LEMMA TypeStep == TypeInv /\ [Next]_vars => TypeInv'
<1> SUFFICES ASSUME TypeInv, [Next]_vars PROVE TypeInv'
  OBVIOUS
<1> USE Kinds DEF TypeInv, TypeOK, CatalogOK, OrdersOK, MoneyOK, OthersOK, InputsOK,
      HandlersOK, LookupInv, JobInv, catalogVars, orderVars, moneyVars, otherVars,
      inputVars, localVars, Labels, PayStatuses, Statuses, Goto, Proceed, Answer
<1>1. ASSUME NEW r \in Checkouts, Begin(r) PROVE TypeInv'
  BY <1>1, StoreAssumption DEF Begin, StoreAssumption
<1>2. ASSUME NEW r \in Checkouts, CheckReferral(r) PROVE TypeInv'
  <2>1. CASE Answer(r, "rejected")
    BY <1>2, <2>1 DEF CheckReferral
  <2>2. CASE Proceed(r, "create")
    BY <1>2, <2>2 DEF CheckReferral
  <2> QED
    BY <1>2, <2>1, <2>2 DEF CheckReferral
<1>3. ASSUME NEW r \in Checkouts, CreateOrder(r) PROVE TypeInv'
  BY <1>3, LinesType DEF CreateOrder
<1>4. ASSUME NEW r \in Checkouts, ReadCreated(r) PROVE TypeInv'
  <2>1. CASE Answer(r, "error")
    BY <1>4, <2>1 DEF ReadCreated
  <2>2. CASE Proceed(r, IF req[r].method = "order" THEN "clear" ELSE "charge")
    BY <1>4, <2>2 DEF ReadCreated
  <2> QED
    BY <1>4, <2>1, <2>2 DEF ReadCreated
<1>5. ASSUME NEW r \in Checkouts, ChargeWallet(r) PROVE TypeInv'
  <2>1. CASE CanDebit(r) /\ Debit(r)
    BY <1>5, <2>1 DEF ChargeWallet, Paid, CanDebit, Debit
  <2>2. CASE Paid(r, "failed") /\ UNCHANGED <<wallet, debits>>
    BY <1>5, <2>2 DEF ChargeWallet, Paid
  <2> QED
    BY <1>5, <2>1, <2>2 DEF ChargeWallet, Paid
<1>6. ASSUME NEW r \in Checkouts, ChargeOther(r) PROVE TypeInv'
  BY <1>6 DEF ChargeOther, Paid
<1>7. ASSUME NEW r \in Checkouts, PersistPayment(r) PROVE TypeInv'
  <2>1. CASE Answer(r, "error") /\ UNCHANGED payments
    BY <1>7, <2>1 DEF PersistPayment, RecordPayment
  <2>2. CASE RecordPayment(r, pay[r]) /\ Proceed(r, "settle")
    BY <1>7, <2>2 DEF PersistPayment, RecordPayment
  <2> QED
    BY <1>7, <2>1, <2>2 DEF PersistPayment, RecordPayment
<1>8. ASSUME NEW r \in Checkouts, SettleOrder(r) PROVE TypeInv'
  BY <1>8, TryStatusType DEF SettleOrder
<1>9. ASSUME NEW r \in Checkouts, ClearCart(r) PROVE TypeInv'
  <2>1. CASE Proceed(r, "accept")
    BY <1>9, <2>1 DEF ClearCart
  <2>2. CASE pay[r] \in {"failed", "pending"} /\ Answer(r, pay[r])
    BY <1>9, <2>2 DEF ClearCart
  <2>3. CASE Answer(r, "created")
    BY <1>9, <2>3 DEF ClearCart
  <2> QED
    BY <1>9, <2>1, <2>2, <2>3 DEF ClearCart
<1>10. ASSUME NEW r \in Checkouts, AcceptPaid(r) PROVE TypeInv'
  <2>1. CASE AcceptWithStockCheck(r) /\ Goto(r, "accepted")
    BY <1>10, <2>1, AcceptType DEF AcceptPaid
  <2>2. CASE Goto(r, "refund") /\ UNCHANGED <<stock, orders, lines>>
    BY <1>10, <2>2 DEF AcceptPaid
  <2> QED
    BY <1>10, <2>1, <2>2 DEF AcceptPaid
<1>11. ASSUME NEW r \in Checkouts, RefundWallet(r) PROVE TypeInv'
  <2>1. CASE Refund(r)
    <3>1. total[r] \in Int
      OBVIOUS
    <3>2. wallet' \in [Users -> Int]
      BY <2>1, <3>1, WalletType DEF Refund
    <3> QED
      BY <1>11, <2>1, <3>2 DEF RefundWallet, Refund
  <2>2. CASE UNCHANGED <<wallet, refunds>>
    BY <1>11, <2>2 DEF RefundWallet
  <2> QED
    BY <1>11, <2>1, <2>2 DEF RefundWallet
<1>12. ASSUME NEW r \in Checkouts, FailPayment(r) PROVE TypeInv'
  BY <1>12 DEF FailPayment, RecordPayment
<1>13. ASSUME NEW r \in Checkouts, FailOrder(r) PROVE TypeInv'
  BY <1>13, TryStatusType DEF FailOrder
<1>14. ASSUME NEW r \in Checkouts, AfterAccept(r) PROVE TypeInv'
  BY <1>14 DEF AfterAccept
<1>15. ASSUME NEW r \in Checkouts, MarkPaid(r) PROVE TypeInv'
  BY <1>15, TryStatusType DEF MarkPaid
<1>16. ASSUME NEW x \in Checkouts \cup Editors, CacheHit(x) PROVE TypeInv'
  <2>1. PICK p \in todo[x] : cache[p] # Nil /\ Got(x, p, cache[p])
    BY <1>16 DEF CacheHit
  <2>2. p \in Products /\ cache[p] \in Int /\ cache[p] # Nil
    BY <2>1
  <2>3. CASE x \in Editors /\ KeepCopy(x, cache[p])
    BY <1>16, <2>2, <2>3 DEF CacheHit, KeepCopy
  <2>4. CASE x \in Checkouts /\ AddLine(x, p)
    BY <1>16, <2>2, <2>4, LinePrice DEF CacheHit, AddLine
  <2>5. CASE x \in Checkouts /\ Answer(x, "rejected") /\ UNCHANGED <<todo, total, cur, seen>>
    BY <1>16, <2>5 DEF CacheHit
  <2> QED
    BY <2>1, <2>3, <2>4, <2>5 DEF Got
<1>17. ASSUME NEW x \in Checkouts \cup Editors, CacheMiss(x) PROVE TypeInv'
  <2>1. PICK p \in todo[x] :
          /\ cur' = [cur EXCEPT ![x] = p]
          /\ seen' = [seen EXCEPT ![x] = stock[p]]
          /\ \/ Proceed(x, "fill")
             \/ x \in Checkouts /\ Answer(x, "rejected")
             \/ x \in Editors /\ Proceed(x, "done")
    BY <1>17 DEF CacheMiss
  <2>2. p \in Products /\ stock[p] \in Int /\ stock[p] # Nil
    BY <2>1, StoreAssumption DEF StoreAssumption
  <2>3. CASE Proceed(x, "fill")
    BY <1>17, <2>1, <2>2, <2>3 DEF CacheMiss
  <2>4. CASE x \in Checkouts /\ Answer(x, "rejected")
    BY <1>17, <2>1, <2>2, <2>4 DEF CacheMiss
  <2>5. CASE x \in Editors /\ Proceed(x, "done")
    BY <1>17, <2>1, <2>2, <2>5 DEF CacheMiss
  <2> QED
    BY <2>1, <2>3, <2>4, <2>5
<1>18. ASSUME NEW x \in Checkouts \cup Editors, CacheFill(x) PROVE TypeInv'
  <2>1. cur[x] \in Products /\ seen[x] \in Int /\ seen[x] # Nil
    BY <1>18 DEF CacheFill
  <2>2. CASE x \in Editors /\ KeepCopy(x, seen[x])
    BY <1>18, <2>1, <2>2 DEF CacheFill, KeepCopy
  <2>3. CASE x \in Checkouts /\ AddLine(x, cur[x])
    BY <1>18, <2>1, <2>3, LinePrice DEF CacheFill, AddLine
  <2>4. CASE x \in Checkouts /\ Answer(x, "rejected") /\ UNCHANGED <<todo, total, cur, seen>>
    BY <1>18, <2>1, <2>4 DEF CacheFill
  <2> QED
    BY <1>18, <2>2, <2>3, <2>4 DEF CacheFill, Got
<1>19. ASSUME NEW x \in Checkouts \cup StatusRequests, ReadBefore(x) PROVE TypeInv'
  BY <1>19 DEF ReadBefore, OrderOf
<1>20. ASSUME NEW x \in Checkouts \cup StatusRequests, UpdateFails(x) PROVE TypeInv'
  BY <1>20 DEF UpdateFails
<1>21. ASSUME NEW x \in Checkouts \cup StatusRequests, UpdateAccepts(x) PROVE TypeInv'
  <2>1. OrderOf(x) \in Checkouts /\ pc[OrderOf(x)] # "idle"
    BY <1>21, OrderOfType DEF UpdateAccepts
  <2>2. /\ stock' \in [Products -> Int]
        /\ orders' = [orders EXCEPT ![OrderOf(x)] = "accepted"]
        /\ lines' \in [Checkouts -> [Products -> Statuses]]
    BY <1>21, <2>1, AcceptType DEF UpdateAccepts
  <2> QED
    BY <1>21, <2>1, <2>2 DEF UpdateAccepts
<1>22. ASSUME NEW x \in Checkouts \cup StatusRequests, UpdateSets(x) PROVE TypeInv'
  <2>1. /\ OrderOf(x) \in Checkouts /\ pc[OrderOf(x)] # "idle"
        /\ Wanted(x) \in Statuses
    BY <1>22, OrderOfType DEF UpdateSets, Wanted
  <2>2. /\ orders' = [orders EXCEPT ![OrderOf(x)] = Wanted(x)]
        /\ lines' \in [Checkouts -> [Products -> Statuses]]
    BY <1>22, <2>1, UpdateStatusType DEF UpdateSets
  <2> QED
    BY <1>22, <2>1, <2>2 DEF UpdateSets
<1>23. ASSUME NEW x \in Checkouts \cup StatusRequests, AwardCheck(x) PROVE TypeInv'
  BY <1>23 DEF AwardCheck
<1>24. ASSUME NEW x \in Checkouts \cup StatusRequests, PayPayout(x) PROVE TypeInv'
  <2>1. CASE UNCHANGED <<payouts, wallet, payoutCredits>>
    BY <1>24, <2>1 DEF PayPayout
  <2>2. CASE CreatePayout(OrderOf(x))
    <3>1. wallet' \in [Users -> Int]
      BY <2>2, WalletType, StoreAssumption DEF CreatePayout, StoreAssumption
    <3>2. OrderOf(x) \in Checkouts
      BY <1>24, OrderOfType DEF PayPayout
    <3> QED
      BY <1>24, <2>2, <3>1, <3>2 DEF PayPayout, CreatePayout
  <2> QED
    BY <1>24, <2>1, <2>2 DEF PayPayout
<1>25. ASSUME NEW x \in Checkouts \cup StatusRequests, StartActions(x) PROVE TypeInv'
  BY <1>25 DEF StartActions, OrderOf, Lines
<1>26. ASSUME NEW x \in Checkouts \cup StatusRequests, GrantAction(x) PROVE TypeInv'
  <2>1. PICK p \in todo[x] :
          /\ \/ Grant(OrderOf(x), p)
             \/ UNCHANGED <<wallet, granted>>
          /\ cache' \in {cache, [cache EXCEPT ![p] = stock[p]]}
          /\ todo' = [todo EXCEPT ![x] = @ \ {p}]
    BY <1>26 DEF GrantAction
  <2>2. p \in Products /\ OrderOf(x) \in Checkouts
    BY <1>26, OrderOfType DEF GrantAction
  <2>3. cache' \in [Products -> Int \cup {Nil}]
    <3>1. CASE cache' = cache
      BY <3>1
    <3>2. CASE cache' = [cache EXCEPT ![p] = stock[p]]
      BY <2>2, <3>2
    <3> QED
      BY <2>1, <3>1, <3>2
  <2>4. todo' \in [Requests -> SUBSET Products]
    BY <2>1
  <2>5. wallet' \in [Users -> Int] /\ granted' \in [Checkouts -> [Products -> Nat]]
    <3>1. CASE Grant(OrderOf(x), p)
      <4>1. Credit[p] * req[OrderOf(x)].items[p] \in Int
        BY <2>2, StoreAssumption DEF StoreAssumption
      <4>2. wallet' \in [Users -> Int]
        BY <3>1, <4>1, WalletType DEF Grant
      <4> QED
        BY <2>2, <3>1, <4>2 DEF Grant
    <3>2. CASE UNCHANGED <<wallet, granted>>
      BY <3>2
    <3> QED
      BY <2>1, <3>1, <3>2
  <2> QED
    BY <1>26, <2>3, <2>4, <2>5 DEF GrantAction
<1>27. ASSUME NEW x \in Checkouts \cup StatusRequests, EndActions(x) PROVE TypeInv'
  <2>1. CASE x \in Checkouts /\ Answer(x, "succeeded")
    BY <1>27, <2>1 DEF EndActions
  <2>2. CASE x \in StatusRequests /\ Proceed(x, "done")
    BY <1>27, <2>2 DEF EndActions
  <2> QED
    BY <1>27, <2>1, <2>2 DEF EndActions
<1>28. ASSUME NEW a \in StatusRequests, StartStatus(a) PROVE TypeInv'
  BY <1>28, StoreAssumption DEF StartStatus, StoreAssumption
<1>29. ASSUME NEW a \in StatusRequests, VendorUpdate(a) PROVE TypeInv'
  <2> DEFINE o == job[a].order
             s == job[a].status
  <2>1. o \in Checkouts /\ pc[o] # "idle" /\ s \in Statuses
    BY <1>29 DEF VendorUpdate
  <2>2. CASE /\ UpdateVendorStatus(o, job[a].actor, s)
             /\ Goto(a, IF o \in trashed THEN "done" ELSE "invalidate")
    <3>1. /\ stock' \in [Products -> Int]
          /\ \A c \in Checkouts \ {o} : orders'[c] = orders[c]
          /\ orders' \in [Checkouts -> Statuses]
          /\ lines' \in [Checkouts -> [Products -> Statuses]]
      BY <2>1, <2>2, VendorType
    <3> QED
      BY <1>29, <2>1, <2>2, <3>1 DEF VendorUpdate
  <2>3. CASE Goto(a, "done") /\ UNCHANGED <<stock, orders, lines>>
    BY <1>29, <2>3 DEF VendorUpdate
  <2> QED
    BY <1>29, <2>2, <2>3 DEF VendorUpdate
<1>30. ASSUME NEW a \in StatusRequests, InvalidateLines(a) PROVE TypeInv'
  BY <1>30 DEF InvalidateLines
<1>31. ASSUME NEW e \in Editors, StartEdit(e) PROVE TypeInv'
  BY <1>31 DEF StartEdit
<1>32. ASSUME NEW e \in Editors, UpdateProduct(e) PROVE TypeInv'
  <2>1. CASE /\ cur[e] \in listed
             /\ \E n \in EditStocks \cup {seen[e]} : stock' = [stock EXCEPT ![cur[e]] = n]
             /\ Goto(e, "reread")
    BY <1>32, <2>1, StoreAssumption DEF UpdateProduct, StoreAssumption
  <2>2. CASE Goto(e, "done") /\ UNCHANGED stock
    BY <1>32, <2>2, StoreAssumption DEF UpdateProduct, StoreAssumption
  <2> QED
    BY <1>32, <2>1, <2>2 DEF UpdateProduct, StoreAssumption
<1>33. ASSUME NEW e \in Editors, RereadProduct(e) PROVE TypeInv'
  BY <1>33 DEF RereadProduct
<1>34. ASSUME NEW e \in Editors, DeleteProduct(e) PROVE TypeInv'
  BY <1>34 DEF DeleteProduct
<1>35. ASSUME NEW e \in Editors, ForgetProduct(e) PROVE TypeInv'
  BY <1>35 DEF ForgetProduct
<1>36. ASSUME NEW p \in Products, RestoreProduct(p) PROVE TypeInv'
  BY <1>36 DEF RestoreProduct
<1>37. ASSUME NEW p \in Products, CacheExpires(p) PROVE TypeInv'
  BY <1>37 DEF CacheExpires
<1>38. ASSUME NEW u \in Shoppers, NEW p \in Products, AddToCart(u, p) PROVE TypeInv'
  BY <1>38 DEF AddToCart
<1>39. ASSUME NEW u \in Shoppers, NEW p \in Products, RemoveFromCart(u, p) PROVE TypeInv'
  BY <1>39 DEF RemoveFromCart
<1>40. ASSUME NEW o \in Trashable, DeleteOrder(o) PROVE TypeInv'
  BY <1>40, StoreAssumption DEF DeleteOrder, StoreAssumption
<1>41. ASSUME NEW o \in Trashable, RestoreOrder(o) PROVE TypeInv'
  BY <1>41 DEF RestoreOrder
<1>42. ASSUME NEW r \in Checkouts, PersistFails(r) PROVE TypeInv'
  BY <1>42, StoreAssumption DEF PersistFails, Fault, StoreAssumption
<1>43. ASSUME NEW r \in Checkouts, RefundFails(r) PROVE TypeInv'
  BY <1>43, StoreAssumption DEF RefundFails, Fault, StoreAssumption
<1>44. ASSUME NEW r \in Checkouts, AcceptAborts(r) PROVE TypeInv'
  BY <1>44, StoreAssumption DEF AcceptAborts, Fault, StoreAssumption
<1>45. ASSUME NEW r \in Checkouts, AcceptUnseen(r) PROVE TypeInv'
  BY <1>45, AcceptType, StoreAssumption DEF AcceptUnseen, Fault, StoreAssumption
<1>46. CASE EditReferenceCode
  BY <1>46 DEF EditReferenceCode
<1>47. CASE Restart
  BY <1>47, StoreAssumption DEF Restart, Fault, StoreAssumption
<1>48. CASE UNCHANGED vars
  BY <1>48 DEF vars
<1> HIDE DEF TypeInv
<1> QED
  BY <1>1, <1>2, <1>3, <1>4, <1>5, <1>6, <1>7, <1>8, <1>9, <1>10, <1>11, <1>12, <1>13,
     <1>14, <1>15, <1>16, <1>17, <1>18, <1>19, <1>20, <1>21, <1>22, <1>23, <1>24,
     <1>25, <1>26, <1>27, <1>28, <1>29, <1>30, <1>31, <1>32, <1>33, <1>34, <1>35,
     <1>36, <1>37, <1>38, <1>39, <1>40, <1>41, <1>42, <1>43, <1>44, <1>45, <1>46,
     <1>47, <1>48
     DEF Next, CheckoutStep, LookupStep, StatusStep, FaultStep

\* Every table and handler variable keeps its type (all of the store's code).
THEOREM TypeCorrect == Spec => []TypeOK
<1>1. TypeInv => TypeOK
  BY DEF TypeInv
<1> QED
  BY <1>1, TypeInit, TypeStep, PTL DEF Spec

-----------------------------------------------------------------------------
(* Stock.                                                                  *)

\* No stock level that is stored, cached or held by a handler is negative.
StockInv ==
  /\ \A p \in Products : stock[p] >= 0 /\ (cache[p] # Nil => cache[p] >= 0)
  /\ \A x \in Requests : seen[x] # Nil => seen[x] >= 0

\* Initially no stock level is negative.
LEMMA StockInit == Init => StockInv
BY StoreAssumption DEF Init, StockInv, StoreAssumption

\* Reservations that pass the conditional UPDATE, and all releases, leave no
\* negative stock.
LEMMA ReserveStock ==
  ASSUME TypeInv, StockInv, NEW o \in Checkouts, NEW ps, CanReserve(o, ps),
         ps \subseteq Products
  PROVE  \A p \in Products : Reserve(o, ps)[p] >= 0
BY DEF TypeInv, TypeOK, CatalogOK, InputsOK, StockInv, CanReserve, Reserve

\* Releasing only adds units.
LEMMA ReleaseStock ==
  ASSUME TypeInv, StockInv, NEW o \in Checkouts, NEW ps
  PROVE  \A p \in Products : Release(o, ps)[p] >= 0
BY DEF TypeInv, TypeOK, CatalogOK, InputsOK, StockInv, Release

\* AcceptWithStockCheck leaves no negative stock.
LEMMA AcceptStock ==
  ASSUME TypeInv, StockInv, NEW o \in Checkouts, CanAccept(o), AcceptWithStockCheck(o)
  PROVE  \A p \in Products : stock'[p] >= 0
<1>1. ToReserve(o) \subseteq Products
  BY DEF ToReserve, Lines
<1> QED
  BY <1>1, ReserveStock DEF CanAccept, AcceptWithStockCheck

\* The other actions touch neither the stock nor a copy of it.
LEMMA StockFrame ==
  ASSUME [Next]_vars,
         ~\E x \in Checkouts \cup Editors : LookupStep(x),
         ~\E r \in Checkouts : AcceptPaid(r) \/ AfterAccept(r) \/ AcceptUnseen(r),
         ~\E x \in Checkouts \cup StatusRequests : UpdateAccepts(x) \/ GrantAction(x),
         ~\E a \in StatusRequests : VendorUpdate(a) \/ InvalidateLines(a),
         ~\E e \in Editors : UpdateProduct(e) \/ ForgetProduct(e),
         ~\E p \in Products : CacheExpires(p)
  PROVE  UNCHANGED <<stock, cache, seen>>
BY DEF Next, vars, CheckoutStep, StatusStep, FaultStep, Begin, CheckReferral, CreateOrder,
       ReadCreated, ChargeWallet, ChargeOther, PersistPayment, SettleOrder, ClearCart,
       RefundWallet, FailPayment, FailOrder, MarkPaid, ReadBefore, UpdateFails,
       UpdateSets, AwardCheck, PayPayout, StartActions, EndActions, StartStatus,
       StartEdit, RereadProduct, DeleteProduct, RestoreProduct, AddToCart,
       RemoveFromCart, DeleteOrder, RestoreOrder, EditReferenceCode, PersistFails,
       RefundFails, AcceptAborts, Restart, catalogVars, localVars

\* Every step keeps the stock levels and their copies non-negative.
LEMMA StockStep == TypeInv /\ StockInv /\ [Next]_vars => StockInv'
<1> SUFFICES ASSUME TypeInv, StockInv, [Next]_vars PROVE StockInv'
  OBVIOUS
<1> USE DEF catalogVars, localVars
<1>1. ASSUME NEW x \in Checkouts \cup Editors, CacheHit(x) PROVE StockInv'
  <2>1. PICK p \in todo[x] : cache[p] # Nil /\ Got(x, p, cache[p])
    BY <1>1 DEF CacheHit
  <2>2. x \in Requests /\ p \in Products /\ cache[p] >= 0
    BY <2>1 DEF StockInv, TypeInv, TypeOK, HandlersOK, Requests
  <2>3. CASE KeepCopy(x, cache[p])
    BY <1>1, <2>2, <2>3 DEF CacheHit, KeepCopy, StockInv, TypeInv, TypeOK, HandlersOK
  <2>4. CASE AddLine(x, p)
    BY <1>1, <2>2, <2>4 DEF CacheHit, AddLine, StockInv, TypeInv, TypeOK, HandlersOK
  <2>5. CASE UNCHANGED <<todo, total, cur, seen>>
    BY <1>1, <2>5 DEF CacheHit, StockInv
  <2> QED
    BY <2>1, <2>3, <2>4, <2>5 DEF Got
<1>2. ASSUME NEW x \in Checkouts \cup Editors, CacheMiss(x) PROVE StockInv'
  <2>1. PICK p \in todo[x] : seen' = [seen EXCEPT ![x] = stock[p]]
    BY <1>2 DEF CacheMiss
  <2>2. x \in Requests /\ p \in Products /\ stock[p] >= 0
    BY <2>1 DEF StockInv, TypeInv, TypeOK, HandlersOK, Requests
  <2> QED
    BY <1>2, <2>1, <2>2 DEF CacheMiss, StockInv, TypeInv, TypeOK, HandlersOK
<1>3. ASSUME NEW x \in Checkouts \cup Editors, CacheFill(x) PROVE StockInv'
  <2>1. x \in Requests /\ cur[x] \in Products /\ seen[x] # Nil /\ seen[x] >= 0
    BY <1>3 DEF CacheFill, StockInv, TypeInv, LookupInv, Requests
  <2>2. \A p \in Products : stock'[p] >= 0 /\ (cache'[p] # Nil => cache'[p] >= 0)
    BY <1>3, <2>1 DEF CacheFill, StockInv, TypeInv, TypeOK, CatalogOK
  <2>3. CASE KeepCopy(x, seen[x])
    BY <1>3, <2>1, <2>2, <2>3 DEF KeepCopy, StockInv, TypeInv, TypeOK, HandlersOK
  <2>4. CASE AddLine(x, cur[x])
    BY <1>3, <2>1, <2>2, <2>4 DEF AddLine, StockInv, TypeInv, TypeOK, HandlersOK
  <2>5. CASE UNCHANGED <<todo, total, cur, seen>>
    BY <1>3, <2>2, <2>5 DEF StockInv
  <2> QED
    BY <1>3, <2>3, <2>4, <2>5 DEF CacheFill, Got
<1>4. ASSUME NEW r \in Checkouts, AcceptPaid(r) \/ AcceptUnseen(r) PROVE StockInv'
  <2>1. UNCHANGED <<cache, seen>>
    BY <1>4 DEF AcceptPaid, AcceptUnseen
  <2>2. \A p \in Products : stock'[p] >= 0
    BY <1>4, AcceptStock DEF AcceptPaid, AcceptUnseen, StockInv
  <2> QED
    BY <2>1, <2>2 DEF StockInv
<1>5. ASSUME NEW r \in Checkouts, AfterAccept(r) PROVE StockInv'
  BY <1>5 DEF AfterAccept, StockInv, TypeInv, TypeOK, CatalogOK
<1>6. ASSUME NEW x \in Checkouts \cup StatusRequests, UpdateAccepts(x) PROVE StockInv'
  <2>1. OrderOf(x) \in Checkouts
    BY <1>6, OrderOfType DEF UpdateAccepts, TypeInv
  <2> QED
    BY <1>6, <2>1, AcceptStock DEF UpdateAccepts, StockInv
<1>7. ASSUME NEW x \in Checkouts \cup StatusRequests, GrantAction(x) PROVE StockInv'
  <2>1. PICK p \in todo[x] : cache' \in {cache, [cache EXCEPT ![p] = stock[p]]}
    BY <1>7 DEF GrantAction
  <2>2. p \in Products /\ stock[p] >= 0
    BY <2>1 DEF StockInv, TypeInv, TypeOK, HandlersOK, Requests
  <2>3. CASE cache' = cache
    BY <1>7, <2>3 DEF GrantAction, StockInv
  <2>4. CASE cache' = [cache EXCEPT ![p] = stock[p]]
    BY <1>7, <2>2, <2>4 DEF GrantAction, StockInv, TypeInv, TypeOK, CatalogOK
  <2> QED
    BY <2>1, <2>3, <2>4
<1>8. ASSUME NEW a \in StatusRequests, VendorUpdate(a) PROVE StockInv'
  <2> DEFINE o == job[a].order
             v == job[a].actor
             s == job[a].status
  <2>1. o \in Checkouts
    BY <1>8 DEF VendorUpdate, TypeInv, JobInv
  <2>2. CASE CanReserve(o, VendorToReserve(o, v, s)) /\ UpdateVendorStatus(o, v, s)
    <3>1. VendorToReserve(o, v, s) \subseteq Products
      BY DEF VendorToReserve, VendorLines, Lines
    <3>2. \A p \in Products : stock'[p] >= 0
      BY <2>1, <2>2, <3>1, ReserveStock, ReleaseStock DEF UpdateVendorStatus
    <3> QED
      BY <1>8, <3>2 DEF VendorUpdate, StockInv
  <2>3. CASE UNCHANGED <<stock, orders, lines>>
    BY <1>8, <2>3 DEF VendorUpdate, StockInv
  <2> QED
    BY <1>8, <2>2, <2>3 DEF VendorUpdate
<1>9. ASSUME NEW a \in StatusRequests, InvalidateLines(a) PROVE StockInv'
  BY <1>9 DEF InvalidateLines, StockInv, TypeInv, TypeOK, CatalogOK
<1>10. ASSUME NEW e \in Editors, UpdateProduct(e) PROVE StockInv'
  <2>1. CASE \E n \in EditStocks \cup {seen[e]} : stock' = [stock EXCEPT ![cur[e]] = n]
    <3>1. PICK n \in EditStocks \cup {seen[e]} : stock' = [stock EXCEPT ![cur[e]] = n]
      BY <2>1
    <3>2. n >= 0
      BY <1>10, StoreAssumption
         DEF UpdateProduct, StoreAssumption, StockInv, TypeInv, LookupInv, Requests
    <3> QED
      BY <1>10, <3>1, <3>2 DEF UpdateProduct, StockInv, TypeInv, TypeOK, CatalogOK
  <2>2. CASE UNCHANGED stock
    BY <1>10, <2>2 DEF UpdateProduct, StockInv
  <2> QED
    BY <1>10, <2>1, <2>2 DEF UpdateProduct
<1>11. ASSUME NEW e \in Editors, ForgetProduct(e) PROVE StockInv'
  BY <1>11 DEF ForgetProduct, StockInv, TypeInv, TypeOK, CatalogOK
<1>12. ASSUME NEW p \in Products, CacheExpires(p) PROVE StockInv'
  BY <1>12 DEF CacheExpires, StockInv, TypeInv, TypeOK, CatalogOK
<1>13. CASE UNCHANGED <<stock, cache, seen>>
  BY <1>13 DEF StockInv
<1> QED
  BY <1>1, <1>2, <1>3, <1>4, <1>5, <1>6, <1>7, <1>8, <1>9, <1>10, <1>11, <1>12, <1>13,
     StockFrame DEF LookupStep

\* However many checkouts, acceptances, vendor updates and edits race, no
\* product is ever oversold (the conditional UPDATEs of products.stock).
THEOREM NeverOversold == Spec => []NoOversell
<1>1. StockInv => NoOversell
  BY DEF StockInv, NoOversell
<1> QED
  BY <1>1, TypeInit, TypeStep, StockInit, StockStep, PTL DEF Spec

-----------------------------------------------------------------------------
(* Wallets.                                                                *)

\* Only charges, refunds, rewards and special actions touch a wallet.
LEMMA WalletFrame ==
  ASSUME [Next]_vars,
         ~\E r \in Checkouts : ChargeWallet(r) \/ RefundWallet(r),
         ~\E x \in Checkouts \cup StatusRequests : PayPayout(x) \/ GrantAction(x)
  PROVE  UNCHANGED wallet
BY DEF Next, vars, CheckoutStep, LookupStep, StatusStep, FaultStep, Begin, CacheHit,
       CacheMiss, CacheFill, CheckReferral, CreateOrder, ReadCreated, ChargeOther,
       PersistPayment, SettleOrder, ClearCart, AcceptPaid, FailPayment, FailOrder,
       AfterAccept, MarkPaid, ReadBefore, UpdateFails, UpdateAccepts, UpdateSets,
       AwardCheck, StartActions, EndActions, StartStatus, VendorUpdate,
       InvalidateLines, StartEdit, UpdateProduct, RereadProduct, DeleteProduct,
       ForgetProduct, RestoreProduct, CacheExpires, AddToCart, RemoveFromCart,
       DeleteOrder, RestoreOrder, EditReferenceCode, PersistFails, RefundFails,
       AcceptAborts, AcceptUnseen, Restart, moneyVars

\* A credit cannot overdraw a wallet.
LEMMA CreditWallet ==
  ASSUME TypeInv, NoOverdraft, NEW w, NEW n \in Nat, wallet' = [wallet EXCEPT ![w] = @ + n]
  PROVE  NoOverdraft'
BY DEF TypeInv, TypeOK, MoneyOK, NoOverdraft

\* Every step keeps the balances non-negative.
LEMMA WalletStep == TypeInv /\ NoOverdraft /\ [Next]_vars => NoOverdraft'
<1> SUFFICES ASSUME TypeInv, NoOverdraft, [Next]_vars PROVE NoOverdraft'
  OBVIOUS
<1>1. ASSUME NEW r \in Checkouts, ChargeWallet(r) PROVE NoOverdraft'
  <2>1. CASE CanDebit(r) /\ Debit(r)
    BY <2>1 DEF CanDebit, Debit, NoOverdraft, TypeInv, TypeOK, MoneyOK, InputsOK, HandlersOK
  <2>2. CASE UNCHANGED <<wallet, debits>>
    BY <2>2 DEF NoOverdraft
  <2> QED
    BY <1>1, <2>1, <2>2 DEF ChargeWallet
<1>2. ASSUME NEW r \in Checkouts, RefundWallet(r) PROVE NoOverdraft'
  <2>1. total[r] \in Nat
    BY DEF TypeInv, TypeOK, HandlersOK
  <2>2. CASE Refund(r)
    BY <2>1, <2>2, CreditWallet DEF Refund
  <2>3. CASE UNCHANGED <<wallet, refunds>>
    BY <2>3 DEF NoOverdraft
  <2> QED
    BY <1>2, <2>2, <2>3 DEF RefundWallet
<1>3. ASSUME NEW x \in Checkouts \cup StatusRequests, PayPayout(x) PROVE NoOverdraft'
  <2>1. Incentive \in Nat
    BY StoreAssumption DEF StoreAssumption
  <2>2. CASE CreatePayout(OrderOf(x))
    BY <2>1, <2>2, CreditWallet DEF CreatePayout
  <2>3. CASE UNCHANGED <<payouts, wallet, payoutCredits>>
    BY <2>3 DEF NoOverdraft
  <2> QED
    BY <1>3, <2>2, <2>3 DEF PayPayout
<1>4. ASSUME NEW x \in Checkouts \cup StatusRequests, GrantAction(x) PROVE NoOverdraft'
  <2>1. PICK p \in todo[x] : Grant(OrderOf(x), p) \/ UNCHANGED <<wallet, granted>>
    BY <1>4 DEF GrantAction
  <2>2. p \in Products /\ OrderOf(x) \in Checkouts
    BY <1>4, <2>1, OrderOfType DEF GrantAction, TypeInv, TypeOK, HandlersOK, Requests
  <2>3. Credit[p] * req[OrderOf(x)].items[p] \in Nat
    BY <2>2, StoreAssumption DEF StoreAssumption, TypeInv, TypeOK, InputsOK
  <2>4. CASE Grant(OrderOf(x), p)
    BY <2>3, <2>4, CreditWallet DEF Grant
  <2>5. CASE UNCHANGED <<wallet, granted>>
    BY <2>5 DEF NoOverdraft
  <2> QED
    BY <2>1, <2>4, <2>5
<1>5. CASE UNCHANGED wallet
  BY <1>5 DEF NoOverdraft
<1> QED
  BY <1>1, <1>2, <1>3, <1>4, <1>5, WalletFrame

\* No interleaving of checkouts, refunds and rewards overdraws a wallet
\* (DebitIfSufficient is the only debit and compares under the lock).
THEOREM NeverOverdrawn == Spec => []NoOverdraft
<1>1. Init => NoOverdraft
  BY StoreAssumption DEF Init, NoOverdraft, StoreAssumption
<1> QED
  BY <1>1, TypeInit, TypeStep, WalletStep, PTL DEF Spec

-----------------------------------------------------------------------------
(* Refunds and payments.                                                   *)


\* Before the charge.
PreCharge == {"idle", "resolve", "fill", "code", "create", "created", "charge"}

\* After the stock has been reserved.
Reserving == {"accepted", "paid", "before", "update", "award", "payout", "actions",
              "grant"}

\* What a checkout's position says about its debit, its refund and its payment.
MoneyAt(r) ==
  /\ debits[r] <= 1 /\ refunds[r] <= debits[r]
  /\ debits[r] = 1 <=> pay[r] = "succeeded" /\ req[r].method = "wallet"
  /\ debits[r] = 1 => req[r].buyer # Guest
  /\ pc[r] \in PreCharge => pay[r] = "none" /\ payments[r] = "none"
  /\ pc[r] \in {"accept", "refund", "payfail", "orderfail"} \cup Reserving =>
       pay[r] = "succeeded"
  /\ refunds[r] = 1 => pc[r] \in {"payfail", "orderfail", "done", "dead"}
  /\ pc[r] \notin {"done", "dead"} => outcome[r] = "none"
  /\ outcome[r] = "succeeded" => refunds[r] = 0

\* The same for the payment row, and for the refund while nothing has failed.
SettledAt(r) ==
  /\ pc[r] \in {"settle", "clear", "accept", "refund", "payfail"} \cup Reserving =>
       payments[r] = pay[r]
  /\ pc[r] = "orderfail" => payments[r] = "failed"
  /\ faults = 0 /\ debits[r] = 1 /\ pc[r] \in {"payfail", "orderfail"} => refunds[r] = 1
  /\ faults = 0 /\ debits[r] = 1 /\ pc[r] = "done" =>
       \/ outcome[r] = "succeeded" /\ refunds[r] = 0 /\ payments[r] = "succeeded"
       \/ outcome[r] = "error" /\ refunds[r] = 1 /\ payments[r] = "failed"

\* The inductive invariant of the money.
MoneyInv == \A r \in Checkouts : MoneyAt(r) /\ SettledAt(r)

\* A reward was earned, and is about to be given only for an order that earns it.
Earned(o) == req[o].referral /\ req[o].buyer # CodeOwner /\ pc[o] # "idle"

\* A reward is credited once with its payout row, and only when earned.
PayoutInv ==
  /\ \A o \in Checkouts : o \in payouts => payoutCredits[o] = 1 /\ Earned(o)
  /\ \A o \in Checkouts : o \notin payouts => payoutCredits[o] = 0
  /\ \A x \in Checkouts \cup StatusRequests : pc[x] = "payout" => Earned(OrderOf(x))

\* Initially no money has moved.
LEMMA MoneyInit == Init => MoneyInv
BY Kinds DEF Init, MoneyInv, MoneyAt, SettledAt, PreCharge, Reserving, NoRequest

\* Money moves only at its own place in a checkout.
LEMMA NoRefundYet ==
  ASSUME TypeInv, MoneyInv, NEW r \in Checkouts,
         pc[r] \notin {"payfail", "orderfail", "done", "dead"}
  PROVE  refunds[r] = 0
<1>1. refunds[r] \in Nat /\ debits[r] \in Nat
  BY DEF TypeInv, TypeOK, MoneyOK
<1>2. refunds[r] # 1 /\ refunds[r] <= debits[r] /\ debits[r] <= 1
  BY DEF MoneyInv, MoneyAt
<1> QED
  BY <1>1, <1>2

\* Nothing is debited before the charge.
LEMMA NoDebitYet ==
  ASSUME TypeInv, MoneyInv, NEW r \in Checkouts, pc[r] \in PreCharge
  PROVE  debits[r] = 0
<1>1. debits[r] \in Nat
  BY DEF TypeInv, TypeOK, MoneyOK
<1>2. debits[r] # 1 /\ debits[r] <= 1
  BY DEF MoneyInv, MoneyAt
<1> QED
  BY <1>1, <1>2

\* Every step keeps the books of every checkout.
LEMMA MoneyStep == TypeInv /\ MoneyInv /\ [Next]_vars => MoneyInv'
<1> SUFFICES ASSUME TypeInv, MoneyInv, [Next]_vars PROVE MoneyInv'
  OBVIOUS
<1> USE Kinds DEF TypeInv, TypeOK, OrdersOK, MoneyOK, OthersOK, InputsOK, HandlersOK,
      MoneyInv, MoneyAt, SettledAt, PreCharge, Reserving, catalogVars, orderVars,
      moneyVars, otherVars, inputVars, localVars, Goto, Proceed, Answer
<1>1. ASSUME NEW r \in Checkouts, Begin(r) PROVE MoneyInv'
  BY <1>1 DEF Begin
<1>2. ASSUME NEW r \in Checkouts, CheckReferral(r) PROVE MoneyInv'
  <2>1. CASE Answer(r, "rejected")
    BY <1>2, <2>1 DEF CheckReferral
  <2>2. CASE Proceed(r, "create")
    BY <1>2, <2>2 DEF CheckReferral
  <2> QED
    BY <1>2, <2>1, <2>2 DEF CheckReferral
<1>3. ASSUME NEW r \in Checkouts, CreateOrder(r) PROVE MoneyInv'
  BY <1>3 DEF CreateOrder
<1>4. ASSUME NEW r \in Checkouts, ReadCreated(r) PROVE MoneyInv'
  <2>1. CASE Answer(r, "error")
    BY <1>4, <2>1 DEF ReadCreated
  <2>2. CASE Proceed(r, IF req[r].method = "order" THEN "clear" ELSE "charge")
    BY <1>4, <2>2 DEF ReadCreated
  <2> QED
    BY <1>4, <2>1, <2>2 DEF ReadCreated
<1>5. ASSUME NEW r \in Checkouts, ChargeWallet(r) PROVE MoneyInv'
  <2>1. debits[r] = 0 /\ refunds[r] = 0
    BY <1>5, NoDebitYet, NoRefundYet DEF ChargeWallet
  <2>2. CASE CanDebit(r) /\ Debit(r)
    BY <1>5, <2>1, <2>2 DEF ChargeWallet, Paid, CanDebit, Debit
  <2>3. CASE Paid(r, "failed") /\ UNCHANGED <<wallet, debits>>
    BY <1>5, <2>3 DEF ChargeWallet, Paid
  <2> QED
    BY <1>5, <2>2, <2>3 DEF ChargeWallet
<1>6. ASSUME NEW r \in Checkouts, ChargeOther(r) PROVE MoneyInv'
  BY <1>6 DEF ChargeOther, Paid
<1>7. ASSUME NEW r \in Checkouts, PersistPayment(r) PROVE MoneyInv'
  <2>1. CASE req[r].buyer = Guest /\ Answer(r, "error") /\ UNCHANGED payments
    BY <1>7, <2>1 DEF PersistPayment, RecordPayment
  <2>2. CASE req[r].buyer # Guest /\ RecordPayment(r, pay[r]) /\ Proceed(r, "settle")
    BY <1>7, <2>2 DEF PersistPayment, RecordPayment
  <2> QED
    BY <1>7, <2>1, <2>2 DEF PersistPayment, RecordPayment
<1>8. ASSUME NEW r \in Checkouts, SettleOrder(r) PROVE MoneyInv'
  BY <1>8 DEF SettleOrder
<1>9. ASSUME NEW r \in Checkouts, ClearCart(r) PROVE MoneyInv'
  <2>1. CASE pay[r] = "succeeded" /\ Proceed(r, "accept")
    BY <1>9, <2>1 DEF ClearCart
  <2>2. CASE pay[r] \in {"failed", "pending"} /\ Answer(r, pay[r])
    BY <1>9, <2>2 DEF ClearCart
  <2>3. CASE pay[r] = "none" /\ Answer(r, "created")
    BY <1>9, <2>3 DEF ClearCart
  <2> QED
    BY <1>9, <2>1, <2>2, <2>3 DEF ClearCart
<1>10. ASSUME NEW r \in Checkouts, AcceptPaid(r) PROVE MoneyInv'
  <2>1. CASE Goto(r, "accepted")
    BY <1>10, <2>1 DEF AcceptPaid
  <2>2. CASE Goto(r, "refund")
    BY <1>10, <2>2 DEF AcceptPaid
  <2> QED
    BY <1>10, <2>1, <2>2 DEF AcceptPaid
<1>11. ASSUME NEW r \in Checkouts, RefundWallet(r) PROVE MoneyInv'
  <2>1. CASE req[r].method = "wallet" /\ Refund(r)
    <3>1. debits[r] = 1 /\ refunds[r] = 0
      BY <1>11, <2>1, NoRefundYet DEF RefundWallet
    <3>2. refunds' = [refunds EXCEPT ![r] = 1]
      BY <2>1, <3>1 DEF Refund
    <3> QED
      BY <1>11, <3>1, <3>2 DEF RefundWallet
  <2>2. CASE req[r].method # "wallet" /\ UNCHANGED <<wallet, refunds>>
    BY <1>11, <2>2 DEF RefundWallet
  <2> QED
    BY <1>11, <2>1, <2>2 DEF RefundWallet
<1>12. ASSUME NEW r \in Checkouts, FailPayment(r) PROVE MoneyInv'
  BY <1>12 DEF FailPayment, RecordPayment
<1>13. ASSUME NEW r \in Checkouts, FailOrder(r) PROVE MoneyInv'
  BY <1>13 DEF FailOrder
<1>14. ASSUME NEW r \in Checkouts, AfterAccept(r) PROVE MoneyInv'
  BY <1>14 DEF AfterAccept
<1>15. ASSUME NEW r \in Checkouts, MarkPaid(r) PROVE MoneyInv'
  <2>1. refunds[r] = 0
    BY <1>15, NoRefundYet DEF MarkPaid
  <2> QED
    BY <1>15, <2>1 DEF MarkPaid
<1>16. ASSUME NEW x \in Checkouts \cup Editors, CacheHit(x) PROVE MoneyInv'
  <2>1. CASE \E p \in Products : AddLine(x, p)
    BY <1>16, <2>1 DEF CacheHit, AddLine
  <2>2. CASE Proceed(x, "write")
    BY <1>16, <2>2 DEF CacheHit
  <2>3. CASE x \in Checkouts /\ Answer(x, "rejected")
    BY <1>16, <2>3 DEF CacheHit
  <2> QED
    BY <1>16, <2>1, <2>2, <2>3 DEF CacheHit, Got, KeepCopy, LookupInv
<1>17. ASSUME NEW x \in Checkouts \cup Editors, CacheMiss(x) PROVE MoneyInv'
  <2>1. CASE Proceed(x, "fill")
    BY <1>17, <2>1 DEF CacheMiss
  <2>2. CASE x \in Checkouts /\ Answer(x, "rejected")
    BY <1>17, <2>2 DEF CacheMiss
  <2>3. CASE x \in Editors /\ Proceed(x, "done")
    BY <1>17, <2>3 DEF CacheMiss
  <2> QED
    BY <1>17, <2>1, <2>2, <2>3 DEF CacheMiss
<1>18. ASSUME NEW x \in Checkouts \cup Editors, CacheFill(x) PROVE MoneyInv'
  <2>1. CASE \E p \in Products : AddLine(x, p)
    BY <1>18, <2>1 DEF CacheFill, AddLine
  <2>2. CASE Proceed(x, "write")
    BY <1>18, <2>2 DEF CacheFill
  <2>3. CASE x \in Checkouts /\ Answer(x, "rejected")
    BY <1>18, <2>3 DEF CacheFill
  <2> QED
    BY <1>18, <2>1, <2>2, <2>3 DEF CacheFill, Got, KeepCopy, LookupInv
<1>19. ASSUME NEW x \in Checkouts \cup StatusRequests, ReadBefore(x) PROVE MoneyInv'
  BY <1>19 DEF ReadBefore
<1>20. ASSUME NEW x \in Checkouts \cup StatusRequests, UpdateFails(x) PROVE MoneyInv'
  BY <1>20 DEF UpdateFails
<1>21. ASSUME NEW x \in Checkouts \cup StatusRequests, UpdateAccepts(x) PROVE MoneyInv'
  BY <1>21 DEF UpdateAccepts, Wanted
<1>22. ASSUME NEW x \in Checkouts \cup StatusRequests, UpdateSets(x) PROVE MoneyInv'
  BY <1>22 DEF UpdateSets
<1>23. ASSUME NEW x \in Checkouts \cup StatusRequests, AwardCheck(x) PROVE MoneyInv'
  BY <1>23 DEF AwardCheck
<1>24. ASSUME NEW x \in Checkouts \cup StatusRequests, PayPayout(x) PROVE MoneyInv'
  BY <1>24 DEF PayPayout, OrderOf
<1>25. ASSUME NEW x \in Checkouts \cup StatusRequests, StartActions(x) PROVE MoneyInv'
  BY <1>25 DEF StartActions
<1>26. ASSUME NEW x \in Checkouts \cup StatusRequests, GrantAction(x) PROVE MoneyInv'
  BY <1>26 DEF GrantAction, OrderOf
<1>27. ASSUME NEW x \in Checkouts \cup StatusRequests, EndActions(x) PROVE MoneyInv'
  <2>1. CASE x \in Checkouts /\ Answer(x, "succeeded")
    <3>1. refunds[x] = 0
      BY <1>27, <2>1, NoRefundYet DEF EndActions
    <3> QED
      BY <1>27, <2>1, <3>1 DEF EndActions
  <2>2. CASE x \in StatusRequests /\ Proceed(x, "done")
    BY <1>27, <2>2 DEF EndActions
  <2> QED
    BY <1>27, <2>1, <2>2 DEF EndActions
<1>28. ASSUME NEW a \in StatusRequests, StartStatus(a) PROVE MoneyInv'
  BY <1>28 DEF StartStatus
<1>29. ASSUME NEW a \in StatusRequests, VendorUpdate(a) PROVE MoneyInv'
  <2>1. CASE Goto(a, IF job[a].order \in trashed THEN "done" ELSE "invalidate")
    BY <1>29, <2>1 DEF VendorUpdate
  <2>2. CASE Goto(a, "done")
    BY <1>29, <2>2 DEF VendorUpdate
  <2> QED
    BY <1>29, <2>1, <2>2 DEF VendorUpdate
<1>30. ASSUME NEW a \in StatusRequests, InvalidateLines(a) PROVE MoneyInv'
  BY <1>30 DEF InvalidateLines
<1>31. ASSUME NEW e \in Editors, StartEdit(e) PROVE MoneyInv'
  BY <1>31 DEF StartEdit
<1>32. ASSUME NEW e \in Editors, UpdateProduct(e) PROVE MoneyInv'
  <2>1. CASE Goto(e, "reread")
    BY <1>32, <2>1 DEF UpdateProduct
  <2>2. CASE Goto(e, "done")
    BY <1>32, <2>2 DEF UpdateProduct
  <2> QED
    BY <1>32, <2>1, <2>2 DEF UpdateProduct
<1>33. ASSUME NEW e \in Editors, RereadProduct(e) PROVE MoneyInv'
  BY <1>33 DEF RereadProduct
<1>34. ASSUME NEW e \in Editors, DeleteProduct(e) PROVE MoneyInv'
  BY <1>34 DEF DeleteProduct
<1>35. ASSUME NEW e \in Editors, ForgetProduct(e) PROVE MoneyInv'
  BY <1>35 DEF ForgetProduct
<1>36. ASSUME NEW p \in Products, RestoreProduct(p) PROVE MoneyInv'
  BY <1>36 DEF RestoreProduct
<1>37. ASSUME NEW p \in Products, CacheExpires(p) PROVE MoneyInv'
  BY <1>37 DEF CacheExpires
<1>38. ASSUME NEW u \in Shoppers, NEW p \in Products, AddToCart(u, p) PROVE MoneyInv'
  BY <1>38 DEF AddToCart
<1>39. ASSUME NEW u \in Shoppers, NEW p \in Products, RemoveFromCart(u, p) PROVE MoneyInv'
  BY <1>39 DEF RemoveFromCart
<1>40. ASSUME NEW o \in Trashable, DeleteOrder(o) PROVE MoneyInv'
  BY <1>40 DEF DeleteOrder
<1>41. ASSUME NEW o \in Trashable, RestoreOrder(o) PROVE MoneyInv'
  BY <1>41 DEF RestoreOrder
<1>42. ASSUME NEW r \in Checkouts, PersistFails(r) PROVE MoneyInv'
  BY <1>42, StoreAssumption DEF PersistFails, Fault, StoreAssumption
<1>43. ASSUME NEW r \in Checkouts, RefundFails(r) PROVE MoneyInv'
  BY <1>43, StoreAssumption DEF RefundFails, Fault, StoreAssumption
<1>44. ASSUME NEW r \in Checkouts, AcceptAborts(r) PROVE MoneyInv'
  BY <1>44, StoreAssumption DEF AcceptAborts, Fault, StoreAssumption
<1>45. ASSUME NEW r \in Checkouts, AcceptUnseen(r) PROVE MoneyInv'
  BY <1>45, StoreAssumption DEF AcceptUnseen, Fault, StoreAssumption
<1>46. CASE EditReferenceCode
  BY <1>46 DEF EditReferenceCode
<1>47. CASE Restart
  BY <1>47, StoreAssumption DEF Restart, Fault, StoreAssumption
<1>48. CASE UNCHANGED vars
  BY <1>48 DEF vars
<1> HIDE DEF TypeInv, MoneyInv
<1> QED
  BY <1>1, <1>2, <1>3, <1>4, <1>5, <1>6, <1>7, <1>8, <1>9, <1>10, <1>11, <1>12, <1>13,
     <1>14, <1>15, <1>16, <1>17, <1>18, <1>19, <1>20, <1>21, <1>22, <1>23, <1>24,
     <1>25, <1>26, <1>27, <1>28, <1>29, <1>30, <1>31, <1>32, <1>33, <1>34, <1>35,
     <1>36, <1>37, <1>38, <1>39, <1>40, <1>41, <1>42, <1>43, <1>44, <1>45, <1>46,
     <1>47, <1>48
     DEF Next, CheckoutStep, LookupStep, StatusStep, FaultStep

\* Whatever fails and whoever else changes the order, a refund is given at most
\* once, only for a debit, and never for an order answered as paid.
THEOREM RefundsBacked == Spec => []RefundBacked
<1>1. MoneyInv => RefundBacked
  BY DEF MoneyInv, MoneyAt, RefundBacked
<1> QED
  BY <1>1, TypeInit, TypeStep, MoneyInit, MoneyStep, PTL DEF Spec

\* Unless a statement fails or the backend restarts, an answered checkout has
\* either kept the money of a paid order or given all of it back.
THEOREM MoneyIsSettled == Spec => []MoneySettled
<1>1. MoneyInv => MoneySettled
  BY DEF MoneyInv, MoneyAt, SettledAt, MoneySettled
<1> QED
  BY <1>1, TypeInit, TypeStep, MoneyInit, MoneyStep, PTL DEF Spec

-----------------------------------------------------------------------------
(* Rewards of the reference code.                                          *)

\* Initially no reward has been given.
LEMMA PayoutInit == Init => PayoutInv
BY Kinds DEF Init, PayoutInv

\* Every step keeps rewards single and earned.
LEMMA PayoutStep == TypeInv /\ PayoutInv /\ [Next]_vars => PayoutInv'
<1> SUFFICES ASSUME TypeInv, PayoutInv, [Next]_vars PROVE PayoutInv'
  OBVIOUS
<1> USE Kinds DEF TypeInv, TypeOK, OrdersOK, MoneyOK, InputsOK, HandlersOK, JobInv,
      PayoutInv, Earned, OrderOf, catalogVars, orderVars, moneyVars, otherVars,
      inputVars, localVars, Goto, Proceed, Answer
<1>1. ASSUME NEW r \in Checkouts, Begin(r) PROVE PayoutInv'
  BY <1>1 DEF Begin
<1>2. ASSUME NEW r \in Checkouts, CheckReferral(r) PROVE PayoutInv'
  <2>1. CASE Answer(r, "rejected")
    BY <1>2, <2>1 DEF CheckReferral
  <2>2. CASE Proceed(r, "create")
    BY <1>2, <2>2 DEF CheckReferral
  <2> QED
    BY <1>2, <2>1, <2>2 DEF CheckReferral
<1>3. ASSUME NEW r \in Checkouts, CreateOrder(r) PROVE PayoutInv'
  BY <1>3 DEF CreateOrder
<1>4. ASSUME NEW r \in Checkouts, ReadCreated(r) PROVE PayoutInv'
  <2>1. CASE Answer(r, "error")
    BY <1>4, <2>1 DEF ReadCreated
  <2>2. CASE Proceed(r, IF req[r].method = "order" THEN "clear" ELSE "charge")
    BY <1>4, <2>2 DEF ReadCreated
  <2> QED
    BY <1>4, <2>1, <2>2 DEF ReadCreated
<1>5. ASSUME NEW r \in Checkouts, ChargeWallet(r) PROVE PayoutInv'
  BY <1>5 DEF ChargeWallet
<1>6. ASSUME NEW r \in Checkouts, ChargeOther(r) PROVE PayoutInv'
  BY <1>6 DEF ChargeOther
<1>7. ASSUME NEW r \in Checkouts, PersistPayment(r) PROVE PayoutInv'
  <2>1. CASE Answer(r, "error")
    BY <1>7, <2>1 DEF PersistPayment
  <2>2. CASE Proceed(r, "settle")
    BY <1>7, <2>2 DEF PersistPayment
  <2> QED
    BY <1>7, <2>1, <2>2 DEF PersistPayment
<1>8. ASSUME NEW r \in Checkouts, SettleOrder(r) PROVE PayoutInv'
  BY <1>8 DEF SettleOrder
<1>9. ASSUME NEW r \in Checkouts, ClearCart(r) PROVE PayoutInv'
  <2>1. CASE Proceed(r, "accept")
    BY <1>9, <2>1 DEF ClearCart
  <2>2. CASE Answer(r, pay[r])
    BY <1>9, <2>2 DEF ClearCart
  <2>3. CASE Answer(r, "created")
    BY <1>9, <2>3 DEF ClearCart
  <2> QED
    BY <1>9, <2>1, <2>2, <2>3 DEF ClearCart
<1>10. ASSUME NEW r \in Checkouts, AcceptPaid(r) PROVE PayoutInv'
  <2>1. CASE Goto(r, "accepted")
    BY <1>10, <2>1 DEF AcceptPaid
  <2>2. CASE Goto(r, "refund")
    BY <1>10, <2>2 DEF AcceptPaid
  <2> QED
    BY <1>10, <2>1, <2>2 DEF AcceptPaid
<1>11. ASSUME NEW r \in Checkouts, RefundWallet(r) PROVE PayoutInv'
  BY <1>11 DEF RefundWallet
<1>12. ASSUME NEW r \in Checkouts, FailPayment(r) PROVE PayoutInv'
  BY <1>12 DEF FailPayment
<1>13. ASSUME NEW r \in Checkouts, FailOrder(r) PROVE PayoutInv'
  BY <1>13 DEF FailOrder
<1>14. ASSUME NEW r \in Checkouts, AfterAccept(r) PROVE PayoutInv'
  BY <1>14 DEF AfterAccept
<1>15. ASSUME NEW r \in Checkouts, MarkPaid(r) PROVE PayoutInv'
  BY <1>15 DEF MarkPaid
<1>16. ASSUME NEW x \in Checkouts \cup Editors, CacheHit(x) PROVE PayoutInv'
  <2>1. CASE \E p \in Products : AddLine(x, p)
    BY <1>16, <2>1 DEF CacheHit, AddLine
  <2>2. CASE Proceed(x, "write")
    BY <1>16, <2>2 DEF CacheHit
  <2>3. CASE x \in Checkouts /\ Answer(x, "rejected")
    BY <1>16, <2>3 DEF CacheHit
  <2> QED
    BY <1>16, <2>1, <2>2, <2>3 DEF CacheHit, Got, KeepCopy, LookupInv
<1>17. ASSUME NEW x \in Checkouts \cup Editors, CacheMiss(x) PROVE PayoutInv'
  <2>1. CASE Proceed(x, "fill")
    BY <1>17, <2>1 DEF CacheMiss
  <2>2. CASE x \in Checkouts /\ Answer(x, "rejected")
    BY <1>17, <2>2 DEF CacheMiss
  <2>3. CASE x \in Editors /\ Proceed(x, "done")
    BY <1>17, <2>3 DEF CacheMiss
  <2> QED
    BY <1>17, <2>1, <2>2, <2>3 DEF CacheMiss
<1>18. ASSUME NEW x \in Checkouts \cup Editors, CacheFill(x) PROVE PayoutInv'
  <2>1. CASE \E p \in Products : AddLine(x, p)
    BY <1>18, <2>1 DEF CacheFill, AddLine
  <2>2. CASE Proceed(x, "write")
    BY <1>18, <2>2 DEF CacheFill
  <2>3. CASE x \in Checkouts /\ Answer(x, "rejected")
    BY <1>18, <2>3 DEF CacheFill
  <2> QED
    BY <1>18, <2>1, <2>2, <2>3 DEF CacheFill, Got, KeepCopy, LookupInv
<1>19. ASSUME NEW x \in Checkouts \cup StatusRequests, ReadBefore(x) PROVE PayoutInv'
  BY <1>19 DEF ReadBefore
<1>20. ASSUME NEW x \in Checkouts \cup StatusRequests, UpdateFails(x) PROVE PayoutInv'
  BY <1>20 DEF UpdateFails
<1>21. ASSUME NEW x \in Checkouts \cup StatusRequests, UpdateAccepts(x) PROVE PayoutInv'
  BY <1>21 DEF UpdateAccepts
<1>22. ASSUME NEW x \in Checkouts \cup StatusRequests, UpdateSets(x) PROVE PayoutInv'
  BY <1>22 DEF UpdateSets
<1>23. ASSUME NEW x \in Checkouts \cup StatusRequests, AwardCheck(x) PROVE PayoutInv'
  <2>1. OrderOf(x) \in Checkouts /\ pc[OrderOf(x)] # "idle"
    BY <1>23, OrderOfType DEF AwardCheck
  <2> QED
    BY <1>23, <2>1 DEF AwardCheck, EarnsPayout
<1>24. ASSUME NEW x \in Checkouts \cup StatusRequests, PayPayout(x) PROVE PayoutInv'
  <2>1. OrderOf(x) \in Checkouts
    BY <1>24, OrderOfType DEF PayPayout
  <2>2. CASE UNCHANGED <<payouts, wallet, payoutCredits>>
    BY <1>24, <2>2 DEF PayPayout
  <2>3. CASE OrderOf(x) \notin payouts /\ CreatePayout(OrderOf(x))
    <3> HIDE DEF OrderOf
    <3>1. payoutCredits[OrderOf(x)] = 0
      BY <2>1, <2>3
    <3>2. payoutCredits' = [payoutCredits EXCEPT ![OrderOf(x)] = 1]
      BY <3>1, <2>3 DEF CreatePayout
    <3> QED
      BY <1>24, <2>1, <2>3, <3>2 DEF PayPayout, CreatePayout, OrderOf
  <2> QED
    BY <1>24, <2>2, <2>3 DEF PayPayout
<1>25. ASSUME NEW x \in Checkouts \cup StatusRequests, StartActions(x) PROVE PayoutInv'
  BY <1>25 DEF StartActions
<1>26. ASSUME NEW x \in Checkouts \cup StatusRequests, GrantAction(x) PROVE PayoutInv'
  BY <1>26 DEF GrantAction
<1>27. ASSUME NEW x \in Checkouts \cup StatusRequests, EndActions(x) PROVE PayoutInv'
  <2>1. CASE x \in Checkouts /\ Answer(x, "succeeded")
    BY <1>27, <2>1 DEF EndActions
  <2>2. CASE x \in StatusRequests /\ Proceed(x, "done")
    BY <1>27, <2>2 DEF EndActions
  <2> QED
    BY <1>27, <2>1, <2>2 DEF EndActions
<1>28. ASSUME NEW a \in StatusRequests, StartStatus(a) PROVE PayoutInv'
  BY <1>28 DEF StartStatus
<1>29. ASSUME NEW a \in StatusRequests, VendorUpdate(a) PROVE PayoutInv'
  <2>1. CASE Goto(a, IF job[a].order \in trashed THEN "done" ELSE "invalidate")
    BY <1>29, <2>1 DEF VendorUpdate
  <2>2. CASE Goto(a, "done")
    BY <1>29, <2>2 DEF VendorUpdate
  <2> QED
    BY <1>29, <2>1, <2>2 DEF VendorUpdate
<1>30. ASSUME NEW a \in StatusRequests, InvalidateLines(a) PROVE PayoutInv'
  BY <1>30 DEF InvalidateLines
<1>31. ASSUME NEW e \in Editors, StartEdit(e) PROVE PayoutInv'
  BY <1>31 DEF StartEdit
<1>32. ASSUME NEW e \in Editors, UpdateProduct(e) PROVE PayoutInv'
  <2>1. CASE Goto(e, "reread")
    BY <1>32, <2>1 DEF UpdateProduct
  <2>2. CASE Goto(e, "done")
    BY <1>32, <2>2 DEF UpdateProduct
  <2> QED
    BY <1>32, <2>1, <2>2 DEF UpdateProduct
<1>33. ASSUME NEW e \in Editors, RereadProduct(e) PROVE PayoutInv'
  BY <1>33 DEF RereadProduct
<1>34. ASSUME NEW e \in Editors, DeleteProduct(e) PROVE PayoutInv'
  BY <1>34 DEF DeleteProduct
<1>35. ASSUME NEW e \in Editors, ForgetProduct(e) PROVE PayoutInv'
  BY <1>35 DEF ForgetProduct
<1>36. ASSUME NEW p \in Products, RestoreProduct(p) PROVE PayoutInv'
  BY <1>36 DEF RestoreProduct
<1>37. ASSUME NEW p \in Products, CacheExpires(p) PROVE PayoutInv'
  BY <1>37 DEF CacheExpires
<1>38. ASSUME NEW u \in Shoppers, NEW p \in Products, AddToCart(u, p) PROVE PayoutInv'
  BY <1>38 DEF AddToCart
<1>39. ASSUME NEW u \in Shoppers, NEW p \in Products, RemoveFromCart(u, p) PROVE PayoutInv'
  BY <1>39 DEF RemoveFromCart
<1>40. ASSUME NEW o \in Trashable, DeleteOrder(o) PROVE PayoutInv'
  BY <1>40 DEF DeleteOrder
<1>41. ASSUME NEW o \in Trashable, RestoreOrder(o) PROVE PayoutInv'
  BY <1>41 DEF RestoreOrder
<1>42. ASSUME NEW r \in Checkouts, PersistFails(r) PROVE PayoutInv'
  BY <1>42 DEF PersistFails
<1>43. ASSUME NEW r \in Checkouts, RefundFails(r) PROVE PayoutInv'
  BY <1>43 DEF RefundFails
<1>44. ASSUME NEW r \in Checkouts, AcceptAborts(r) PROVE PayoutInv'
  BY <1>44 DEF AcceptAborts
<1>45. ASSUME NEW r \in Checkouts, AcceptUnseen(r) PROVE PayoutInv'
  BY <1>45 DEF AcceptUnseen
<1>46. CASE EditReferenceCode
  BY <1>46 DEF EditReferenceCode
<1>47. CASE Restart
  BY <1>47 DEF Restart
<1>48. CASE UNCHANGED vars
  BY <1>48 DEF vars
<1> HIDE DEF TypeInv, PayoutInv
<1> QED
  BY <1>1, <1>2, <1>3, <1>4, <1>5, <1>6, <1>7, <1>8, <1>9, <1>10, <1>11, <1>12, <1>13,
     <1>14, <1>15, <1>16, <1>17, <1>18, <1>19, <1>20, <1>21, <1>22, <1>23, <1>24,
     <1>25, <1>26, <1>27, <1>28, <1>29, <1>30, <1>31, <1>32, <1>33, <1>34, <1>35,
     <1>36, <1>37, <1>38, <1>39, <1>40, <1>41, <1>42, <1>43, <1>44, <1>45, <1>46,
     <1>47, <1>48
     DEF Next, CheckoutStep, LookupStep, StatusStep, FaultStep

\* However many requests complete an order at once, its reference code is
\* rewarded at most once and never for its owner's own order.
THEOREM PayoutsOnce == Spec => []PayoutOncePerOrder
<1>1. PayoutInv => PayoutOncePerOrder
  BY DEF PayoutInv, Earned, PayoutOncePerOrder
<1> QED
  BY <1>1, TypeInit, TypeStep, PayoutInit, PayoutStep, PTL DEF Spec

-----------------------------------------------------------------------------
(* Where handlers stand.                                                   *)

\* A request is decoded once; status requests keep what they have decoded.
LEMMA InputsStay ==
  ASSUME TypeInv, [Next]_vars
  PROVE  /\ \A r \in Checkouts : Begin(r) \/ req'[r] = req[r]
         /\ \A r \in Checkouts : pc[r] # "idle" => req'[r] = req[r]
         /\ \A a \in StatusRequests : pc[a] # "idle" => job'[a] = job[a]
<1> USE DEF TypeInv, TypeOK, InputsOK, catalogVars, orderVars, moneyVars, otherVars,
      inputVars, localVars
<1>1. ASSUME NEW r \in Checkouts, Begin(r)
      PROVE  /\ \A s \in Checkouts : s = r \/ req'[s] = req[s]
             /\ pc[r] = "idle" /\ UNCHANGED job
  BY <1>1 DEF Begin
<1>2. ASSUME NEW a \in StatusRequests, StartStatus(a)
      PROVE  /\ \A b \in StatusRequests : pc[b] # "idle" => job'[b] = job[b]
             /\ UNCHANGED req
  BY <1>2 DEF StartStatus
<1>3. CASE UNCHANGED <<req, job>>
  BY <1>3
<1> QED
  BY ZenonT(30), <1>1, <1>2, <1>3
     DEF Next, CheckoutStep, LookupStep, StatusStep, FaultStep, vars, CheckReferral,
         CreateOrder, ReadCreated, ChargeWallet, ChargeOther, PersistPayment, SettleOrder,
         ClearCart, AcceptPaid, RefundWallet, FailPayment, FailOrder, AfterAccept, MarkPaid,
         CacheHit, CacheMiss, CacheFill, ReadBefore, UpdateFails, UpdateAccepts, UpdateSets,
         AwardCheck, PayPayout, StartActions, GrantAction, EndActions, VendorUpdate,
         InvalidateLines, StartEdit, UpdateProduct, RereadProduct, DeleteProduct,
         ForgetProduct, RestoreProduct, CacheExpires, AddToCart, RemoveFromCart,
         DeleteOrder, RestoreOrder, EditReferenceCode, PersistFails, RefundFails,
         AcceptAborts, AcceptUnseen, Restart

\* A checkout comes to the steps that follow the reservation from them or by
\* AcceptPaid only, and is answered as paid by the last of them.
LEMMA Positions ==
  ASSUME TypeInv, MoneyInv, [Next]_vars, NEW r \in Checkouts
  PROVE  /\ pc'[r] \in Reserving => pc[r] \in Reserving \/ (AcceptPaid(r) /\ CanAccept(r))
         /\ outcome'[r] = "succeeded" => outcome[r] = "succeeded" \/ pc[r] \in Reserving
<1> USE Kinds DEF TypeInv, TypeOK, HandlersOK, Goto, Proceed, Answer, Reserving
<1> DEFINE Fine ==
      /\ pc'[r] \in Reserving => pc[r] \in Reserving \/ (AcceptPaid(r) /\ CanAccept(r))
      /\ outcome'[r] = "succeeded" => outcome[r] = "succeeded" \/ pc[r] \in Reserving
<1>1. ASSUME NEW s \in Checkouts, Begin(s) \/ CheckReferral(s) \/ CreateOrder(s) \/ ReadCreated(s)
      PROVE  Fine
  BY <1>1 DEF localVars, Begin, CheckReferral, CreateOrder, ReadCreated
<1>2. ASSUME NEW s \in Checkouts,
             ChargeWallet(s) \/ ChargeOther(s) \/ PersistPayment(s) \/ SettleOrder(s)
      PROVE  Fine
  BY <1>2 DEF localVars, ChargeWallet, ChargeOther, PersistPayment, SettleOrder
<1>3. ASSUME NEW s \in Checkouts, ClearCart(s)
      PROVE  Fine
  BY <1>3 DEF localVars, ClearCart
<1>4. ASSUME NEW s \in Checkouts, AcceptPaid(s)
      PROVE  Fine
  BY <1>4 DEF localVars, AcceptPaid
<1>5. ASSUME NEW s \in Checkouts,
             RefundWallet(s) \/ FailPayment(s) \/ FailOrder(s) \/ AfterAccept(s) \/ MarkPaid(s)
      PROVE  Fine
  BY <1>5 DEF localVars, RefundWallet, FailPayment, FailOrder, AfterAccept, MarkPaid
<1>6. ASSUME NEW x \in Checkouts \cup Editors, LookupStep(x)
      PROVE  Fine
  BY <1>6 DEF LookupStep, CacheHit, CacheMiss, CacheFill, Got, KeepCopy, AddLine
<1>7. ASSUME NEW x \in Checkouts \cup StatusRequests, StatusStep(x)
      PROVE  Fine
  BY <1>7 DEF StatusStep, localVars, ReadBefore, UpdateFails, UpdateAccepts, UpdateSets, Wanted,
         AwardCheck, PayPayout, StartActions, GrantAction, EndActions
<1>8. ASSUME NEW a \in StatusRequests, StartStatus(a) \/ VendorUpdate(a) \/ InvalidateLines(a)
      PROVE  Fine
  BY <1>8 DEF localVars, StartStatus, VendorUpdate, InvalidateLines
<1>9. ASSUME NEW e \in Editors,
             StartEdit(e) \/ UpdateProduct(e) \/ RereadProduct(e) \/ DeleteProduct(e) \/ ForgetProduct(e)
      PROVE  Fine
  BY <1>9 DEF localVars, StartEdit, UpdateProduct, RereadProduct, DeleteProduct, ForgetProduct
<1>10. CASE UNCHANGED <<pc, outcome>>
  BY <1>10
<1>11. CASE FaultStep
  BY <1>11 DEF localVars, FaultStep, PersistFails, RefundFails, AcceptAborts, AcceptUnseen, Restart
<1> QED
  BY <1>1, <1>2, <1>3, <1>4, <1>5, <1>6, <1>7, <1>8, <1>9, <1>10, <1>11
     DEF Next, CheckoutStep, vars, localVars, RestoreProduct, CacheExpires, AddToCart,
         RemoveFromCart, DeleteOrder, RestoreOrder, EditReferenceCode

\* A status request is on the manager's path with a status managers send, and on
\* the vendors' path with one that vendors send.
JobStatuses ==
  \A a \in StatusRequests :
    /\ pc[a] \in {"before", "update"} => job[a].status \in ManagerStatuses
    /\ pc[a] = "vendor" => job[a].status \in VendorStatuses

LEMMA JobsStep == TypeInv /\ JobStatuses /\ [Next]_vars => JobStatuses'
<1> SUFFICES ASSUME TypeInv, JobStatuses, [Next]_vars, NEW a \in StatusRequests
             PROVE  /\ pc'[a] \in {"before", "update"} => job'[a].status \in ManagerStatuses
                    /\ pc'[a] = "vendor" => job'[a].status \in VendorStatuses
  BY DEF JobStatuses
<1> DEFINE Fine ==
      \/ pc'[a] \notin {"before", "update", "vendor"}
      \/ pc'[a] = pc[a] /\ job'[a] = job[a]
      \/ pc[a] = "before" /\ pc'[a] = "update" /\ job'[a] = job[a]
      \/ pc'[a] = "before" /\ job'[a].status \in ManagerStatuses
      \/ pc'[a] = "vendor" /\ job'[a].status \in VendorStatuses
<1> USE Kinds DEF TypeInv, TypeOK, HandlersOK, InputsOK, inputVars, Goto, Proceed, Answer
<1>1. ASSUME NEW r \in Checkouts, Begin(r) \/ CheckoutStep(r) PROVE Fine
  <2>1. pc'[a] = pc[a] /\ job'[a] = job[a]
    BY <1>1 DEF Begin, CheckoutStep, CheckReferral, CreateOrder, ReadCreated, ChargeWallet,
       ChargeOther, PersistPayment, SettleOrder, ClearCart, AcceptPaid, RefundWallet,
       FailPayment, FailOrder, AfterAccept, MarkPaid
  <2> QED BY <2>1
<1>2. ASSUME NEW x \in Checkouts \cup Editors, LookupStep(x) PROVE Fine
  <2>1. pc'[a] = pc[a] /\ job'[a] = job[a]
    BY <1>2 DEF LookupStep, CacheHit, CacheMiss, CacheFill, Got, KeepCopy, AddLine
  <2> QED BY <2>1
<1>3. ASSUME NEW x \in Checkouts \cup StatusRequests, ReadBefore(x) PROVE Fine
  BY <1>3 DEF ReadBefore
<1>4. ASSUME NEW x \in Checkouts \cup StatusRequests,
             UpdateFails(x) \/ UpdateAccepts(x) \/ UpdateSets(x) \/ AwardCheck(x)
             \/ PayPayout(x) \/ StartActions(x) \/ GrantAction(x) \/ EndActions(x)
      PROVE  Fine
  BY <1>4 DEF UpdateFails, UpdateAccepts, UpdateSets, AwardCheck, PayPayout, StartActions,
     GrantAction, EndActions
<1>5. ASSUME NEW b \in StatusRequests, StartStatus(b) PROVE Fine
  <2>1. CASE a # b
    <3>1. pc'[a] = pc[a] /\ job'[a] = job[a]
      BY <1>5, <2>1 DEF StartStatus
    <3> QED BY <3>1
  <2>2. CASE a = b
    <3>1. PICK o \in Checkouts, v \in Vendors \cup {Manager},
               s \in ManagerStatuses \cup VendorStatuses :
            /\ IF v = Manager THEN s \in ManagerStatuses
               ELSE s \in VendorStatuses /\ o \notin trashed /\ VendorLines(o, v) # {}
            /\ job' = [job EXCEPT ![a] =
                         [order |-> o, actor |-> v, status |-> s,
                          before |-> IF o \in trashed THEN Nil ELSE orders[o]]]
            /\ pc' = [pc EXCEPT ![a] = IF v = Manager THEN "before" ELSE "vendor"]
      BY ZenonT(30), <1>5, <2>2 DEF StartStatus
    <3>2. job'[a].status = s
      BY <3>1
    <3>3. pc'[a] = IF v = Manager THEN "before" ELSE "vendor"
      BY <3>1
    <3> QED BY <3>1, <3>2, <3>3
  <2> QED BY <2>1, <2>2
<1>6. ASSUME NEW b \in StatusRequests, VendorUpdate(b) \/ InvalidateLines(b) PROVE Fine
  BY <1>6 DEF VendorUpdate, InvalidateLines
<1>7. ASSUME NEW e \in Editors,
             StartEdit(e) \/ UpdateProduct(e) \/ RereadProduct(e) \/ DeleteProduct(e) \/ ForgetProduct(e)
      PROVE  Fine
  <2>1. pc'[a] = pc[a] /\ job'[a] = job[a]
    BY <1>7 DEF StartEdit, UpdateProduct, RereadProduct, DeleteProduct, ForgetProduct
  <2> QED BY <2>1
<1>8. ASSUME FaultStep PROVE Fine
  BY <1>8 DEF FaultStep, PersistFails, RefundFails, AcceptAborts, AcceptUnseen, Restart
<1>9. ASSUME UNCHANGED <<pc, job>> PROVE Fine
  BY <1>9
<1>10. Fine
  BY <1>1, <1>2, <1>3, <1>4, <1>5, <1>6, <1>7, <1>8, <1>9
     DEF Next, StatusStep, vars, inputVars, RestoreProduct, CacheExpires, AddToCart,
         RemoveFromCart, DeleteOrder, RestoreOrder, EditReferenceCode
<1> QED
  BY <1>10 DEF JobStatuses

-----------------------------------------------------------------------------
(* Who writes an order and its lines.                                      *)

\* An order and its lines are written by its own checkout, or by a request that
\* changes its status.
LEMMA OrderWritten ==
  ASSUME TypeInv, [Next]_vars, NEW r \in Checkouts
  PROVE  \/ lines'[r] = lines[r] /\ orders'[r] = orders[r]
         \/ CreateOrder(r)
         \/ pc[r] \in {"settle", "orderfail"}
         \/ pc[r] = "paid" /\ lines'[r] = lines[r]
         \/ pc[r] = "accept" /\ AcceptWithStockCheck(r)
         \/ \E x \in Checkouts \cup StatusRequests :
              /\ pc[x] = "update" /\ OrderOf(x) = r
              /\ AcceptWithStockCheck(r) \/ UpdateStatus(r, Wanted(x))
         \/ \E a \in StatusRequests :
              /\ pc[a] = "vendor" /\ job[a].order = r
              /\ UpdateVendorStatus(r, job[a].actor, job[a].status)
<1> USE DEF TypeInv, TypeOK, OrdersOK
<1> DEFINE Same == lines'[r] = lines[r] /\ orders'[r] = orders[r]
           Own == CreateOrder(r) \/ pc[r] \in {"settle", "orderfail"}
                  \/ (pc[r] = "paid" /\ lines'[r] = lines[r])
                  \/ (pc[r] = "accept" /\ AcceptWithStockCheck(r))
           ByUpdate == \E x \in Checkouts \cup StatusRequests :
                         /\ pc[x] = "update" /\ OrderOf(x) = r
                         /\ AcceptWithStockCheck(r) \/ UpdateStatus(r, Wanted(x))
           ByVendor == \E a \in StatusRequests :
                         /\ pc[a] = "vendor" /\ job[a].order = r
                         /\ UpdateVendorStatus(r, job[a].actor, job[a].status)
           Fine == Same \/ Own \/ ByUpdate \/ ByVendor
<1>1. ASSUME NEW s \in Checkouts, CreateOrder(s) PROVE Fine
  BY <1>1 DEF CreateOrder, WithLines
<1>2. ASSUME NEW s \in Checkouts, SettleOrder(s) PROVE Fine
  BY <1>2 DEF SettleOrder, TryStatus, UpdateStatus, WithLines
<1>3. ASSUME NEW s \in Checkouts, FailOrder(s) PROVE Fine
  BY <1>3 DEF FailOrder, TryStatus, UpdateStatus, WithLines
<1>4. ASSUME NEW s \in Checkouts, MarkPaid(s) PROVE Fine
  BY <1>4 DEF MarkPaid, TryStatus, UpdateStatus, LineWide
<1>5. ASSUME NEW s \in Checkouts, AcceptPaid(s) \/ AcceptUnseen(s) PROVE Fine
  <2>1. CASE UNCHANGED <<stock, orders, lines>>
    BY <2>1
  <2>2. CASE AcceptWithStockCheck(s) /\ pc[s] = "accept"
    <3>1. CASE s = r
      BY <2>2, <3>1
    <3>2. CASE s # r
      BY <2>2, <3>2 DEF AcceptWithStockCheck, WithLines
    <3> QED BY <3>1, <3>2
  <2> QED
    BY <1>5, <2>1, <2>2 DEF AcceptPaid, AcceptUnseen
<1>6. ASSUME NEW x \in Checkouts \cup StatusRequests, UpdateAccepts(x) PROVE Fine
  <2>1. CASE OrderOf(x) = r
    BY <1>6, <2>1 DEF UpdateAccepts
  <2>2. CASE OrderOf(x) # r
    BY <1>6, <2>2 DEF UpdateAccepts, AcceptWithStockCheck, WithLines
  <2> QED BY <2>1, <2>2
<1>7. ASSUME NEW x \in Checkouts \cup StatusRequests, UpdateSets(x) PROVE Fine
  <2>1. CASE OrderOf(x) = r
    BY <1>7, <2>1 DEF UpdateSets
  <2>2. CASE OrderOf(x) # r
    BY <1>7, <2>2 DEF UpdateSets, UpdateStatus, WithLines
  <2> QED BY <2>1, <2>2
<1>8. ASSUME NEW a \in StatusRequests, VendorUpdate(a) PROVE Fine
  <2>1. CASE UNCHANGED <<stock, orders, lines>>
    BY <2>1
  <2>2. CASE job[a].order = r
    BY <1>8, <2>1, <2>2 DEF VendorUpdate
  <2>3. CASE job[a].order # r
    BY <1>8, <2>3 DEF VendorUpdate, UpdateVendorStatus, WithLines
  <2> QED BY <2>1, <2>2, <2>3
<1>9. CASE UNCHANGED <<orders, lines>>
  BY <1>9
<1> QED
  BY <1>1, <1>2, <1>3, <1>4, <1>5, <1>6, <1>7, <1>8, <1>9
     DEF Next, CheckoutStep, LookupStep, StatusStep, FaultStep, vars, orderVars, Begin,
         CheckReferral, ReadCreated, ChargeWallet, ChargeOther, PersistPayment,
         ClearCart, RefundWallet, FailPayment, AfterAccept,
         CacheHit, CacheMiss, CacheFill, ReadBefore, UpdateFails,
         AwardCheck, PayPayout, StartActions, GrantAction, EndActions, StartStatus,
         InvalidateLines, StartEdit, UpdateProduct, RereadProduct, DeleteProduct,
         ForgetProduct, RestoreProduct, CacheExpires, AddToCart, RemoveFromCart,
         DeleteOrder, RestoreOrder, EditReferenceCode, PersistFails, RefundFails,
         AcceptAborts, Restart

-----------------------------------------------------------------------------
(* Sold lines hold their stock.                                            *)

\* Nobody sends a status that takes lines back from an order.
NobodyTakesBack ==
  /\ ManagerStatuses \cap {"cancelled", "failed", "rejected"} = {}
  /\ VendorStatuses \subseteq {"accepted", "completed"}

Holds(r) == \A p \in Lines(r) : lines[r][p] \in {"accepted", "completed"}

\* The lines are held from the reservation on.
HoldInv ==
  /\ \A r \in Checkouts : pc[r] \in Reserving \/ outcome[r] = "succeeded" => Holds(r)
  /\ JobStatuses

LEMMA HoldInit == Init => HoldInv
BY Kinds DEF Init, HoldInv, JobStatuses, Reserving

LEMMA HoldStep ==
  ASSUME NobodyTakesBack, TypeInv, MoneyInv, HoldInv, [Next]_vars
  PROVE  HoldInv'
<1> SUFFICES ASSUME NEW r \in Checkouts, pc'[r] \in Reserving \/ outcome'[r] = "succeeded"
             PROVE  Holds(r)'
  BY JobsStep DEF HoldInv
<1>0. lines \in [Checkouts -> [Products -> Statuses]]
  BY DEF TypeInv, TypeOK, OrdersOK
<1>1. CASE AcceptWithStockCheck(r) /\ req'[r] = req[r]
  BY <1>0, <1>1 DEF AcceptWithStockCheck, WithLines, Holds, Lines
<1>2. CASE AcceptPaid(r) /\ CanAccept(r)
  <2>1. AcceptWithStockCheck(r) /\ req' = req
    BY <1>2 DEF AcceptPaid, inputVars
  <2> QED
    BY <1>1, <2>1
<1>3. CASE pc[r] \in Reserving \/ outcome[r] = "succeeded"
  <2>1. /\ pc[r] \notin {"idle", "create", "settle", "orderfail"} /\ Holds(r)
    BY <1>3 DEF MoneyInv, MoneyAt, HoldInv, Reserving
  <2>2. req'[r] = req[r]
    BY <2>1, InputsStay
  <2>3. CASE lines'[r] = lines[r]
    BY <2>1, <2>2, <2>3 DEF Holds, Lines
  <2>4. ASSUME NEW x \in Checkouts \cup StatusRequests, pc[x] = "update",
               UpdateStatus(r, Wanted(x))
        PROVE  Holds(r)'
    <3>1. Wanted(x) \in LineWide => Wanted(x) = "completed"
      BY <2>4 DEF Wanted, HoldInv, JobStatuses, NobodyTakesBack, LineWide
    <3> QED
      BY <1>0, <2>1, <2>2, <2>4, <3>1 DEF UpdateStatus, WithLines, Holds, Lines
  <2>5. ASSUME NEW a \in StatusRequests, pc[a] = "vendor",
               UpdateVendorStatus(r, job[a].actor, job[a].status)
        PROVE  Holds(r)'
    <3>1. job[a].status \in {"accepted", "completed"}
      BY <2>5 DEF HoldInv, JobStatuses, NobodyTakesBack
    <3> QED
      BY <1>0, <2>1, <2>2, <2>5, <3>1 DEF UpdateVendorStatus, WithLines, Holds, Lines
  <2> QED
    BY <1>1, <2>1, <2>2, <2>3, <2>4, <2>5, OrderWritten DEF CreateOrder
<1> QED
  BY <1>2, <1>3, Positions

\* As long as nobody takes lines back, a checkout answered as paid holds stock
\* for every line, with stale cache entries, vendors and managers at work on the
\* order, the trash, failed statements and restarts.
THEOREM PaidHoldsStock == ASSUME NobodyTakesBack PROVE Spec => []SuccessHoldsStock
<1>1. HoldInv => SuccessHoldsStock
  BY DEF HoldInv, Holds, SuccessHoldsStock
<1>2. Init => TypeInv /\ MoneyInv /\ HoldInv
  BY TypeInit, MoneyInit, HoldInit
<1>3. TypeInv /\ MoneyInv /\ HoldInv /\ [Next]_vars => TypeInv' /\ MoneyInv' /\ HoldInv'
  BY TypeStep, MoneyStep, HoldStep
<1> QED
  BY <1>1, <1>2, <1>3, PTL DEF Spec

-----------------------------------------------------------------------------
(* Orders that vendors work on.                                            *)

\* The steps a checkout takes when it charges.
Charged ==
  {"charge", "persist", "settle", "accept", "refund", "payfail", "orderfail"} \cup Reserving

\* A POST /orders request never charges.
LEMMA NeverCharged ==
  ASSUME TypeInv, MoneyInv, [Next]_vars, NEW r \in Checkouts,
         req'[r].method = "order",
         req[r].method = "order" => pay[r] = "none" /\ pc[r] \notin Charged
  PROVE  pay'[r] = "none" /\ pc'[r] \notin Charged
<1> DEFINE Fine == pay'[r] = "none" /\ pc'[r] \notin Charged
<1>1. ASSUME Begin(r) PROVE Fine
  <2>1. pay[r] = "none"
    BY <1>1 DEF Begin, MoneyInv, MoneyAt, PreCharge
  <2> QED
    BY <1>1, <2>1, Kinds DEF Begin, localVars, TypeInv, TypeOK, HandlersOK, Goto, Charged,
       Reserving
<1>2. CASE ~Begin(r)
  <2>0. req'[r] = req[r]
    BY <1>2, InputsStay
  <2>1. req[r].method = "order" /\ pay[r] = "none" /\ pc[r] \notin Charged
    BY <2>0
  <2> USE Kinds DEF TypeInv, TypeOK, HandlersOK, Goto, Proceed, Answer, Charged, Reserving
  <2>2. ASSUME NEW s \in Checkouts, Begin(s) PROVE Fine
    BY <1>2, <2>1, <2>2 DEF Begin, localVars
  <2>3. ASSUME NEW s \in Checkouts, CheckReferral(s) \/ CreateOrder(s) \/ ReadCreated(s)
        PROVE  Fine
    BY <2>1, <2>3 DEF localVars, CheckReferral, CreateOrder, ReadCreated
  <2>4. ASSUME NEW s \in Checkouts,
               ChargeWallet(s) \/ ChargeOther(s) \/ PersistPayment(s) \/ SettleOrder(s)
        PROVE  Fine
    BY <2>1, <2>4 DEF localVars, ChargeWallet, ChargeOther, PersistPayment, SettleOrder, Paid, Debit
  <2>5. ASSUME NEW s \in Checkouts, ClearCart(s) PROVE Fine
    BY <2>1, <2>5 DEF localVars, ClearCart
  <2>6. ASSUME NEW s \in Checkouts,
               AcceptPaid(s) \/ RefundWallet(s) \/ FailPayment(s) \/ FailOrder(s)
               \/ AfterAccept(s) \/ MarkPaid(s)
        PROVE  Fine
    BY <2>1, <2>6 DEF localVars, AcceptPaid, RefundWallet, FailPayment, FailOrder, AfterAccept,
       MarkPaid
  <2>7. ASSUME NEW x \in Checkouts \cup Editors, LookupStep(x) PROVE Fine
    BY <2>1, <2>7 DEF LookupStep, CacheHit, CacheMiss, CacheFill, Got, KeepCopy, AddLine
  <2>8. ASSUME NEW x \in Checkouts \cup StatusRequests, StatusStep(x) PROVE Fine
    BY <2>1, <2>8 DEF StatusStep, localVars, ReadBefore, UpdateFails, UpdateAccepts, UpdateSets,
       AwardCheck, PayPayout, StartActions, GrantAction, EndActions
  <2>9. ASSUME NEW a \in StatusRequests, StartStatus(a) \/ VendorUpdate(a) \/ InvalidateLines(a)
        PROVE  Fine
    BY <2>1, <2>9 DEF localVars, StartStatus, VendorUpdate, InvalidateLines
  <2>10. ASSUME NEW e \in Editors,
               StartEdit(e) \/ UpdateProduct(e) \/ RereadProduct(e) \/ DeleteProduct(e)
               \/ ForgetProduct(e)
         PROVE  Fine
    BY <2>1, <2>10 DEF localVars, StartEdit, UpdateProduct, RereadProduct, DeleteProduct,
       ForgetProduct
  <2>11. ASSUME FaultStep PROVE Fine
    BY <2>1, <2>11 DEF localVars, FaultStep, PersistFails, RefundFails, AcceptAborts,
       AcceptUnseen, Restart
  <2>12. ASSUME UNCHANGED <<pc, pay>> PROVE Fine
    BY <2>1, <2>12
  <2> QED
    BY <2>2, <2>3, <2>4, <2>5, <2>6, <2>7, <2>8, <2>9, <2>10, <2>11, <2>12
       DEF Next, CheckoutStep, vars, localVars, RestoreProduct, CacheExpires, AddToCart,
           RemoveFromCart, DeleteOrder, RestoreOrder, EditReferenceCode
<1> QED BY <1>1, <1>2

\* Orders that were never charged, that no manager touches and that are not moved
\* to the trash have the status their lines give them.
AggregateInv ==
  /\ trashed \subseteq Trashable
  /\ JobStatuses
  /\ \A r \in Checkouts :
       req[r].method = "order" =>
         /\ pay[r] = "none" /\ pc[r] \notin Charged
         /\ orders[r] # "none" /\ r \notin Trashable =>
              orders[r] = Aggregate(Lines(r), lines[r])

LEMMA AggregateInit == Init => AggregateInv
BY Kinds DEF Init, AggregateInv, JobStatuses, Charged, Reserving

LEMMA AggregateStep ==
  ASSUME ManagerStatuses = {}, TypeInv, MoneyInv, AggregateInv, [Next]_vars
  PROVE  AggregateInv'
<1>1. trashed' \subseteq Trashable
  BY DEF AggregateInv, Next, CheckoutStep, LookupStep, StatusStep, FaultStep, vars, orderVars,
         Begin, CheckReferral,
         CreateOrder, ReadCreated, ChargeWallet, ChargeOther, PersistPayment, SettleOrder,
         ClearCart, AcceptPaid, RefundWallet, FailPayment, FailOrder, AfterAccept, MarkPaid,
         CacheHit, CacheMiss, CacheFill, ReadBefore, UpdateFails, UpdateAccepts, UpdateSets,
         AwardCheck, PayPayout, StartActions, GrantAction, EndActions, StartStatus, VendorUpdate,
         InvalidateLines, StartEdit, UpdateProduct, RereadProduct, DeleteProduct,
         ForgetProduct, RestoreProduct, CacheExpires, AddToCart, RemoveFromCart,
         DeleteOrder, RestoreOrder, EditReferenceCode, PersistFails, RefundFails,
         AcceptAborts, AcceptUnseen, Restart
<1>2. JobStatuses'
  BY JobsStep DEF AggregateInv
<1>3. ASSUME NEW r \in Checkouts, req'[r].method = "order"
      PROVE  pay'[r] = "none" /\ pc'[r] \notin Charged
  BY <1>3, NeverCharged DEF AggregateInv
<1>4. ASSUME NEW r \in Checkouts, req'[r].method = "order", orders'[r] # "none", r \notin Trashable
      PROVE  orders'[r] = Aggregate(Lines(r)', lines'[r])
  <2>0. /\ lines \in [Checkouts -> [Products -> Statuses]] /\ orders \in [Checkouts -> Statuses]
        /\ pc[r] # "idle" => req'[r] = req[r]
    BY InputsStay DEF TypeInv, TypeOK, OrdersOK
  <2>1. CASE CreateOrder(r)
    <3>1. /\ orders'[r] = "pending" /\ req'[r] = req[r]
          /\ \A p \in Lines(r) : lines'[r][p] = "pending"
      BY <2>0, <2>1 DEF CreateOrder, WithLines, Lines, inputVars
    <3>2. Lines(r)' = Lines(r)
      BY <3>1 DEF Lines
    <3> HIDE DEF Lines
    <3> QED
      BY <3>1, <3>2 DEF Aggregate
  <2>2. ASSUME NEW a \in StatusRequests, pc[a] = "vendor", job[a].order = r,
               UpdateVendorStatus(r, job[a].actor, job[a].status)
        PROVE  orders'[r] = Aggregate(Lines(r)', lines'[r])
    <3>1. pc[r] # "idle"
      BY <2>2 DEF TypeInv, JobInv
    <3>2. Lines(r)' = Lines(r)
      BY <2>0, <3>1 DEF Lines
    <3>3. r \notin trashed
      BY <1>4 DEF AggregateInv
    <3> QED
      BY <2>0, <2>2, <3>2, <3>3 DEF UpdateVendorStatus
  <2>3. CASE lines'[r] = lines[r] /\ orders'[r] = orders[r]
    <3>1. pc[r] # "idle"
      BY <1>4, <2>3 DEF TypeInv, JobInv
    <3>2. Lines(r)' = Lines(r) /\ req'[r] = req[r]
      BY <2>0, <3>1 DEF Lines
    <3> QED
      BY <1>4, <2>3, <3>2 DEF AggregateInv
  <2>4. pc[r] \notin {"settle", "orderfail", "paid", "accept", "update"}
    <3>1. CASE pc[r] = "idle"
      BY <3>1
    <3>2. CASE pc[r] # "idle"
      BY <1>4, <2>0, <3>2 DEF AggregateInv, Charged, Reserving
    <3> QED BY <3>1, <3>2
  <2>5. ASSUME NEW x \in Checkouts \cup StatusRequests, pc[x] = "update"
        PROVE  OrderOf(x) # r
    <3>1. x \in Checkouts
      BY <2>5 DEF AggregateInv, JobStatuses
    <3> QED
      BY <2>4, <2>5, <3>1 DEF OrderOf
  <2> QED
    BY <2>1, <2>2, <2>3, <2>4, <2>5, OrderWritten
<1> QED
  BY <1>1, <1>2, <1>3, <1>4 DEF AggregateInv

LEMMA AggregateInvariant == ASSUME ManagerStatuses = {} PROVE Spec => []AggregateInv
<1>1. Init => TypeInv /\ MoneyInv /\ AggregateInv
  BY TypeInit, MoneyInit, AggregateInit
<1>2. TypeInv /\ MoneyInv /\ AggregateInv /\ [Next]_vars
        => TypeInv' /\ MoneyInv' /\ AggregateInv'
  BY TypeStep, MoneyStep, AggregateStep
<1> QED
  BY <1>1, <1>2, PTL DEF Spec

\* While no manager sends statuses, an order from POST /orders that stays out of
\* the trash always has the status aggregateOrderStatus gives it, whatever its
\* vendors, other checkouts and failures do at the same time.
THEOREM VendorsGiveTheStatus ==
  ASSUME ManagerStatuses = {}
  PROVE  Spec => [](\A o \in Checkouts \ Trashable :
                      req[o].method = "order" /\ orders[o] # "none" =>
                        orders[o] = Aggregate(Lines(o), lines[o]))
<1>1. AggregateInv => \A o \in Checkouts \ Trashable :
                        req[o].method = "order" /\ orders[o] # "none" =>
                          orders[o] = Aggregate(Lines(o), lines[o])
  BY DEF AggregateInv
<1> QED
  BY <1>1, AggregateInvariant, PTL

\* So in a store with POST /orders only, no manager and no trash, every order has
\* the status of its lines.
THEOREM OrdersFollowTheirLines ==
  ASSUME ManagerStatuses = {}, Trashable = {}, Methods \subseteq {"order"}
  PROVE  Spec => []OrderStatusAggregates
<1> DEFINE Ordering == \A r \in Checkouts : req[r].method = "order"
<1>1. Init => Ordering
  BY DEF Init, NoRequest
<1>2. TypeInv /\ Ordering /\ [Next]_vars => Ordering'
  <2> SUFFICES ASSUME TypeInv, Ordering, [Next]_vars, NEW r \in Checkouts
               PROVE  req'[r].method = "order"
    OBVIOUS
  <2>1. CASE req'[r] = req[r]
    BY <2>1
  <2>2. CASE Begin(r)
    <3>1. PICK b \in Buyers, m \in Methods, it \in Baskets, ref \in Referrals :
             req' = [req EXCEPT ![r] =
                       [buyer |-> b, method |-> m, referral |-> ref, items |-> it]]
      BY <2>2 DEF Begin
    <3> QED
      BY <3>1 DEF TypeInv, TypeOK, InputsOK
  <2> QED
    BY <2>1, <2>2, InputsStay
<1>3. AggregateInv /\ Ordering => OrderStatusAggregates
  BY DEF AggregateInv, OrderStatusAggregates
<1> QED
  BY <1>1, <1>2, <1>3, TypeInit, TypeStep, AggregateInvariant, PTL DEF Spec
-----------------------------------------------------------------------------
(* Stock and the lines that hold it.                                       *)

\* No request writes a stock level over, and the orders' statuses are changed
\* by their checkouts only, or they are POST /orders requests whose vendors, or
\* else managers, accept them.
OneHand ==
  /\ Editors = {}
  /\ \/ ManagerStatuses = {} /\ VendorStatuses = {}
     \/ /\ Methods \subseteq {"order"}
        /\ \/ /\ ManagerStatuses = {}
              /\ VendorStatuses \subseteq {"accepted", "rejected", "pending"}
           \/ ManagerStatuses \subseteq {"accepted"} /\ VendorStatuses = {}

\* Before the order exists.
Early == {"idle", "resolve", "fill", "code", "create"}

\* From the order's creation to its reservation or its failure.
Unreserved == {"created", "charge", "persist", "settle", "clear", "accept", "refund",
               "payfail", "orderfail"}

\* A payment that is undone, for a reservation that failed or seemed to.
Undoing == {"refund", "payfail", "orderfail"}

Unheld(r, ps) == \A p \in ps : lines[r][p] \notin {"accepted", "completed"}

\* What the order of a checkout holds, by its status and the checkout's position.
LinesAt(r) ==
  /\ pc[r] \in Early => orders[r] = "none"
  /\ orders[r] = "none" => Unheld(r, Products)
  /\ req[r].method = "order" => pay[r] = "none" /\ pc[r] \notin Charged
  /\ Methods \subseteq {"order"} =>
       req[r].method = "order" /\ \A p \in Products : lines[r][p] # "completed"
  /\ VendorStatuses = {} =>
       IF orders[r] \in Reserved THEN Holds(r) ELSE Unheld(r, Lines(r))
  /\ pc[r] \in Reserving => orders[r] \in Reserved
  /\ req[r].method # "order" /\ pc[r] \in Unreserved
       /\ (faults = 0 \/ pc[r] \notin Undoing) => orders[r] \notin Reserved

\* A request that changes a status has an order that exists.
JobOrders ==
  \A a \in StatusRequests :
    pc[a] \in {"before", "update", "vendor"} => orders[job[a].order] # "none"

StockAt(p) ==
  IsFiniteSet(Held(p)) /\ stock[p] + Cardinality(Held(p)) = InitStock[p]

\* The inductive invariant of stock and lines.
BalanceInv ==
  /\ JobStatuses /\ JobOrders
  /\ \A r \in Checkouts : LinesAt(r)
  /\ faults = 0 \/ Methods \subseteq {"order"} =>
       \A p \in Products \ Unlimited : StockAt(p)

\* The units of one order.
LEMMA OneOrdersUnits ==
  ASSUME NEW q, NEW r, q[r] \in Nat
  PROVE  /\ IsFiniteSet({r} \X (1 .. q[r]))
         /\ Cardinality({r} \X (1 .. q[r])) = q[r]
<1>1. IsFiniteSet(1 .. q[r]) /\ Cardinality(1 .. q[r]) = q[r]
  BY SMTT(30), FS_Interval
<1>2. IsFiniteSet({r}) /\ Cardinality({r}) = 1
  BY FS_Singleton
<1>3. /\ IsFiniteSet({r} \X (1 .. q[r]))
      /\ Cardinality({r} \X (1 .. q[r])) = 1 * q[r]
  BY <1>1, <1>2, FS_Product
<1> QED
  BY <1>3

\* One more order adds its units.
LEMMA UnitsAdded ==
  ASSUME NEW q, NEW S, NEW r, r \notin S, q[r] \in Nat, IsFiniteSet(Units(q, S))
  PROVE  /\ IsFiniteSet(Units(q, S \cup {r}))
         /\ Cardinality(Units(q, S \cup {r})) = Cardinality(Units(q, S)) + q[r]
<1> DEFINE R == {r} \X (1 .. q[r])
           U == Units(q, S)
<1>1. IsFiniteSet(R) /\ Cardinality(R) = q[r]
  BY OneOrdersUnits
<1>2. Units(q, S \cup {r}) = U \cup R
  BY DEF Units
<1>3. U \cap R = {}
  BY DEF Units
<1> HIDE DEF R, U
<1>4. /\ IsFiniteSet(U \cup R)
      /\ Cardinality(U \cup R) = Cardinality(U) + Cardinality(R) - Cardinality({})
  BY <1>1, <1>3, FS_Union DEF U
<1>5. Cardinality({}) = 0 /\ Cardinality(U) \in Nat
  BY FS_EmptySet, FS_CardinalityType DEF U
<1>6. Cardinality(U \cup R) = Cardinality(U) + q[r]
  BY <1>1, <1>4, <1>5
<1> QED
  BY <1>2, <1>4, <1>6 DEF U

\* When one order begins or stops holding, the units held change by its own.
LEMMA UnitsChange ==
  ASSUME NEW q, NEW S, NEW T, NEW r, q[r] \in Nat, S \ {r} = T \ {r},
         IsFiniteSet(Units(q, S))
  PROVE  /\ IsFiniteSet(Units(q, T))
         /\ Cardinality(Units(q, S)) \in Nat /\ Cardinality(Units(q, T)) \in Nat
         /\ Cardinality(Units(q, T)) + (IF r \in S THEN q[r] ELSE 0)
              = Cardinality(Units(q, S)) + (IF r \in T THEN q[r] ELSE 0)
<1> DEFINE B == S \ {r}
<1>1. Units(q, B) \subseteq Units(q, S)
  BY DEF Units
<1>2. IsFiniteSet(Units(q, B))
  BY <1>1, FS_Subset
<1>3. r \notin B
  OBVIOUS
<1>4. /\ IsFiniteSet(Units(q, B \cup {r}))
      /\ Cardinality(Units(q, B \cup {r})) = Cardinality(Units(q, B)) + q[r]
  BY <1>2, <1>3, UnitsAdded
<1>5. Cardinality(Units(q, B)) \in Nat
  BY <1>2, FS_CardinalityType
<1>6. S = IF r \in S THEN B \cup {r} ELSE B
  OBVIOUS
<1>7. T = IF r \in T THEN B \cup {r} ELSE B
  OBVIOUS
<1> HIDE DEF B
<1>8. Cardinality(Units(q, S)) = Cardinality(Units(q, B)) + (IF r \in S THEN q[r] ELSE 0)
  <2>1. CASE r \in S
    <3>1. S = B \cup {r}
      BY <1>6, <2>1
    <3> QED
      BY <1>4, <2>1, <3>1
  <2>2. CASE r \notin S
    <3>1. S = B
      BY <1>6, <2>2
    <3> QED
      BY <1>5, <2>2, <3>1
  <2> QED
    BY <2>1, <2>2
<1>9. /\ IsFiniteSet(Units(q, T))
      /\ Cardinality(Units(q, T)) = Cardinality(Units(q, B)) + (IF r \in T THEN q[r] ELSE 0)
  <2>1. CASE r \in T
    <3>1. T = B \cup {r}
      BY <1>7, <2>1
    <3> QED
      BY <1>4, <2>1, <3>1
  <2>2. CASE r \notin T
    <3>1. T = B
      BY <1>7, <2>2
    <3> QED
      BY <1>2, <1>5, <2>2, <3>1
  <2> QED
    BY <2>1, <2>2
<1>10. Cardinality(Units(q, S)) \in Nat /\ Cardinality(Units(q, T)) \in Nat
  BY <1>9, FS_CardinalityType
<1> QED
  BY <1>5, <1>8, <1>9, <1>10

\* Orders that hold nothing may change what they ask for.
LEMMA UnitsSame ==
  ASSUME NEW q, NEW s, NEW S, \A r \in S : s[r] = q[r]
  PROVE  Units(s, S) = Units(q, S)
BY DEF Units

\* A checkout comes to the steps around its payment from them or by creating its
\* order, and never goes back to where it has none.
LEMMA Moves ==
  ASSUME TypeInv, [Next]_vars, NEW r \in Checkouts
  PROVE  /\ pc'[r] \in Early => pc[r] \in Early
         /\ pc'[r] \in Unreserved => pc[r] \in Unreserved \/ CreateOrder(r)
         /\ pc'[r] \in Unreserved /\ pc[r] \in Undoing => pc'[r] \in Undoing
<1> USE Kinds DEF TypeInv, TypeOK, HandlersOK, Goto, Proceed, Answer, Early, Unreserved,
      Undoing
<1> DEFINE Fine ==
      /\ pc'[r] \in Early => pc[r] \in Early
      /\ pc'[r] \in Unreserved => pc[r] \in Unreserved \/ CreateOrder(r)
      /\ pc'[r] \in Unreserved /\ pc[r] \in Undoing => pc'[r] \in Undoing
<1>1. ASSUME NEW s \in Checkouts, Begin(s) \/ CheckReferral(s) PROVE Fine
  BY <1>1 DEF Begin, CheckReferral
<1>2. ASSUME NEW s \in Checkouts, CreateOrder(s) PROVE Fine
  <2>1. CASE s = r
    BY <1>2, <2>1 DEF CreateOrder
  <2>2. CASE s # r
    BY <1>2, <2>2 DEF CreateOrder
  <2> QED
    BY <2>1, <2>2
<1>3. ASSUME NEW s \in Checkouts,
             ReadCreated(s) \/ ChargeWallet(s) \/ ChargeOther(s) \/ PersistPayment(s)
             \/ SettleOrder(s) \/ ClearCart(s)
      PROVE  Fine
  BY <1>3 DEF ReadCreated, ChargeWallet, ChargeOther, PersistPayment, SettleOrder, ClearCart
<1>4. ASSUME NEW s \in Checkouts, AcceptPaid(s) PROVE Fine
  BY <1>4 DEF AcceptPaid
<1>5. ASSUME NEW s \in Checkouts,
             RefundWallet(s) \/ FailPayment(s) \/ FailOrder(s) \/ AfterAccept(s) \/ MarkPaid(s)
      PROVE  Fine
  BY <1>5 DEF RefundWallet, FailPayment, FailOrder, AfterAccept, MarkPaid
<1>6. ASSUME NEW x \in Checkouts \cup Editors, LookupStep(x) PROVE Fine
  BY <1>6 DEF LookupStep, CacheHit, CacheMiss, CacheFill, Got, KeepCopy, AddLine
<1>7. ASSUME NEW x \in Checkouts \cup StatusRequests, StatusStep(x) PROVE Fine
  BY <1>7 DEF StatusStep, ReadBefore, UpdateFails, UpdateAccepts, UpdateSets, Wanted,
     AwardCheck, PayPayout, StartActions, GrantAction, EndActions
<1>8. ASSUME NEW a \in StatusRequests, StartStatus(a) \/ VendorUpdate(a) \/ InvalidateLines(a)
      PROVE  Fine
  BY <1>8 DEF StartStatus, VendorUpdate, InvalidateLines
<1>9. ASSUME NEW e \in Editors,
             StartEdit(e) \/ UpdateProduct(e) \/ RereadProduct(e) \/ DeleteProduct(e) \/ ForgetProduct(e)
      PROVE  Fine
  BY <1>9 DEF StartEdit, UpdateProduct, RereadProduct, DeleteProduct, ForgetProduct
<1>10. ASSUME pc' = pc PROVE Fine
  BY <1>10
<1>11. ASSUME FaultStep PROVE Fine
  BY <1>11 DEF FaultStep, PersistFails, RefundFails, AcceptAborts, AcceptUnseen, Restart
<1> QED
  BY <1>1, <1>2, <1>3, <1>4, <1>5, <1>6, <1>7, <1>8, <1>9, <1>10, <1>11
     DEF Next, CheckoutStep, vars, RestoreProduct, CacheExpires, AddToCart,
         RemoveFromCart, DeleteOrder, RestoreOrder, EditReferenceCode

\* The steps that write an order, its lines or the stock they hold.
WritesLines(r) ==
  \/ CreateOrder(r)
  \/ SettleOrder(r)
  \/ FailOrder(r)
  \/ MarkPaid(r)
  \/ AcceptPaid(r) /\ AcceptWithStockCheck(r)
  \/ AcceptUnseen(r)
  \/ \E x \in Checkouts \cup StatusRequests :
       OrderOf(x) = r /\ (UpdateAccepts(x) \/ UpdateSets(x))
  \/ \E a \in StatusRequests :
       /\ job[a].order = r
       /\ VendorUpdate(a) /\ UpdateVendorStatus(r, job[a].actor, job[a].status)

\* Each of them writes one order only, and decodes no request.
OnlyOrder(r) ==
  /\ req' = req
  /\ \A o \in Checkouts \ {r} : orders'[o] = orders[o] /\ lines'[o] = lines[o]

LEMMA LinesWritten ==
  ASSUME TypeInv, Editors = {}, [Next]_vars
  PROVE  \/ UNCHANGED <<stock, orders, lines>>
         \/ \E r \in Checkouts : WritesLines(r) /\ OnlyOrder(r)
<1> DEFINE Fine == \/ UNCHANGED <<stock, orders, lines>>
                   \/ \E r \in Checkouts : WritesLines(r) /\ OnlyOrder(r)
<1>0. /\ orders \in [Checkouts -> Statuses]
      /\ lines \in [Checkouts -> [Products -> Statuses]]
  BY DEF TypeInv, TypeOK, OrdersOK
<1>1. ASSUME NEW r \in Checkouts, CreateOrder(r) PROVE Fine
  <2>1. OnlyOrder(r)
    BY <1>0, <1>1 DEF CreateOrder, WithLines, OnlyOrder, inputVars
  <2> QED
    BY <1>1, <2>1 DEF WritesLines
<1>2. ASSUME NEW r \in Checkouts, NEW s, TryStatus(r, s), req' = req PROVE OnlyOrder(r)
  BY <1>0, <1>2 DEF TryStatus, UpdateStatus, WithLines, OnlyOrder
<1>3. ASSUME NEW r \in Checkouts, SettleOrder(r) PROVE Fine
  <2>1. req' = req /\ (UNCHANGED <<orders, lines>> \/ \E s \in Statuses : TryStatus(r, s))
    BY <1>3 DEF SettleOrder, inputVars, Statuses
  <2>2. OnlyOrder(r)
    BY <1>2, <2>1 DEF OnlyOrder
  <2> QED
    BY <1>3, <2>2 DEF WritesLines
<1>4. ASSUME NEW r \in Checkouts, FailOrder(r) \/ MarkPaid(r) PROVE Fine
  <2>1. req' = req /\ \E s \in Statuses : TryStatus(r, s)
    BY <1>4 DEF FailOrder, MarkPaid, inputVars, Statuses
  <2>2. OnlyOrder(r)
    BY <1>2, <2>1
  <2> QED
    BY <1>4, <2>2 DEF WritesLines
<1>5. ASSUME NEW r \in Checkouts, AcceptWithStockCheck(r), req' = req PROVE OnlyOrder(r)
  BY <1>0, <1>5 DEF AcceptWithStockCheck, WithLines, OnlyOrder
<1>6. ASSUME NEW r \in Checkouts, AcceptPaid(r) PROVE Fine
  <2>1. req' = req /\ (AcceptWithStockCheck(r) \/ UNCHANGED <<stock, orders, lines>>)
    BY <1>6 DEF AcceptPaid, inputVars
  <2> QED
    BY <1>5, <1>6, <2>1 DEF WritesLines
<1>7. ASSUME NEW r \in Checkouts, AcceptUnseen(r) PROVE Fine
  <2>1. req' = req /\ AcceptWithStockCheck(r)
    BY <1>7 DEF AcceptUnseen, inputVars
  <2> QED
    BY <1>5, <1>7, <2>1 DEF WritesLines
<1>8. ASSUME NEW x \in Checkouts \cup StatusRequests, UpdateAccepts(x) PROVE Fine
  <2>1. OrderOf(x) \in Checkouts
    BY <1>8, OrderOfType DEF UpdateAccepts, TypeInv
  <2>2. req' = req /\ AcceptWithStockCheck(OrderOf(x))
    BY <1>8 DEF UpdateAccepts, inputVars
  <2> QED
    BY <1>5, <1>8, <2>1, <2>2 DEF WritesLines
<1>9. ASSUME NEW x \in Checkouts \cup StatusRequests, UpdateSets(x) PROVE Fine
  <2>1. OrderOf(x) \in Checkouts
    BY <1>9, OrderOfType DEF UpdateSets, TypeInv
  <2>2. req' = req /\ UpdateStatus(OrderOf(x), Wanted(x))
    BY <1>9 DEF UpdateSets, inputVars
  <2>3. OnlyOrder(OrderOf(x))
    BY <1>0, <2>1, <2>2 DEF UpdateStatus, WithLines, OnlyOrder
  <2> QED
    BY <1>9, <2>1, <2>3 DEF WritesLines
<1>10. ASSUME NEW a \in StatusRequests, VendorUpdate(a) PROVE Fine
  <2>1. job[a].order \in Checkouts
    BY <1>10 DEF VendorUpdate, TypeInv, JobInv
  <2>2. \/ UNCHANGED <<stock, orders, lines>>
        \/ req' = req /\ UpdateVendorStatus(job[a].order, job[a].actor, job[a].status)
    BY <1>10 DEF VendorUpdate, inputVars
  <2>3. CASE req' = req /\ UpdateVendorStatus(job[a].order, job[a].actor, job[a].status)
    <3>1. OnlyOrder(job[a].order)
      BY <1>0, <2>1, <2>3 DEF UpdateVendorStatus, WithLines, OnlyOrder
    <3> QED
      BY <1>10, <2>1, <2>3, <3>1 DEF WritesLines
  <2> QED
    BY <2>2, <2>3
<1>11. CASE UNCHANGED <<stock, orders, lines>>
  BY <1>11
<1> QED
  BY ZenonT(30), <1>1, <1>3, <1>4, <1>6, <1>7, <1>8, <1>9, <1>10, <1>11
     DEF Next, CheckoutStep, LookupStep, StatusStep, FaultStep, vars, catalogVars, orderVars,
         Begin, CheckReferral, ReadCreated, ChargeWallet, ChargeOther, PersistPayment,
         ClearCart, RefundWallet, FailPayment, AfterAccept,
         CacheHit, CacheMiss, CacheFill, ReadBefore, UpdateFails,
         AwardCheck, PayPayout, StartActions, GrantAction, EndActions, StartStatus,
         InvalidateLines, RestoreProduct, CacheExpires, AddToCart, RemoveFromCart,
         DeleteOrder, RestoreOrder, EditReferenceCode, PersistFails, RefundFails,
         AcceptAborts, Restart

\* Initially nothing is held and the stock is complete.
LEMMA BalanceInit == Init => BalanceInv
<1> SUFFICES ASSUME Init PROVE BalanceInv
  OBVIOUS
<1>1. JobStatuses /\ JobOrders
  BY Kinds DEF Init, JobStatuses, JobOrders
<1>2. ASSUME NEW r \in Checkouts PROVE LinesAt(r)
  <2>1. /\ pc[r] = "idle" /\ orders[r] = "none" /\ pay[r] = "none"
        /\ req[r].method = "order" /\ \A p \in Products : lines[r][p] = "none"
    BY Kinds DEF Init, NoRequest
  <2>2. Lines(r) \subseteq Products
    BY DEF Lines
  <2> QED
    BY <2>1, <2>2 DEF LinesAt, Unreserved, Unheld, Charged, Reserving, Reserved
<1>3. ASSUME NEW p \in Products PROVE StockAt(p)
  <2>1. Holders(p) = {}
    BY <1>3 DEF Init, Holders
  <2>2. Held(p) = {}
    BY <2>1 DEF Held, Units
  <2>3. stock[p] = InitStock[p] /\ InitStock[p] \in Nat
    BY <1>3, StoreAssumption DEF Init, StoreAssumption
  <2> QED
    BY <2>2, <2>3, FS_EmptySet DEF StockAt
<1> QED
  BY <1>1, <1>2, <1>3 DEF BalanceInv

\* Where only the checkouts change orders, their own steps write them.
LEMMA OwnSteps ==
  ASSUME BalanceInv, ManagerStatuses = {}, VendorStatuses = {},
         NEW r \in Checkouts, WritesLines(r)
  PROVE  \/ CreateOrder(r) \/ SettleOrder(r) \/ FailOrder(r) \/ MarkPaid(r)
         \/ AcceptPaid(r) /\ AcceptWithStockCheck(r)
         \/ AcceptUnseen(r)
         \/ pc[r] = "update" /\ r \notin trashed /\ UpdateStatus(r, "completed")
<1>1. ASSUME NEW x \in Checkouts \cup StatusRequests, OrderOf(x) = r,
             UpdateAccepts(x) \/ UpdateSets(x)
      PROVE  pc[r] = "update" /\ r \notin trashed /\ UpdateStatus(r, "completed")
  <2>1. pc[x] = "update"
    BY <1>1 DEF UpdateAccepts, UpdateSets
  <2>2. x \in Checkouts
    BY <1>1, <2>1 DEF BalanceInv, JobStatuses
  <2> QED
    BY <1>1, <2>1, <2>2 DEF OrderOf, Wanted, UpdateAccepts, UpdateSets
<1>2. ASSUME NEW a \in StatusRequests, VendorUpdate(a) PROVE FALSE
  BY <1>2 DEF VendorUpdate, BalanceInv, JobStatuses
<1> QED
  BY <1>1, <1>2 DEF WritesLines

\* Where every request is a POST /orders, a checkout only creates its order.
LEMMA OthersSteps ==
  ASSUME TypeInv, MoneyInv, BalanceInv, Methods \subseteq {"order"},
         NEW r \in Checkouts, WritesLines(r)
  PROVE  \/ CreateOrder(r)
         \/ \E x \in StatusRequests :
              /\ pc[x] = "update" /\ job[x].order = r /\ r \notin trashed
              /\ \/ job[x].status = "accepted" /\ AcceptWithStockCheck(r)
                 \/ job[x].status # "accepted" /\ UpdateStatus(r, job[x].status)
         \/ \E a \in StatusRequests :
              /\ pc[a] = "vendor" /\ job[a].order = r
              /\ UpdateVendorStatus(r, job[a].actor, job[a].status)
<1>1. pc[r] \notin Charged
  BY DEF BalanceInv, LinesAt
<1>2. ~SettleOrder(r) /\ ~FailOrder(r) /\ ~MarkPaid(r) /\ ~AcceptPaid(r) /\ ~AcceptUnseen(r)
  BY <1>1 DEF SettleOrder, FailOrder, MarkPaid, AcceptPaid, AcceptUnseen, Charged, Reserving
<1>3. ASSUME NEW x \in Checkouts \cup StatusRequests, OrderOf(x) = r,
             UpdateAccepts(x) \/ UpdateSets(x)
      PROVE  /\ x \in StatusRequests /\ pc[x] = "update" /\ job[x].order = r /\ r \notin trashed
             /\ \/ job[x].status = "accepted" /\ AcceptWithStockCheck(r)
                \/ job[x].status # "accepted" /\ UpdateStatus(r, job[x].status)
  <2>1. pc[x] = "update"
    BY <1>3 DEF UpdateAccepts, UpdateSets
  <2>2. x \notin Checkouts
    BY <1>1, <1>3, <2>1 DEF OrderOf, Charged, Reserving
  <2> QED
    BY <1>3, <2>1, <2>2 DEF OrderOf, Wanted, UpdateAccepts, UpdateSets, CanAccept
<1>4. ASSUME NEW a \in StatusRequests, VendorUpdate(a) PROVE pc[a] = "vendor"
  BY <1>4 DEF VendorUpdate
<1> QED
  BY <1>2, <1>3, <1>4 DEF WritesLines

\* A row that a step leaves alone keeps what it holds.
LEMMA LinesStay ==
  ASSUME TypeInv, MoneyInv, BalanceInv, [Next]_vars, NEW r \in Checkouts,
         orders'[r] = orders[r], lines'[r] = lines[r],
         req'[r].method = "order" => pay'[r] = "none" /\ pc'[r] \notin Charged,
         Methods \subseteq {"order"} => req'[r].method = "order",
         faults' = 0 => faults = 0
  PROVE  LinesAt(r)'
<1>0. LinesAt(r)
  BY DEF BalanceInv
<1>1. pc'[r] \in Early => orders'[r] = "none"
  BY <1>0, Moves DEF LinesAt
<1>2. orders'[r] = "none" => Unheld(r, Products)'
  BY <1>0 DEF LinesAt, Unheld
<1>3. VendorStatuses = {} =>
        IF orders'[r] \in Reserved THEN Holds(r)' ELSE Unheld(r, Lines(r))'
  <2>1. CASE pc[r] = "idle"
    <3>1. orders[r] = "none" /\ Unheld(r, Products)
      BY <1>0, <2>1 DEF LinesAt, Early
    <3> QED
      BY <3>1 DEF Reserved, Unheld, Lines
  <2>2. CASE pc[r] # "idle"
    <3>1. Lines(r)' = Lines(r)
      BY <2>2, InputsStay DEF Lines
    <3> QED
      BY <1>0, <3>1 DEF LinesAt, Unheld, Holds
  <2> QED
    BY <2>1, <2>2
<1>4. pc'[r] \in Reserving => orders'[r] \in Reserved
  <2>1. CASE AcceptPaid(r) /\ CanAccept(r)
    <3>1. orders'[r] = "accepted"
      BY <2>1, Kinds DEF AcceptPaid, AcceptWithStockCheck, Goto, TypeInv, TypeOK, OrdersOK
    <3> QED
      BY <3>1 DEF Reserved
  <2> QED
    BY <1>0, <2>1, Positions DEF LinesAt
<1>5. req'[r].method # "order" /\ pc'[r] \in Unreserved
        /\ (faults' = 0 \/ pc'[r] \notin Undoing) => orders'[r] \notin Reserved
  <2> SUFFICES ASSUME req'[r].method # "order", pc'[r] \in Unreserved,
                      faults' = 0 \/ pc'[r] \notin Undoing
               PROVE  orders'[r] \notin Reserved
    OBVIOUS
  <2>1. CASE CreateOrder(r)
    BY <1>0, <2>1 DEF CreateOrder, LinesAt, Early, Reserved
  <2>2. CASE pc[r] \in Unreserved
    <3>1. req'[r] = req[r]
      BY <2>2, InputsStay DEF Unreserved
    <3>2. faults = 0 \/ pc[r] \notin Undoing
      BY Moves
    <3> QED
      BY <1>0, <2>2, <3>1, <3>2 DEF LinesAt
  <2> QED
    BY <2>1, <2>2, Moves
<1>6. Methods \subseteq {"order"} => \A p \in Products : lines'[r][p] # "completed"
  BY <1>0 DEF LinesAt
<1> QED
  BY <1>1, <1>2, <1>3, <1>4, <1>5, <1>6 DEF LinesAt

\* What the transactions leave in an order's row and its lines.
LEMMA StatusSet ==
  ASSUME TypeInv, NEW r \in Checkouts, NEW s, UpdateStatus(r, s), req' = req
  PROVE  /\ orders'[r] = s /\ Lines(r)' = Lines(r)
         /\ s \in LineWide => \A p \in Lines(r) : lines'[r][p] = s
         /\ s \notin LineWide => lines'[r] = lines[r]
         /\ \A p \in Products \ Lines(r) : lines'[r][p] = lines[r][p]
BY DEF TypeInv, TypeOK, OrdersOK, UpdateStatus, WithLines, Lines

LEMMA AcceptSet ==
  ASSUME TypeInv, NEW r \in Checkouts, AcceptWithStockCheck(r), req' = req
  PROVE  /\ orders'[r] = "accepted" /\ Lines(r)' = Lines(r)
         /\ \A p \in Lines(r) : lines'[r][p] = "accepted"
         /\ \A p \in Products \ Lines(r) : lines'[r][p] = lines[r][p]
BY DEF TypeInv, TypeOK, OrdersOK, AcceptWithStockCheck, WithLines, Lines

\* A new order holds nothing.
LEMMA CreateLines ==
  ASSUME TypeInv, BalanceInv, NEW r \in Checkouts, CreateOrder(r),
         req'[r].method = "order" => pay'[r] = "none" /\ pc'[r] \notin Charged,
         Methods \subseteq {"order"} => req'[r].method = "order"
  PROVE  LinesAt(r)'
<1>1. LinesAt(r) /\ pc[r] = "create" /\ Unheld(r, Products)
  BY DEF BalanceInv, LinesAt, CreateOrder, Early
<1>2. orders'[r] = "pending" /\ pc'[r] = "created"
  BY Kinds DEF TypeInv, TypeOK, OrdersOK, HandlersOK, CreateOrder, Goto
<1>3. \A p \in Products : lines'[r][p] = IF p \in Lines(r) THEN "pending" ELSE lines[r][p]
  BY DEF TypeInv, TypeOK, OrdersOK, CreateOrder, WithLines
<1>4. Lines(r)' = Lines(r) /\ Lines(r) \subseteq Products
  BY DEF CreateOrder, inputVars, Lines
<1>5. Unheld(r, Lines(r))'
  BY <1>3, <1>4 DEF Unheld
<1>6. Methods \subseteq {"order"} => \A p \in Products : lines'[r][p] # "completed"
  BY <1>1, <1>3 DEF LinesAt
<1> QED
  BY <1>2, <1>5, <1>6 DEF LinesAt, Early, Reserved, Reserving, Undoing

\* The steps a checkout takes on its own order.
LEMMA OwnLines ==
  ASSUME TypeInv, MoneyInv, BalanceInv, [Next]_vars, ManagerStatuses = {}, VendorStatuses = {},
         NEW r \in Checkouts, WritesLines(r), req' = req,
         req'[r].method = "order" => pay'[r] = "none" /\ pc'[r] \notin Charged,
         Methods \subseteq {"order"} => req'[r].method = "order",
         faults' = 0 => faults = 0
  PROVE  LinesAt(r)'
<1>0. LinesAt(r)
  BY DEF BalanceInv
<1>1. CASE CreateOrder(r)
  BY <1>1, CreateLines
<1>2. CASE pc[r] \in {"settle", "accept", "orderfail", "paid", "update"}
  <2>1. req[r].method # "order" /\ ~(Methods \subseteq {"order"})
    BY <1>0, <1>2 DEF LinesAt, Charged, Reserving
  <2>2. CASE orders'[r] = orders[r] /\ lines'[r] = lines[r]
    BY <2>2, LinesStay
  <2>3. CASE SettleOrder(r)
    <3>1. pc[r] = "settle" /\ pc'[r] = "clear"
      BY <2>3, Kinds DEF SettleOrder, Goto, TypeInv, TypeOK, HandlersOK
    <3>2. orders[r] \notin Reserved /\ Unheld(r, Lines(r))
      BY <1>0, <2>1, <3>1 DEF LinesAt, Unreserved, Undoing
    <3>3. ASSUME NEW s \in {"failed", "pending"}, UpdateStatus(r, s)
          PROVE  LinesAt(r)'
      <4>1. orders'[r] = s /\ Unheld(r, Lines(r))'
        BY <3>2, <3>3, StatusSet DEF Unheld, LineWide
      <4> QED
        BY <2>1, <3>1, <4>1 DEF LinesAt, Early, Reserved, Reserving
    <3> QED
      BY <2>2, <2>3, <3>3 DEF SettleOrder, TryStatus
  <2>4. CASE FailOrder(r)
    <3>1. pc'[r] = "done"
      BY <2>4, Kinds DEF FailOrder, Answer, Goto, TypeInv, TypeOK, HandlersOK
    <3>2. ASSUME UpdateStatus(r, "failed")
          PROVE  LinesAt(r)'
      <4>1. orders'[r] = "failed" /\ Unheld(r, Lines(r))'
        BY <3>2, StatusSet DEF Unheld, LineWide
      <4> QED
        BY <2>1, <3>1, <4>1 DEF LinesAt, Early, Reserved, Reserving, Unreserved
    <3> QED
      BY <2>2, <2>4, <3>2 DEF FailOrder, TryStatus
  <2>5. CASE pc[r] \in {"paid", "update"} /\ \E s \in {"paid", "completed"} : UpdateStatus(r, s)
    <3>1. orders[r] \in Reserved /\ Holds(r)
      BY <1>0, <2>5 DEF LinesAt, Reserving
    <3>2. orders'[r] \in Reserved /\ Holds(r)'
      BY <2>5, <3>1, StatusSet DEF Holds, LineWide, Reserved
    <3>3. pc'[r] \notin Early /\ pc'[r] \notin Unreserved
      BY <2>5, Moves DEF Early, Unreserved, CreateOrder
    <3> QED
      BY <2>1, <3>2, <3>3 DEF LinesAt, Reserved
  <2>6. CASE AcceptWithStockCheck(r) /\ pc[r] = "accept" /\ pc'[r] = "accepted"
    <3>1. orders'[r] = "accepted" /\ Holds(r)'
      BY <2>6, AcceptSet DEF Holds
    <3> QED
      BY <2>1, <2>6, <3>1 DEF LinesAt, Early, Reserved, Unreserved
  <2>7. CASE AcceptUnseen(r)
    <3>1. orders'[r] = "accepted" /\ Holds(r)'
      BY <2>7, AcceptSet DEF AcceptUnseen, Holds
    <3>2. pc'[r] = "refund" /\ faults' # 0
      BY <2>7, Kinds DEF AcceptUnseen, Fault, Goto, TypeInv, TypeOK, HandlersOK, OthersOK
    <3> QED
      BY <2>1, <3>1, <3>2 DEF LinesAt, Early, Reserved, Reserving, Undoing
  <2>8. MarkPaid(r) => pc[r] = "paid" /\ (UpdateStatus(r, "paid") \/ UNCHANGED <<orders, lines>>)
    BY DEF MarkPaid, TryStatus
  <2>9. AcceptPaid(r) /\ AcceptWithStockCheck(r) =>
          \/ pc[r] = "accept" /\ pc'[r] = "accepted"
          \/ UNCHANGED <<orders, lines>>
    BY Kinds DEF AcceptPaid, Goto, TypeInv, TypeOK, HandlersOK
  <2> QED
    BY <1>2, <2>2, <2>3, <2>4, <2>5, <2>6, <2>7, <2>8, <2>9, OwnSteps DEF CreateOrder
<1> QED
  BY <1>1, <1>2, OwnSteps DEF SettleOrder, FailOrder, MarkPaid, AcceptPaid, AcceptUnseen

\* What vendors, or managers that accept, do to an order from POST /orders.
LEMMA OthersLines ==
  ASSUME OneHand, TypeInv, MoneyInv, BalanceInv, [Next]_vars, Methods \subseteq {"order"},
         NEW r \in Checkouts, WritesLines(r), req' = req,
         req'[r].method = "order" => pay'[r] = "none" /\ pc'[r] \notin Charged,
         req'[r].method = "order"
  PROVE  LinesAt(r)'
<1>0. LinesAt(r) /\ pc'[r] \notin Reserving
  BY DEF BalanceInv, Charged
<1>1. CASE CreateOrder(r)
  BY <1>1, CreateLines
<1>2. ASSUME NEW x \in StatusRequests, pc[x] = "update", job[x].order = r,
             \/ job[x].status = "accepted" /\ AcceptWithStockCheck(r)
             \/ job[x].status # "accepted" /\ UpdateStatus(r, job[x].status)
      PROVE  LinesAt(r)'
  <2>1. job[x].status \in ManagerStatuses /\ orders[r] # "none"
    BY <1>2 DEF BalanceInv, JobStatuses, JobOrders
  <2>2. AcceptWithStockCheck(r)
    BY <1>2, <2>1 DEF OneHand
  <2>3. orders'[r] = "accepted" /\ Holds(r)'
    BY <2>2, AcceptSet DEF Holds
  <2>4. \A p \in Products : lines'[r][p] # "completed"
    BY <1>0, <2>2, AcceptSet DEF LinesAt
  <2>5. pc'[r] \notin Early
    BY <1>0, <2>1, Moves DEF LinesAt
  <2> QED
    BY <1>0, <2>3, <2>4, <2>5 DEF LinesAt, Reserved
<1>3. ASSUME NEW a \in StatusRequests, pc[a] = "vendor", job[a].order = r,
             UpdateVendorStatus(r, job[a].actor, job[a].status)
      PROVE  LinesAt(r)'
  <2>1. job[a].status \in VendorStatuses /\ orders[r] # "none"
    BY <1>3 DEF BalanceInv, JobStatuses, JobOrders
  <2>2. job[a].status \in {"accepted", "rejected", "pending"} /\ VendorStatuses # {}
    BY <2>1 DEF OneHand
  <2>3. \A p \in Products : lines'[r][p] # "completed"
    BY <1>0, <1>3, <2>2 DEF LinesAt, UpdateVendorStatus, WithLines, TypeInv, TypeOK, OrdersOK
  <2>4. orders'[r] # "none"
    BY <1>3, <2>1 DEF UpdateVendorStatus, Aggregate, TypeInv, TypeOK, OrdersOK
  <2>5. pc'[r] \notin Early
    BY <1>0, <2>1, Moves DEF LinesAt
  <2> QED
    BY <1>0, <2>2, <2>3, <2>4, <2>5 DEF LinesAt
<1> QED
  BY <1>1, <1>2, <1>3, OthersSteps

\* Failures are not forgotten.
LEMMA FaultsStay == TypeInv /\ [Next]_vars => (faults' = 0 => faults = 0)
<1> SUFFICES ASSUME TypeInv, [Next]_vars PROVE faults' = 0 => faults = 0
  OBVIOUS
<1>1. faults' = faults \/ Fault
  BY DEF Next, CheckoutStep, LookupStep, StatusStep, FaultStep, vars, otherVars,
       Begin, CheckReferral,
       CreateOrder, ReadCreated, ChargeWallet, ChargeOther, PersistPayment, SettleOrder,
       ClearCart, AcceptPaid, RefundWallet, FailPayment, FailOrder, AfterAccept, MarkPaid,
       CacheHit, CacheMiss, CacheFill, ReadBefore, UpdateFails, UpdateAccepts, UpdateSets,
       AwardCheck, PayPayout, StartActions, GrantAction, EndActions, StartStatus, VendorUpdate,
       InvalidateLines, StartEdit, UpdateProduct, RereadProduct, DeleteProduct,
       ForgetProduct, RestoreProduct, CacheExpires, AddToCart, RemoveFromCart,
       DeleteOrder, RestoreOrder, EditReferenceCode, PersistFails, RefundFails,
       AcceptAborts, AcceptUnseen, Restart
<1>2. faults \in 0 .. MaxFaults
  BY DEF TypeInv, TypeOK, OthersOK
<1> QED
  BY <1>1, <1>2 DEF Fault

\* Every step keeps what each order holds in line with its status.
LEMMA LinesStep ==
  ASSUME OneHand, TypeInv, MoneyInv, BalanceInv, [Next]_vars, NEW r \in Checkouts
  PROVE  LinesAt(r)'
<1>0. LinesAt(r)
  BY DEF BalanceInv
<1>1. req'[r].method = "order" => pay'[r] = "none" /\ pc'[r] \notin Charged
  BY <1>0, NeverCharged DEF LinesAt
<1>2. Methods \subseteq {"order"} => req'[r].method = "order"
  <2>1. CASE Begin(r)
    <3>1. PICK b \in Buyers, m \in Methods, it \in Baskets, ref \in Referrals :
             req' = [req EXCEPT ![r] =
                       [buyer |-> b, method |-> m, referral |-> ref, items |-> it]]
      BY <2>1 DEF Begin
    <3> QED
      BY <3>1 DEF TypeInv, TypeOK, InputsOK
  <2> QED
    BY <1>0, <2>1, InputsStay DEF LinesAt
<1>3. faults' = 0 => faults = 0
  BY FaultsStay
<1>4. CASE orders'[r] = orders[r] /\ lines'[r] = lines[r]
  BY <1>1, <1>2, <1>3, <1>4, LinesStay
<1>5. CASE WritesLines(r) /\ req' = req
  <2>1. CASE Methods \subseteq {"order"}
    BY <1>1, <1>2, <1>5, <2>1, OthersLines
  <2>2. CASE ~(Methods \subseteq {"order"})
    <3>1. ManagerStatuses = {} /\ VendorStatuses = {}
      BY <2>2 DEF OneHand
    <3> QED
      BY <1>1, <1>2, <1>3, <1>5, <3>1, OwnLines
  <2> QED
    BY <2>1, <2>2
<1> QED
  BY <1>4, <1>5, LinesWritten DEF OneHand, OnlyOrder

\* Orders stay.
LEMMA OrdersStay ==
  ASSUME OneHand, TypeInv, MoneyInv, BalanceInv, [Next]_vars, NEW r \in Checkouts,
         orders[r] # "none"
  PROVE  orders'[r] # "none"
<1>1. CASE orders'[r] = orders[r]
  BY <1>1
<1>2. CASE WritesLines(r) /\ req' = req
  <2>1. CASE \E s : TryStatus(r, s) /\ s # "none"
    BY <2>1, <1>2, StatusSet DEF TryStatus
  <2>2. SettleOrder(r) \/ FailOrder(r) \/ MarkPaid(r) =>
          orders'[r] = orders[r] \/ \E s : TryStatus(r, s) /\ s # "none"
    BY DEF SettleOrder, FailOrder, MarkPaid
  <2>3. AcceptWithStockCheck(r) => orders'[r] # "none"
    BY <1>2, AcceptSet
  <2>4. CreateOrder(r) => orders'[r] # "none"
    BY DEF CreateOrder, TypeInv, TypeOK, OrdersOK
  <2>5. AcceptUnseen(r) => AcceptWithStockCheck(r)
    BY DEF AcceptUnseen
  <2>6. CASE Methods \subseteq {"order"}
    <3>1. ASSUME NEW x \in StatusRequests, pc[x] = "update",
                 UpdateStatus(r, job[x].status), job[x].status # "accepted"
          PROVE  FALSE
      BY <2>6, <3>1 DEF BalanceInv, JobStatuses, OneHand
    <3>2. ASSUME NEW a, UpdateVendorStatus(r, job[a].actor, job[a].status)
          PROVE  orders'[r] # "none"
      BY <3>2 DEF UpdateVendorStatus, Aggregate, TypeInv, TypeOK, OrdersOK
    <3> QED
      BY <1>2, <2>3, <2>4, <2>6, <3>1, <3>2, OthersSteps
  <2>7. CASE ~(Methods \subseteq {"order"})
    <3>1. ManagerStatuses = {} /\ VendorStatuses = {}
      BY <2>7 DEF OneHand
    <3>2. UpdateStatus(r, "completed") => orders'[r] # "none"
      BY <1>2, StatusSet
    <3> QED
      BY <1>1, <1>2, <2>1, <2>2, <2>3, <2>4, <2>5, <3>1, <3>2, OwnSteps
  <2> QED
    BY <2>6, <2>7
<1> QED
  BY <1>1, <1>2, LinesWritten DEF OneHand, OnlyOrder

\* A status request on its way has been there, or has just begun.
LEMMA JobMoves ==
  ASSUME TypeInv, [Next]_vars, NEW a \in StatusRequests,
         pc'[a] \in {"before", "update", "vendor"}
  PROVE  pc[a] \in {"before", "update", "vendor"} \/ StartStatus(a)
<1> USE Kinds DEF TypeInv, TypeOK, HandlersOK, Goto, Proceed, Answer
<1> DEFINE Fine == pc[a] \in {"before", "update", "vendor"} \/ StartStatus(a)
<1>1. ASSUME NEW r \in Checkouts, Begin(r) \/ CheckoutStep(r) PROVE Fine
  <2>1. pc'[a] = pc[a]
    BY <1>1 DEF Begin, CheckoutStep, CheckReferral, CreateOrder, ReadCreated, ChargeWallet,
       ChargeOther, PersistPayment, SettleOrder, ClearCart, AcceptPaid, RefundWallet,
       FailPayment, FailOrder, AfterAccept, MarkPaid
  <2> QED BY <2>1
<1>2. ASSUME NEW x \in Checkouts \cup Editors, LookupStep(x) PROVE Fine
  <2>1. pc'[a] = pc[a]
    BY <1>2 DEF LookupStep, CacheHit, CacheMiss, CacheFill, Got, KeepCopy, AddLine
  <2> QED BY <2>1
<1>3. ASSUME NEW x \in Checkouts \cup StatusRequests, StatusStep(x) PROVE Fine
  BY <1>3 DEF StatusStep, ReadBefore, UpdateFails, UpdateAccepts, UpdateSets, AwardCheck,
     PayPayout, StartActions, GrantAction, EndActions
<1>4. ASSUME NEW b \in StatusRequests, StartStatus(b) PROVE Fine
  <2>1. CASE a # b
    BY <1>4, <2>1 DEF StartStatus
  <2> QED BY <1>4, <2>1
<1>5. ASSUME NEW b \in StatusRequests, VendorUpdate(b) \/ InvalidateLines(b) PROVE Fine
  BY <1>5 DEF VendorUpdate, InvalidateLines
<1>6. ASSUME NEW e \in Editors,
             StartEdit(e) \/ UpdateProduct(e) \/ RereadProduct(e) \/ DeleteProduct(e) \/ ForgetProduct(e)
      PROVE  Fine
  <2>1. pc'[a] = pc[a]
    BY <1>6 DEF StartEdit, UpdateProduct, RereadProduct, DeleteProduct, ForgetProduct
  <2> QED BY <2>1
<1>7. ASSUME FaultStep PROVE Fine
  BY <1>7 DEF FaultStep, PersistFails, RefundFails, AcceptAborts, AcceptUnseen, Restart
<1>8. ASSUME pc' = pc PROVE Fine
  BY <1>8
<1> QED
  BY <1>1, <1>2, <1>3, <1>4, <1>5, <1>6, <1>7, <1>8
     DEF Next, vars, RestoreProduct, CacheExpires, AddToCart,
         RemoveFromCart, DeleteOrder, RestoreOrder, EditReferenceCode

LEMMA JobOrdersStep ==
  ASSUME OneHand, TypeInv, MoneyInv, BalanceInv, [Next]_vars
  PROVE  JobOrders'
<1> SUFFICES ASSUME NEW a \in StatusRequests, pc'[a] \in {"before", "update", "vendor"}
             PROVE  orders'[job'[a].order] # "none"
  BY DEF JobOrders
<1>1. CASE pc[a] \in {"before", "update", "vendor"}
  <2>1. job'[a] = job[a]
    BY <1>1, InputsStay
  <2>2. job[a].order \in Checkouts /\ orders[job[a].order] # "none"
    BY <1>1 DEF TypeInv, JobInv, BalanceInv, JobOrders
  <2> QED
    BY <2>1, <2>2, OrdersStay
<1>2. CASE StartStatus(a)
  <2>1. PICK o \in Checkouts, v \in Vendors \cup {Manager},
             s \in ManagerStatuses \cup VendorStatuses :
          /\ orders[o] # "none"
          /\ job' = [job EXCEPT ![a] =
                       [order |-> o, actor |-> v, status |-> s,
                        before |-> IF o \in trashed THEN Nil ELSE orders[o]]]
    BY <1>2 DEF StartStatus
  <2>2. job'[a].order = o
    BY <2>1 DEF TypeInv, TypeOK, InputsOK
  <2>3. orders' = orders
    BY <1>2 DEF StartStatus, orderVars
  <2> QED
    BY <2>1, <2>2, <2>3
<1> QED
  BY <1>1, <1>2, JobMoves

\* What one order holds of a product.
HeldBy(r, p) == IF r \in Holders(p) THEN req[r].items[p] ELSE 0

\* A step takes from stock what the order holds more afterwards.
Balanced(r, p) == stock'[p] + HeldBy(r, p)' = stock[p] + HeldBy(r, p)

\* Acceptance reserves what an order does not hold yet.
LEMMA AcceptBalanced ==
  ASSUME TypeInv, NEW r \in Checkouts, AcceptWithStockCheck(r), req' = req,
         IF orders[r] \in Reserved THEN Holds(r) ELSE Unheld(r, Lines(r)),
         NEW p \in Products \ Unlimited
  PROVE  Balanced(r, p)
<1>0. stock \in [Products -> Int] /\ req[r].items[p] \in Nat
  BY DEF TypeInv, TypeOK, CatalogOK, InputsOK
<1>1. CASE p \in Lines(r)
  <2>1. r \in Holders(p)'
    BY <1>1, AcceptSet DEF Holders
  <2>2. CASE orders[r] \in Reserved
    <3>1. r \in Holders(p) /\ stock'[p] = stock[p]
      BY <1>1, <2>2 DEF Holds, Holders, AcceptWithStockCheck, ToReserve, Reserve
    <3> QED
      BY <2>1, <3>1 DEF Balanced, HeldBy
  <2>3. CASE orders[r] \notin Reserved
    <3>1. r \notin Holders(p)
      BY <1>1, <2>3 DEF Unheld, Holders
    <3>2. stock'[p] = stock[p] - req[r].items[p]
      BY <1>1, <2>3 DEF AcceptWithStockCheck, ToReserve, Reserve
    <3> QED
      BY <1>0, <2>1, <3>1, <3>2 DEF Balanced, HeldBy
  <2> QED
    BY <2>2, <2>3
<1>2. CASE p \notin Lines(r)
  <2>1. req[r].items[p] = 0
    BY <1>0, <1>2 DEF Lines
  <2>2. stock'[p] = stock[p]
    BY <1>2 DEF AcceptWithStockCheck, ToReserve, Reserve
  <2> QED
    BY <2>1, <2>2 DEF Balanced, HeldBy
<1> QED
  BY <1>1, <1>2

\* A vendor's transaction takes what its lines do not hold yet, and gives back
\* what they hold no more.
LEMMA VendorBalanced ==
  ASSUME TypeInv, NEW r \in Checkouts, NEW v, NEW s \in {"accepted", "rejected", "pending"},
         UpdateVendorStatus(r, v, s), req' = req,
         \A p \in Products : lines[r][p] # "completed",
         NEW p \in Products \ Unlimited
  PROVE  Balanced(r, p)
<1>0. stock \in [Products -> Int] /\ req[r].items[p] \in Nat
  BY DEF TypeInv, TypeOK, CatalogOK, InputsOK
<1>1. lines'[r][p] = IF p \in VendorLines(r, v) THEN s ELSE lines[r][p]
  BY DEF UpdateVendorStatus, WithLines, TypeInv, TypeOK, OrdersOK
<1>2. CASE p \notin VendorLines(r, v)
  <2>1. stock'[p] = stock[p]
    BY <1>2 DEF UpdateVendorStatus, VendorToReserve, VendorToRelease, Reserve, Release
  <2> QED
    BY <1>1, <1>2, <2>1 DEF Balanced, HeldBy, Holders
<1>3. CASE p \in VendorLines(r, v) /\ s = "accepted"
  <2>1. r \in Holders(p)'
    BY <1>1, <1>3 DEF Holders
  <2>2. CASE r \in Holders(p)
    <3>1. stock'[p] = stock[p]
      BY <1>3, <2>2 DEF UpdateVendorStatus, VendorToReserve, Reserve, Holders
    <3> QED
      BY <2>1, <2>2, <3>1 DEF Balanced, HeldBy
  <2>3. CASE r \notin Holders(p)
    <3>1. stock'[p] = stock[p] - req[r].items[p]
      BY <1>3, <2>3 DEF UpdateVendorStatus, VendorToReserve, Reserve, Holders
    <3> QED
      BY <1>0, <2>1, <2>3, <3>1 DEF Balanced, HeldBy
  <2> QED
    BY <2>2, <2>3
<1>4. CASE p \in VendorLines(r, v) /\ s # "accepted"
  <2>1. r \notin Holders(p)'
    BY <1>1, <1>4 DEF Holders
  <2>2. CASE r \in Holders(p)
    <3>1. stock'[p] = stock[p] + req[r].items[p]
      BY <1>4, <2>2 DEF UpdateVendorStatus, VendorToRelease, Release, Holders
    <3> QED
      BY <1>0, <2>1, <2>2, <3>1 DEF Balanced, HeldBy
  <2>3. CASE r \notin Holders(p)
    <3>1. stock'[p] = stock[p]
      BY <1>4, <2>3 DEF UpdateVendorStatus, VendorToRelease, Release, Holders
    <3> QED
      BY <2>1, <2>3, <3>1 DEF Balanced, HeldBy
  <2> QED
    BY <2>2, <2>3
<1> QED
  BY <1>2, <1>3, <1>4

\* Steps that leave stock alone leave alone what the order holds.
LEMMA StillBalanced ==
  ASSUME TypeInv, NEW r \in Checkouts, NEW p \in Products, stock' = stock, req' = req,
         p \in Lines(r) => (r \in Holders(p)' <=> r \in Holders(p))
  PROVE  Balanced(r, p)
<1>1. req[r].items[p] \in Nat
  BY DEF TypeInv, TypeOK, InputsOK
<1>2. CASE p \in Lines(r)
  BY <1>2 DEF Balanced, HeldBy
<1>3. CASE p \notin Lines(r)
  <2>1. req[r].items[p] = 0
    BY <1>1, <1>3 DEF Lines
  <2> QED
    BY <2>1 DEF Balanced, HeldBy
<1> QED
  BY <1>2, <1>3

\* Every step of OneHand that writes an order balances it with the stock.
LEMMA StepBalanced ==
  ASSUME OneHand, TypeInv, MoneyInv, BalanceInv, [Next]_vars,
         NEW r \in Checkouts, WritesLines(r), req' = req,
         faults' = 0 \/ Methods \subseteq {"order"},
         NEW p \in Products \ Unlimited
  PROVE  Balanced(r, p)
<1>0. LinesAt(r)
  BY DEF BalanceInv
<1>1. CASE CreateOrder(r)
  <2>1. r \notin Holders(p) /\ stock' = stock
    BY <1>0, <1>1 DEF CreateOrder, catalogVars, LinesAt, Early, Unheld, Holders
  <2>2. r \notin Holders(p)'
    BY <1>1, <2>1 DEF CreateOrder, WithLines, Holders, TypeInv, TypeOK, OrdersOK
  <2> QED
    BY <2>1, <2>2, StillBalanced
<1>2. CASE Methods \subseteq {"order"}
  <2>1. ASSUME NEW x \in StatusRequests, pc[x] = "update", job[x].order = r,
               \/ job[x].status = "accepted" /\ AcceptWithStockCheck(r)
               \/ job[x].status # "accepted" /\ UpdateStatus(r, job[x].status)
        PROVE  Balanced(r, p)
    <3>1. job[x].status \in ManagerStatuses
      BY <2>1 DEF BalanceInv, JobStatuses
    <3>2. AcceptWithStockCheck(r) /\ VendorStatuses = {}
      BY <2>1, <3>1 DEF OneHand
    <3> QED
      BY <1>0, <3>2, AcceptBalanced DEF LinesAt
  <2>2. ASSUME NEW a \in StatusRequests, pc[a] = "vendor", job[a].order = r,
               UpdateVendorStatus(r, job[a].actor, job[a].status)
        PROVE  Balanced(r, p)
    <3>1. job[a].status \in VendorStatuses
      BY <2>2 DEF BalanceInv, JobStatuses
    <3>2. job[a].status \in {"accepted", "rejected", "pending"}
      BY <3>1 DEF OneHand
    <3>3. \A q \in Products : lines[r][q] # "completed"
      BY <1>0, <1>2 DEF LinesAt
    <3> QED
      BY <2>2, <3>2, <3>3, VendorBalanced
  <2> QED
    BY <1>1, <1>2, <2>1, <2>2, OthersSteps
<1>3. CASE ~(Methods \subseteq {"order"})
  <2>1. faults' = 0 /\ faults = 0 /\ ManagerStatuses = {} /\ VendorStatuses = {}
    BY <1>3, FaultsStay DEF OneHand
  <2>2. IF orders[r] \in Reserved THEN Holds(r) ELSE Unheld(r, Lines(r))
    BY <1>0, <2>1 DEF LinesAt
  <2>3. AcceptWithStockCheck(r) => Balanced(r, p)
    BY <2>2, AcceptBalanced
  <2>4. AcceptUnseen(r) => AcceptWithStockCheck(r)
    BY DEF AcceptUnseen
  <2>5. ASSUME pc[r] \in {"settle", "orderfail"}, stock' = stock,
               \/ UNCHANGED <<orders, lines>>
               \/ \E s \in {"failed", "pending"} : UpdateStatus(r, s)
        PROVE  Balanced(r, p)
    <3>1. req[r].method # "order"
      BY <1>0, <2>5 DEF LinesAt, Charged
    <3>2. Unheld(r, Lines(r))
      BY <1>0, <2>1, <2>2, <2>5, <3>1 DEF LinesAt, Unreserved
    <3>3. CASE UNCHANGED <<orders, lines>>
      BY <2>5, <3>3, StillBalanced DEF Holders
    <3>4. ASSUME NEW s \in {"failed", "pending"}, UpdateStatus(r, s)
          PROVE  Balanced(r, p)
      <4>1. p \in Lines(r) => r \notin Holders(p) /\ r \notin Holders(p)'
        BY <3>2, <3>4, StatusSet DEF Unheld, Holders, LineWide
      <4> QED
        BY <2>5, <4>1, StillBalanced
    <3> QED
      BY <2>5, <3>3, <3>4
  <2>6. ASSUME pc[r] \in {"paid", "update"}, stock' = stock,
               \/ UNCHANGED <<orders, lines>>
               \/ \E s \in {"paid", "completed"} : UpdateStatus(r, s)
        PROVE  Balanced(r, p)
    <3>1. Holds(r)
      BY <1>0, <2>2, <2>6 DEF LinesAt, Reserving
    <3>2. CASE UNCHANGED <<orders, lines>>
      BY <2>6, <3>2, StillBalanced DEF Holders
    <3>3. ASSUME NEW s \in {"paid", "completed"}, UpdateStatus(r, s)
          PROVE  Balanced(r, p)
      <4>1. p \in Lines(r) => r \in Holders(p) /\ r \in Holders(p)'
        BY <3>1, <3>3, StatusSet DEF Holds, Holders, LineWide
      <4> QED
        BY <2>6, <4>1, StillBalanced
    <3> QED
      BY <2>6, <3>2, <3>3
  <2>7. SettleOrder(r) \/ FailOrder(r) =>
          /\ pc[r] \in {"settle", "orderfail"} /\ stock' = stock
          /\ \/ UNCHANGED <<orders, lines>>
             \/ \E s \in {"failed", "pending"} : UpdateStatus(r, s)
    BY DEF SettleOrder, FailOrder, TryStatus, catalogVars
  <2>8. MarkPaid(r) =>
          /\ pc[r] = "paid" /\ stock' = stock
          /\ UNCHANGED <<orders, lines>> \/ UpdateStatus(r, "paid")
    BY DEF MarkPaid, TryStatus, catalogVars
  <2>9. ASSUME NEW x \in Checkouts \cup StatusRequests, UpdateSets(x) PROVE stock' = stock
    BY <2>9 DEF UpdateSets, catalogVars
  <2>10. ASSUME NEW x \in Checkouts \cup StatusRequests, OrderOf(x) = r,
                UpdateAccepts(x)
         PROVE  Balanced(r, p)
    BY <2>3, <2>10 DEF UpdateAccepts
  <2>11. ASSUME NEW x \in Checkouts \cup StatusRequests, OrderOf(x) = r, UpdateSets(x)
         PROVE  Balanced(r, p)
    <3>1. x = r /\ pc[r] = "update" /\ UpdateStatus(r, "completed")
      BY <2>1, <2>11 DEF BalanceInv, JobStatuses, OrderOf, Wanted, UpdateSets
    <3> QED
      BY <2>6, <2>9, <2>11, <3>1
  <2>12. ASSUME NEW a \in StatusRequests, VendorUpdate(a) PROVE FALSE
    BY <2>1, <2>12 DEF VendorUpdate, BalanceInv, JobStatuses
  <2> QED
    BY <1>1, <2>3, <2>4, <2>5, <2>6, <2>7, <2>8, <2>10, <2>11, <2>12 DEF WritesLines
<1> QED
  BY <1>2, <1>3

\* The stock of a product and what all orders hold of it stay in balance.
LEMMA BalancedStep ==
  ASSUME OneHand, TypeInv, MoneyInv, BalanceInv, [Next]_vars,
         faults' = 0 \/ Methods \subseteq {"order"},
         NEW p \in Products \ Unlimited
  PROVE  StockAt(p)'
<1>0. /\ StockAt(p)
      /\ stock[p] \in Int /\ InitStock[p] \in Int
      /\ stock'[p] \in Int
  <2>1. faults = 0 \/ Methods \subseteq {"order"}
    BY FaultsStay
  <2>2. InitStock[p] \in Int
    BY StoreAssumption DEF StoreAssumption
  <2>3. TypeInv'
    BY TypeStep
  <2> QED
    BY <2>1, <2>2, <2>3 DEF BalanceInv, TypeInv, TypeOK, CatalogOK
<1>1. CASE UNCHANGED <<stock, orders, lines>>
  <2>1. Holders(p)' = Holders(p)
    BY <1>1 DEF Holders
  <2>2. \A r \in Holders(p) : Asked(p)'[r] = Asked(p)[r]
    <3>1. SUFFICES ASSUME NEW r \in Holders(p) PROVE req'[r] = req[r]
      BY DEF Asked, Holders
    <3>2. r \in Checkouts /\ pc[r] # "idle"
      BY <3>1 DEF Holders, BalanceInv, LinesAt, Early, Unheld
    <3> QED
      BY <3>2, InputsStay
  <2>3. Units(Asked(p)', Holders(p)) = Units(Asked(p), Holders(p))
    BY <2>2, UnitsSame
  <2>4. Held(p)' = Held(p)
    BY <2>1, <2>3 DEF Held
  <2> QED
    BY <1>0, <1>1, <2>4 DEF StockAt
<1>2. ASSUME NEW r \in Checkouts, WritesLines(r), OnlyOrder(r)
      PROVE  StockAt(p)'
  <2>1. req' = req
    BY <1>2 DEF OnlyOrder
  <2>2. Balanced(r, p)
    BY <1>2, <2>1, StepBalanced
  <2> DEFINE q == Asked(p)
             S == Holders(p)
  <2>3. PICK T : T = Holders(p)'
    OBVIOUS
  <2>4. q[r] = req[r].items[p] /\ q[r] \in Nat /\ Asked(p)' = q
    BY <2>1 DEF Asked, TypeInv, TypeOK, InputsOK
  <2>5. S \ {r} = T \ {r}
    BY <1>2, <2>3 DEF Holders, OnlyOrder
  <2>6. IsFiniteSet(Units(q, S)) /\ stock[p] + Cardinality(Units(q, S)) = InitStock[p]
    BY <1>0 DEF StockAt, Held
  <2>7. stock'[p] + (IF r \in T THEN q[r] ELSE 0) = stock[p] + (IF r \in S THEN q[r] ELSE 0)
    BY <2>1, <2>2, <2>3, <2>4 DEF Balanced, HeldBy
  <2>8. Held(p)' = Units(q, T)
    BY <2>3, <2>4 DEF Held
  <2> HIDE DEF q, S
  <2>9. /\ IsFiniteSet(Units(q, T))
        /\ Cardinality(Units(q, S)) \in Nat /\ Cardinality(Units(q, T)) \in Nat
        /\ Cardinality(Units(q, T)) + (IF r \in S THEN q[r] ELSE 0)
             = Cardinality(Units(q, S)) + (IF r \in T THEN q[r] ELSE 0)
    BY <2>4, <2>5, <2>6, UnitsChange
  <2>10. stock'[p] + Cardinality(Units(q, T)) = InitStock[p]
    BY <1>0, <2>4, <2>6, <2>7, <2>9
  <2> QED
    BY <2>8, <2>9, <2>10 DEF StockAt
<1> QED
  BY <1>1, <1>2, LinesWritten DEF OneHand

LEMMA BalanceStep ==
  ASSUME OneHand, TypeInv, MoneyInv, BalanceInv, [Next]_vars
  PROVE  BalanceInv'
<1>1. JobStatuses'
  BY JobsStep DEF BalanceInv
<1>2. \A r \in Checkouts : LinesAt(r)'
  BY LinesStep
<1>3. ASSUME faults' = 0 \/ Methods \subseteq {"order"}, NEW p \in Products \ Unlimited
      PROVE  StockAt(p)'
  BY <1>3, BalancedStep
<1> QED
  BY <1>1, <1>2, <1>3, JobOrdersStep DEF BalanceInv

LEMMA BalanceInvariant == ASSUME OneHand PROVE Spec => []BalanceInv
<1>1. Init => TypeInv /\ MoneyInv /\ BalanceInv
  BY TypeInit, MoneyInit, BalanceInit
<1>2. TypeInv /\ MoneyInv /\ BalanceInv /\ [Next]_vars
        => TypeInv' /\ MoneyInv' /\ BalanceInv'
  BY TypeStep, MoneyStep, BalanceStep
<1> QED
  BY <1>1, <1>2, PTL DEF Spec

\* While only checkouts change their orders, and no statement of theirs has failed,
\* what was taken from a product is what the accepted lines hold: concurrent
\* checkouts for the last units, failing payments, the trash and stale cache
\* entries neither lose nor make up a unit.
THEOREM CheckoutsKeepTheStock ==
  ASSUME Editors = {}, ManagerStatuses = {}, VendorStatuses = {}
  PROVE  Spec => [](faults = 0 => StockFollowsLines)
<1>1. BalanceInv => (faults = 0 => StockFollowsLines)
  BY DEF BalanceInv, StockAt, StockFollowsLines
<1>2. OneHand
  BY DEF OneHand
<1> QED
  BY <1>1, <1>2, BalanceInvariant, PTL

\* The same of orders from POST /orders, whatever fails: vendors may accept, reject
\* and reset their lines in any order and at the same time, or managers accept
\* orders again and again.
THEOREM OrdersKeepTheStock ==
  ASSUME Editors = {}, Methods \subseteq {"order"},
         \/ /\ ManagerStatuses = {}
            /\ VendorStatuses \subseteq {"accepted", "rejected", "pending"}
         \/ ManagerStatuses \subseteq {"accepted"} /\ VendorStatuses = {}
  PROVE  Spec => []StockFollowsLines
<1>1. BalanceInv => StockFollowsLines
  BY DEF BalanceInv, StockAt, StockFollowsLines
<1>2. OneHand
  BY DEF OneHand
<1> QED
  BY <1>1, <1>2, BalanceInvariant, PTL
=============================================================================
