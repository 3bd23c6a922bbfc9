----------------------------- MODULE StorePages -----------------------------
(***************************************************************************)
(* The shop as its users see it: page "shop" is Store with its category    *)
(* bar, page "product" ProductPage, page "cart" CartPage with              *)
(* CheckoutPanel, page "orders" OrdersPage, page "wallet" WalletPage, page *)
(* "productForm" NewProduct and EditProductForm with ProductMediaTable.    *)
(* The server's side of an order is StoreOrders; here it is one record.    *)
(* The effects of a mounted page send their requests at once; ui.due holds *)
(* those that have not run yet because MaxFlight requests are under way.   *)
(***************************************************************************)
EXTENDS Spa

Products == {"p1", "p2"}
StoreAtoms(cart, products, orders) == [cart |-> cart, products |-> products, orders |-> orders]
Plus(cart, p) == [q \in DOMAIN cart \cup {p} |-> IF q # p THEN cart[q] ELSE IF p \in DOMAIN cart THEN cart[p] + 1 ELSE 1]
Without(f, p) == [q \in DOMAIN f \ {p} |-> f[q]]
With(f, p, v) == [q \in DOMAIN f \cup {p} |-> IF q = p THEN v ELSE f[q]]

\* What the registered resources do with a push, on whichever page.
storeReducer(a, p) ==
    CASE p.kind = "product_updated" -> IF p.id \in DOMAIN a.products THEN [a EXCEPT !.products[p.id] = p.val] ELSE a
      [] p.kind = "product_deleted" -> [a EXCEPT !.products = Without(@, p.id)]
      [] p.kind = "purchase_success" -> [a EXCEPT !.cart = <<>>, !.orders = With(@, p.id, p.val)]
      [] p.kind = "order_updated" -> [a EXCEPT !.orders = With(@, p.id, p.val)]
      [] p.kind = "order_deleted" -> [a EXCEPT !.orders = Without(@, p.id)]
      [] p.kind = "cart_updated" -> [a EXCEPT !.cart = p.val]
storePushed == push # <<>> /\ Takes(storeReducer(atom, Head(push)))
runEffect(e, op) == e \in ui.due /\ Call([ui EXCEPT !.due = @ \ {e}], op, None)

-----------------------------------------------------------------------------
(* The catalogue.  db.products: price version of every product on sale.    *)

ShopInit ==
    \E user \in {"guest", "member", "manager"} :
        Begins("shop", [busy |-> {"load"}, user |-> user, due |-> IF user = "guest" THEN {} ELSE {"cart", "badges"},
                        cats |-> {}, own |-> FALSE, on |-> {}],
               StoreAtoms(<<>>, <<>>, <<>>), Add({}, "catalog", None),
               [n |-> 0, products |-> [p \in Products |-> 0], cart |-> <<>>, orders |-> <<>>])

\* loadCatalog: categories (each subscribed to) and products, then the ratings.
gotCatalog(r) ==
    /\ Replied(r, {"catalog"})
    /\ \/ /\ r.rep.ok
          /\ ui' = Idle(ui, "load") /\ atom' = [atom EXCEPT !.products = r.rep.val]
          /\ subs' = subs \cup {"store_category"} /\ net' = Add(net \ {r}, "ratings", None)
          /\ UNCHANGED <<page, db, push>>
       \/ ~r.rep.ok /\ Done(r, Idle(ui, "load"))
gotRatings(r) == Replied(r, {"ratings"}) /\ Done(r, ui)
gotCart(r) == Replied(r, {"cart"}) /\ DoneAtom(r, ui, IF r.rep.ok THEN [atom EXCEPT !.cart = r.rep.val] ELSE atom)
gotBadges(r) == Replied(r, {"badges"}) /\ DoneAtom(r, ui, IF r.rep.ok THEN [atom EXCEPT !.orders = r.rep.val] ELSE atom)
\* A new socket: all of it again.
reconnected ==
    /\ db.n < MaxChanges /\ Room(1) /\ db' = [db EXCEPT !.n = @ + 1]
    /\ ui' = Busy([ui EXCEPT !.due = IF ui.user = "guest" THEN {} ELSE {"cart", "badges"}], "load")
    /\ net' = Add(net, "catalog", None) /\ UNCHANGED <<page, atom, subs, push>>

visibleProducts == {p \in DOMAIN atom.products : (ui.cats = {} \/ p \in ui.cats) /\ (ui.own => p = "p1")}
ShopGrid(p) ==
    IF "load" \in ui.busy \/ p \notin visibleProducts THEN {} ELSE {"add"} \cup (IF ui.user = "manager" THEN {"delete"} ELSE {})
CategoryBar == {"all", "toggle", "dock", "clear"} \cup (IF ui.user # "guest" THEN {"own"} ELSE {})
                \cup (IF ui.user = "manager" THEN {"delete"} ELSE {})

handleToggleCategory(p) == "toggle" \in CategoryBar /\ Set([ui EXCEPT !.cats = IF p \in @ THEN @ \ {p} ELSE @ \cup {p}])
handleClearFilters == "clear" \in CategoryBar /\ (ui.cats # {} \/ ui.own) /\ Set([ui EXCEPT !.cats = {}, !.own = FALSE])
handleToggleOwnProducts == "own" \in CategoryBar /\ Set([ui EXCEPT !.own = ~@])
\* handleAddToCart: a guest's cart is the browser's own.
handleAddToCart(p) ==
    /\ "add" \in ShopGrid(p)
    /\ IF ui.user = "guest" THEN p \notin DOMAIN atom.cart /\ SetAtom(ui, [atom EXCEPT !.cart = Plus(@, p)])
       ELSE Call(ui, "add", p)
addedToCart(r) ==
    /\ Replied(r, {"add"})
    /\ \/ r.rep.ok /\ Goes(r, ui, "cart", None)
       \/ ~r.rep.ok /\ Done(r, ui)
handleDeleteProduct(p) == "delete" \in ShopGrid(p) /\ Call(ui, "deleteProduct", p)
deletedProduct(r) ==
    Replied(r, {"deleteProduct"}) /\ DoneAtom(r, ui, IF r.rep.ok THEN [atom EXCEPT !.products = Without(@, r.arg)] ELSE atom)
handleDeleteCategory(c) == "delete" \in CategoryBar /\ Call(ui, "deleteCategory", c)
deletedCategory(r) == Replied(r, {"deleteCategory"}) /\ Done(r, IF r.rep.ok THEN [ui EXCEPT !.cats = @ \ {r.arg}] ELSE ui)

ShopServer(r) ==
    \/ r.op = "catalog" /\ Read(r, db.products)
    \/ r.op \in {"ratings", "deleteCategory"} /\ Read(r, None)
    \/ r.op = "cart" /\ Read(r, db.cart)
    \/ r.op = "badges" /\ Read(r, db.orders)
    \/ /\ r.op \in {"add", "deleteProduct"} /\ r.arg \in DOMAIN db.products /\ db.n < MaxChanges
       /\ IF r.op = "add"
          THEN AnswerPush(r, [db EXCEPT !.cart = Plus(@, r.arg), !.n = @ + 1], None,
                          <<[kind |-> "cart_updated", val |-> Plus(db.cart, r.arg)]>>)
          ELSE AnswerPush(r, [db EXCEPT !.products = Without(@, r.arg), !.n = @ + 1], None,
                          <<[kind |-> "product_deleted", id |-> r.arg]>>)
productChanges ==
    \E p \in DOMAIN db.products :
        Changes([db EXCEPT !.products[p] = 1], IF subs = {} THEN <<>> ELSE <<[kind |-> "product_updated", id |-> p, val |-> 1]>>)

ShopNext ==
    /\ On("shop")
    /\ \/ runEffect("cart", "cart") \/ runEffect("badges", "badges") \/ reconnected
       \/ handleClearFilters \/ handleToggleOwnProducts \/ storePushed \/ productChanges
       \/ \E p \in {"p1"} : \/ handleAddToCart(p) \/ handleDeleteProduct(p)
                           \/ handleToggleCategory(p) \/ handleDeleteCategory(p)
       \/ \E r \in net : \/ gotCatalog(r) \/ gotRatings(r) \/ gotCart(r) \/ gotBadges(r) \/ addedToCart(r)
                         \/ deletedProduct(r) \/ deletedCategory(r) \/ ShopServer(r)

-----------------------------------------------------------------------------
(* A product's page.  Whoever opens it from the shop has the product in    *)
(* the atom already; the address may change to a similar product's.        *)

ProductInit ==
    \E cached \in BOOLEAN :
        Begins("product", [busy |-> IF cached THEN {"similar", "reviews"} ELSE {"product", "similar", "reviews"},
                           id |-> "p1", product |-> IF cached THEN "p1" ELSE None, signed |-> cached, reviews |-> {},
                           due |-> {"similar", "reviews"}],
               StoreAtoms(<<>>, IF cached THEN [p \in {"p1"} |-> 0] ELSE <<>>, <<>>),
               IF cached THEN {} ELSE Add({}, "product", "p1"), [n |-> 0, cart |-> <<>>, reviews |-> {}])

loadSimilar == "similar" \in ui.due /\ Call([ui EXCEPT !.due = @ \ {"similar"}], "similar", ui.id)
loadReviews == "reviews" \in ui.due /\ Call([ui EXCEPT !.due = @ \ {"reviews"}], "reviews", ui.id)
gotProduct(r) == Replied(r, {"product"}) /\ Done(r, Idle(IF r.rep.ok THEN [ui EXCEPT !.product = r.arg] ELSE ui, "product"))
gotSimilar(r) == Replied(r, {"similar"}) /\ Done(r, Idle(ui, "similar"))
gotReviews(r) == Replied(r, {"reviews"}) /\ Done(r, Idle(IF r.rep.ok THEN [ui EXCEPT !.reviews = r.rep.val] ELSE ui, "reviews"))
ProductView == IF "product" \in ui.busy \/ ui.product = None THEN {} ELSE {"cart"}
SimilarView == IF ProductView # {} /\ "similar" \notin ui.busy THEN Products \ {ui.id} ELSE {}
ReviewForm == IF ProductView # {} /\ ui.signed /\ "me" \notin ui.reviews THEN {"submit"} ELSE {}
\* A similar product: the same component with another id.
openSimilar(p) == p \in SimilarView /\ ui.due = {} /\ Call([Busy(Busy(ui, "similar"), "reviews") EXCEPT !.id = p, !.due = {"similar", "reviews"}], "product", p)
handleReviewSubmit == "submit" \in ReviewForm /\ Call(ui, "review", ui.id)
reviewed(r) ==
    /\ Replied(r, {"review"})
    /\ \/ r.rep.ok /\ Goes(r, Busy(ui, "reviews"), "reviews", ui.id)
       \/ ~r.rep.ok /\ Done(r, ui)
\* addProductToCart: counted once more locally when the server has answered.
addProductToCart == "cart" \in ProductView /\ "add" \notin ui.busy /\ Call(Busy(ui, "add"), "add", ui.product)
productAdded(r) ==
    Replied(r, {"add"}) /\ DoneAtom(r, Idle(ui, "add"), IF r.rep.ok THEN [atom EXCEPT !.cart = Plus(@, r.arg)] ELSE atom)

ProductServer(r) ==
    \/ r.op \in {"product", "similar"} /\ Read(r, None)
    \/ r.op = "reviews" /\ Read(r, db.reviews)
    \/ r.op = "review" /\ db.n < MaxChanges /\ Answer(r, [db EXCEPT !.reviews = {"me"}, !.n = @ + 1], None)
    \/ /\ r.op = "add" /\ db.n < MaxChanges
       /\ LET c == Plus(db.cart, r.arg) IN
          AnswerPush(r, [db EXCEPT !.cart = c, !.n = @ + 1], None, <<[kind |-> "cart_updated", val |-> c]>>)
ProductNext ==
    /\ On("product")
    /\ \/ loadSimilar \/ loadReviews \/ handleReviewSubmit \/ addProductToCart \/ storePushed
       \/ \E p \in Products : openSimilar(p)
       \/ \E r \in net : \/ gotProduct(r) \/ gotSimilar(r) \/ gotReviews(r) \/ reviewed(r) \/ productAdded(r)
                         \/ ProductServer(r)

-----------------------------------------------------------------------------
(* The cart.  atom.cart: quantity by product, kept in local storage;       *)
(* atom.saved: whether checkout details are remembered there.              *)

CartInit ==
    \E signedIn, saved \in BOOLEAN :
        Begins("cart", [busy |-> {}, signed |-> signedIn, phone |-> saved /\ signedIn, remember |-> saved /\ signedIn,
                        method |-> "delivery_cash", order |-> None],
               [cart |-> [p \in {"p1"} |-> 1], products |-> <<>>, orders |-> <<>>, saved |-> saved],
               IF signedIn THEN Add({}, "cards", None) ELSE {},
               [n |-> 0, cart |-> [p \in {"p1"} |-> 1], orders |-> <<>>])

gotCards(r) == Replied(r, {"cards"}) /\ Done(r, ui)
CartView == ui.order = None /\ DOMAIN atom.cart # {}
CartRows(p) == IF CartView /\ p \in DOMAIN atom.cart THEN {"quantity", "remove"} ELSE {}
\* CheckoutPanel: cards are listed but cannot be chosen.
PaymentOptions == {"delivery_cash"} \cup (IF ui.signed THEN {"wallet"} ELSE {})
CheckoutForm ==
    IF ~CartView THEN {}
    ELSE {"phone", "method"} \cup (IF ui.signed /\ ui.method = "delivery_cash" THEN {"remember"} ELSE {})
         \cup (IF "checkout" \in ui.busy THEN {} ELSE {"submit"})
handleUseSavedCheckout == CartView /\ ui.signed /\ atom.saved /\ Set([ui EXCEPT !.phone = TRUE, !.remember = TRUE])

\* Each is shown at once and sent if signed in; a failure is not undone.
InCart(a, op, arg) == IF ui.signed THEN CallAtom(ui, a, op, arg) ELSE SetAtom(ui, a)
handleRemove(p) == "remove" \in CartRows(p) /\ InCart([atom EXCEPT !.cart = Without(@, p)], "remove", <<p, 0>>)
handleClearCart == CartView /\ InCart([atom EXCEPT !.cart = <<>>], "clear", <<"all", 0>>)
handleQuantityChange(p, q) ==
    "quantity" \in CartRows(p) /\ q # atom.cart[p] /\ InCart([atom EXCEPT !.cart[p] = q], "update", <<p, q>>)
cartSent(r) == Replied(r, {"remove", "clear", "update"}) /\ Done(r, ui)
setPhone == "phone" \in CheckoutForm /\ Set([ui EXCEPT !.phone = ~@])
setRemember == "remember" \in CheckoutForm /\ Set([ui EXCEPT !.remember = ~@])
setMethod(m) == "method" \in CheckoutForm /\ m \in PaymentOptions \ {ui.method} /\ Set([ui EXCEPT !.method = m])
\* handleCheckout: a guest is sent to sign in, the cart stays.
handleCheckout ==
    /\ "submit" \in CheckoutForm
    /\ IF ~ui.signed THEN Quit("cart") ELSE ui.phone /\ Call(Busy(ui, "checkout"), "checkout", <<"all", 0>>)
checkedOut(r) ==
    /\ Replied(r, {"checkout"})
    /\ LET u == Idle(ui, "checkout") IN
       IF r.rep.ok THEN DoneAtom(r, [u EXCEPT !.order = "o1"], [atom EXCEPT !.cart = <<>>, !.saved = ui.remember])
       ELSE Done(r, u)

Cleared(c, op, arg) ==
    CASE op = "remove" -> Without(c, arg[1])
      [] op = "update" -> IF arg[1] \in DOMAIN c THEN [c EXCEPT ![arg[1]] = arg[2]] ELSE c
      [] OTHER -> <<>>
CartServer(r) ==
    \/ r.op = "cards" /\ Read(r, None)
    \/ /\ r.op \in {"remove", "clear", "update"} /\ db.n < MaxChanges
       /\ LET c == Cleared(db.cart, r.op, r.arg) IN
          AnswerPush(r, [db EXCEPT !.cart = c, !.n = @ + 1], None, <<[kind |-> "cart_updated", val |-> c]>>)
    \/ /\ r.op = "checkout" /\ "o1" \notin DOMAIN db.orders
       /\ AnswerPush(r, [db EXCEPT !.cart = <<>>, !.orders = With(@, "o1", "pending")], None,
                     <<[kind |-> "purchase_success", id |-> "o1", val |-> "pending"]>>)
\* Another window of the same user puts something into the cart.
cartChanges == Changes([db EXCEPT !.cart = Plus(@, "p2")], <<[kind |-> "cart_updated", val |-> Plus(db.cart, "p2")]>>)

CartNext ==
    /\ On("cart")
    /\ \/ handleClearCart \/ setPhone \/ setRemember \/ handleCheckout \/ handleUseSavedCheckout \/ storePushed
       \/ cartChanges \/ (\E m \in {"delivery_cash", "wallet"} : setMethod(m))
       \/ \E p \in Products : handleRemove(p) \/ (\E q \in 1..2 : handleQuantityChange(p, q))
       \/ \E r \in net : gotCards(r) \/ cartSent(r) \/ checkedOut(r) \/ CartServer(r)

-----------------------------------------------------------------------------
(* Orders; atom.focus: the order another page asked to have expanded.  The *)
(* reference codes a manager keeps on the same page share nothing with the *)
(* orders and are page "codes".                                            *)

OrdersInit ==
    \E admin, focus \in BOOLEAN :
        Begins("orders", [busy |-> {"load"}, admin |-> admin, expanded |-> {}, filter |-> "all", map |-> FALSE],
               [cart |-> <<>>, products |-> <<>>, orders |-> <<>>, focus |-> focus], Add({}, "orders", None),
               [n |-> 0, orders |-> [o \in {"o1"} |-> "pending"]])

fetchOrders(r) == Goes(r, Busy(ui, "load"), "orders", None)
gotOrders(r) ==
    /\ Replied(r, {"orders"})
    /\ IF r.rep.ok
       THEN DoneAtom(r, Idle([ui EXCEPT !.expanded = IF atom.focus /\ "o1" \in DOMAIN r.rep.val THEN {"o1"} ELSE @], "load"),
                     [atom EXCEPT !.orders = r.rep.val, !.focus = FALSE])
       ELSE Done(r, Idle(ui, "load"))

visibleOrders == {o \in DOMAIN atom.orders : ui.filter \in {"all", atom.orders[o]}}
OrderRow(o) == IF "load" \in ui.busy \/ o \notin visibleOrders THEN {} ELSE {"expand", "location"} \cup (IF ui.admin THEN {"delete"} ELSE {})
\* OrderStatusView: what a vendor may still decide.
VendorActions(o) ==
    IF o \in ui.expanded /\ OrderRow(o) # {} /\ atom.orders[o] \notin {"completed", "cancelled", "failed"} THEN {"accepted", "rejected"} ELSE {}
OrderFilterBar == IF "load" \in ui.busy THEN {} ELSE {"all", "pending", "accepted"}

toggleExpandOrder(o) == "expand" \in OrderRow(o) /\ Set([ui EXCEPT !.expanded = IF o \in @ THEN @ \ {o} ELSE @ \cup {o}])
showLocationMap(o) == ~ui.map /\ "location" \in OrderRow(o) /\ Set([ui EXCEPT !.map = TRUE])
closeMap == ui.map /\ Set([ui EXCEPT !.map = FALSE])
setOrderFilters(f) == f \in OrderFilterBar \ {ui.filter} /\ Set([ui EXCEPT !.filter = f])
updateOrderStatus(o, st) == st \in VendorActions(o) /\ Call(ui, st, o)
deleteOrder(o) == "delete" \in OrderRow(o) /\ Call(ui, "deleteOrder", o)
orderDone(r) ==
    /\ Replied(r, {"accepted", "rejected", "deleteOrder"})
    /\ \/ r.rep.ok /\ fetchOrders(r)
       \/ ~r.rep.ok /\ Done(r, ui)
OrdersServer(r) ==
    \/ r.op = "orders" /\ Read(r, db.orders)
    \/ /\ r.op \in {"accepted", "rejected"} /\ r.arg \in DOMAIN db.orders /\ db.orders[r.arg] = "pending"
       /\ AnswerPush(r, [db EXCEPT !.orders[r.arg] = r.op], None, <<[kind |-> "order_updated", id |-> r.arg, val |-> r.op]>>)
    \/ /\ r.op = "deleteOrder" /\ r.arg \in DOMAIN db.orders
       /\ AnswerPush(r, [db EXCEPT !.orders = Without(@, r.arg)], None, <<[kind |-> "order_deleted", id |-> r.arg]>>)

OrdersNext ==
    /\ On("orders")
    /\ \/ closeMap \/ storePushed
       \/ \E f \in {"all", "pending", "accepted"} : setOrderFilters(f)
       \/ \E o \in {"o1"} : \/ toggleExpandOrder(o) \/ showLocationMap(o) \/ deleteOrder(o)
                           \/ \E st \in {"accepted", "rejected"} : updateOrderStatus(o, st)
       \/ \E r \in net : gotOrders(r) \/ orderDone(r) \/ OrdersServer(r)

CodesInit ==
    Begins("codes", [busy |-> {}, codes |-> {}, form |-> [filled |-> FALSE, editing |-> None]],
           [n |-> 0], Add({}, "codes", None), [n |-> 0, codes |-> {}])
gotCodes(r) == Replied(r, {"codes"}) /\ Done(r, IF r.rep.ok THEN [ui EXCEPT !.codes = r.rep.val] ELSE ui)
ReferenceForm == {"fill", "submit"} \cup (IF ui.form.editing # None THEN {"cancel"} ELSE {})
CodeRow(c) == IF c \in ui.codes THEN {"edit", "delete"} ELSE {}
resetReferenceForm(u) == [u EXCEPT !.form = [filled |-> FALSE, editing |-> None]]
fillReferenceForm == "fill" \in ReferenceForm /\ Set([ui EXCEPT !.form.filled = ~@])
cancelReferenceForm == "cancel" \in ReferenceForm /\ Set(resetReferenceForm(ui))
submitReferenceCode ==
    /\ "submit" \in ReferenceForm /\ ui.form.filled
    /\ Call(ui, "saveCode", IF ui.form.editing = None THEN "c1" ELSE ui.form.editing)
editReferenceCode(c) == "edit" \in CodeRow(c) /\ Set([ui EXCEPT !.form = [filled |-> TRUE, editing |-> c]])
deleteReferenceCode(c) == "delete" \in CodeRow(c) /\ Call(ui, "deleteCode", c)
codeDone(r) ==
    /\ Replied(r, {"saveCode", "deleteCode"})
    /\ \/ r.rep.ok /\ Goes(r, IF r.op = "saveCode" \/ ui.form.editing = r.arg THEN resetReferenceForm(ui) ELSE ui, "codes", None)
       \/ ~r.rep.ok /\ Done(r, ui)
CodesServer(r) ==
    \/ r.op = "codes" /\ Read(r, db.codes)
    \/ r.op = "saveCode" /\ Answer(r, [db EXCEPT !.codes = @ \cup {r.arg}], None)
    \/ r.op = "deleteCode" /\ Answer(r, [db EXCEPT !.codes = @ \ {r.arg}], None)
CodesNext ==
    /\ On("codes")
    /\ \/ fillReferenceForm \/ cancelReferenceForm \/ submitReferenceCode
       \/ editReferenceCode("c1") \/ deleteReferenceCode("c1")
       \/ \E r \in net : gotCodes(r) \/ codeDone(r) \/ CodesServer(r)

-----------------------------------------------------------------------------
(* The wallet and its cards, of oneself or of another user.                *)

WalletInit ==
    \E may \in BOOLEAN :
        Begins("wallet", [busy |-> IF may THEN {"load"} ELSE {}, may |-> may, cards |-> {}, form |-> "closed", filled |-> FALSE],
               [n |-> 0], IF may THEN Add({}, "wallet", None) ELSE {}, [n |-> 0, cards |-> {"k1"}])
fetchWallet(r, u) == Goes(r, Busy(u, "load"), "wallet", None)
\* A mutant of gotWallet: the flag is cleared only when the wallet came.
gotWalletIfOk(r) == Replied(r, {"wallet"}) /\ Done(r, IF r.rep.ok THEN Idle([ui EXCEPT !.cards = r.rep.val], "load") ELSE ui)
gotWallet(r) == Replied(r, {"wallet"}) /\ Done(r, Idle(IF r.rep.ok THEN [ui EXCEPT !.cards = r.rep.val] ELSE ui, "load"))
WalletForm == IF ui.may /\ ui.form # "closed" THEN {"fill", "cancel"} \cup (IF "submit" \in ui.busy THEN {} ELSE {"submit"}) ELSE {}
WalletCards == IF ui.may /\ ui.form = "closed" THEN ui.cards ELSE {}
openEditCard(k) == k \in WalletCards /\ Set([ui EXCEPT !.form = k, !.filled = TRUE])
openAddCard == ui.may /\ ui.form # "new" /\ Set([ui EXCEPT !.form = "new", !.filled = FALSE])
fillCard == "fill" \in WalletForm /\ Set([ui EXCEPT !.filled = ~@])
cancelCard == "cancel" \in WalletForm /\ Set([Idle(ui, "submit") EXCEPT !.form = "closed"])
handleSaveCard ==
    "submit" \in WalletForm /\ ui.filled /\ Call(Busy(ui, "submit"), "saveCard", IF ui.form = "new" THEN "k2" ELSE ui.form)
savedCard(r) ==
    /\ Replied(r, {"saveCard"})
    /\ \/ r.rep.ok /\ fetchWallet(r, [Idle(ui, "submit") EXCEPT !.form = "closed"])
       \/ ~r.rep.ok /\ Done(r, Idle(ui, "submit"))
handleDeleteCard(k) == k \in WalletCards /\ Call(Busy(ui, "load"), "deleteCard", k)
deletedCard(r) ==
    /\ Replied(r, {"deleteCard"})
    /\ \/ r.rep.ok /\ fetchWallet(r, ui)
       \/ ~r.rep.ok /\ Done(r, Idle(ui, "load"))
WalletServer(r) ==
    \/ r.op = "wallet" /\ Read(r, db.cards)
    \/ r.op = "saveCard" /\ Answer(r, [db EXCEPT !.cards = @ \cup {r.arg}], None)
    \/ r.op = "deleteCard" /\ Answer(r, [db EXCEPT !.cards = @ \ {r.arg}], None)
WalletNext ==
    /\ On("wallet")
    /\ \/ openAddCard \/ fillCard \/ cancelCard \/ handleSaveCard
       \/ \E k \in {"k1", "k2"} : openEditCard(k) \/ handleDeleteCard(k)
       \/ \E r \in net : gotWallet(r) \/ savedCard(r) \/ deletedCard(r) \/ WalletServer(r)

-----------------------------------------------------------------------------
(* The form of a product, new or existing; its media are uploaded while it *)
(* is open, its special actions a list of rows of which empty ones are     *)
(* left out when it is saved.                                              *)

ProductFormInit ==
    \E new \in BOOLEAN :
        Begins("productForm", [busy |-> {}, new |-> new, complete |-> ~new, media |-> <<>>, actions |-> <<>>],
               [gone |-> FALSE], {}, [n |-> 0, saved |-> None])
FormFields == IF "submit" \in ui.busy THEN {"edit"} ELSE {"edit", "submit"}
editProduct == "edit" \in FormFields /\ Set([ui EXCEPT !.complete = ~@])
addAction == "edit" \in FormFields /\ Len(ui.actions) < 2 /\ Set([ui EXCEPT !.actions = Append(@, FALSE)])
setAction(i) == i \in DOMAIN ui.actions /\ Set([ui EXCEPT !.actions[i] = ~@])
dropAt(q, i) == SubSeq(q, 1, i - 1) \o SubSeq(q, i + 1, Len(q))
removeAction(i) == i \in DOMAIN ui.actions /\ Set([ui EXCEPT !.actions = dropAt(@, i)])
\* handleFiles: the media in the form become those it was started with, and the
\* uploaded ones.
handleFiles == Len(ui.media) < 2 /\ Call(ui, "upload", ui.media)
filesUploaded(r) == Replied(r, {"upload"}) /\ Done(r, IF r.rep.ok THEN [ui EXCEPT !.media = Append(r.arg, "m")] ELSE ui)
removeItem(i) == i \in DOMAIN ui.media /\ Set([ui EXCEPT !.media = dropAt(@, i)])
submitProduct == "submit" \in FormFields /\ ui.complete /\ Call(Busy(ui, "submit"), "save", ui.media)
productSaved(r) == Replied(r, {"save"}) /\ DoneAtom(r, Idle(ui, "submit"), IF r.rep.ok THEN [gone |-> TRUE] ELSE atom)
ProductFormServer(r) ==
    \/ r.op = "upload" /\ Read(r, None)
    \/ r.op = "save" /\ Answer(r, [db EXCEPT !.saved = r.arg], None)
ProductFormNext ==
    /\ On("productForm")
    /\ IF atom.gone THEN Quit("productForm")
       ELSE \/ editProduct \/ addAction \/ handleFiles \/ submitProduct
            \/ \E i \in 1..2 : setAction(i) \/ removeAction(i) \/ removeItem(i)
            \/ \E r \in net : filesUploaded(r) \/ productSaved(r) \/ ProductFormServer(r)
=============================================================================
