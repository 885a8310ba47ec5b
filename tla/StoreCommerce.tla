--------------------------- MODULE StoreCommerce ---------------------------
(***************************************************************************)
(* Payments of the DataTiles Store (src/store/datatiles_store/app.py,      *)
(* commerce.py, payments.py), with the catalogue they sell from.           *)
(*                                                                         *)
(* A checkout inserts the transaction, which takes the write lock, and     *)
(* calls the provider before it commits.  A capture calls the provider     *)
(* first.  The provider's effects are not undone when the store fails:     *)
(* an order that was captured is refused a second capture.                 *)
(*                                                                         *)
(* Abstracted: amounts and currencies, the provider's token, and when the  *)
(* buyer approves the order at the provider, before which it is refused.   *)
(* The two capture endpoints find a transaction by different columns and   *)
(* are the same action.                                                    *)
(***************************************************************************)
EXTENDS StoreCatalog

VARIABLES
    orders,         \* payment_transactions, by order
    provider,       \* the provider's state of an order
    payment         \* cashier -> the request it serves

commerceVars == <<orders, provider, payment>>
vars == <<catalogVars, commerceVars>>

\* An order is known by the number of the request that opened it; two were there before.
Order == -1 .. MaxRequests

Status == {"created", "pending", "completed", "cancelled"}

Transaction == [user : User, item : Id, status : Status]

ASSUME NoneAssumption ==
    /\ None \notin Worker \union Cashier /\ Worker \intersect Cashier = {}
    /\ None \notin Transaction /\ None \notin [user : User, item : Id, money : {"due", "taken"}]

NoPayment == [at |-> "idle"]

Pay(c, p) == payment' = [payment EXCEPT ![c] = p]

\* What payments leave alone: all of the catalogue but purchases and the lock.
Catalog == <<files, rows, acceptances, downloads, notifications, safety, request,
             history>>
-----------------------------------------------------------------------------
(***************************************************************************)
(* Checkout.                                                               *)
(***************************************************************************)

Owns(u, id) == \E p \in purchases : p.user = u /\ p.item = id

\* Free and purchased items need no checkout.
StartCheckout(c) ==
    \E u \in User, id \in Id :
        /\ payment[c] = NoPayment /\ served < MaxRequests
        /\ rows[id] # None /\ rows[id].available /\ rows[id].paid /\ ~Owns(u, id)
        /\ served' = served + 1
        /\ Pay(c, [at |-> "checkout", order |-> served + 1, user |-> u, item |-> id])
        /\ UNCHANGED <<Catalog, purchases, writer, faults, orders, provider>>

\* new_transaction: the INSERT takes the lock and keeps it during the call.
NewTransaction(c) ==
    /\ payment[c].at = "checkout"
    /\ writer = None
    /\ writer' = c
    /\ Pay(c, [payment[c] EXCEPT !.at = "inserted"])
    /\ UNCHANGED <<Catalog, purchases, faults, orders, provider, served>>

CreateOrder(c) ==
    /\ payment[c].at = "inserted"
    /\ provider' = [provider EXCEPT ![payment[c].order] = "created"]
    /\ Pay(c, [payment[c] EXCEPT !.at = "created"])
    /\ UNCHANGED <<Catalog, purchases, writer, faults, orders, served>>

CommitCheckout(c) ==
    LET p == payment[c] IN
    /\ p.at = "created"
    /\ orders' = [orders EXCEPT ![p.order] =
                     [user |-> p.user, item |-> p.item, status |-> "created"]]
    /\ writer' = None
    /\ Pay(c, NoPayment)
    /\ UNCHANGED <<Catalog, purchases, faults, provider, served>>
-----------------------------------------------------------------------------
(***************************************************************************)
(* Capture and cancellation.  Neither looks at the transaction's status.   *)
(***************************************************************************)

\* The transaction is loaded with its item, of which nothing is left when it was deleted.
StartCapture(c) ==
    \E o \in Order :
        /\ payment[c] = NoPayment /\ served < MaxRequests
        /\ orders[o] # None
        /\ served' = served + 1
        /\ Pay(c, [at |-> "capture", order |-> o, user |-> orders[o].user,
                   item |-> orders[o].item, row |-> rows[orders[o].item]])
        /\ UNCHANGED <<Catalog, purchases, writer, faults, orders, provider>>

\* The provider captures the order if the buyer has approved it, or answers that it is
\* pending, or refuses it: not approved, captured before, or out of reach.
Capture(c) ==
    LET p == payment[c] IN
    /\ p.at = "capture"
    /\ \/ /\ provider[p.order] = "created"
          /\ provider' = [provider EXCEPT ![p.order] = "captured"]
          /\ Pay(c, [p EXCEPT !.at = "captured"])
       \/ /\ provider[p.order] = "created"
          /\ Pay(c, [p EXCEPT !.at = "pending"])
          /\ UNCHANGED provider
       \/ /\ Pay(c, NoPayment)
          /\ UNCHANGED provider
    /\ UNCHANGED <<Catalog, purchases, writer, faults, orders, served>>

\* Fault: the provider's status is stored as it came.
SetStatusRaw(o, status) ==
    orders' = [orders EXCEPT ![o].status = IF status = "completed" THEN "COMPLETED" ELSE status]

SetStatus(o, status) == orders' = [orders EXCEPT ![o].status = status]

\* Fault: a pending capture gives the item already.
CommitPendingGives(c) ==
    LET p == payment[c] IN
    /\ p.at = "pending"
    /\ writer = None /\ p.row # None
    /\ SetStatus(p.order, "pending")
    /\ purchases' = purchases \union
           {[user |-> p.user, item |-> p.item, sequence |-> Sequence[p.row.content]]}
    /\ Pay(c, NoPayment)
    /\ UNCHANGED <<Catalog, writer, faults, provider, served>>

CommitPending(c) ==
    /\ payment[c].at = "pending"
    /\ writer = None
    /\ SetStatus(payment[c].order, "pending")
    /\ Pay(c, NoPayment)
    /\ UNCHANGED <<Catalog, purchases, writer, faults, provider, served>>

Purchase(p) == [user |-> p.user, item |-> p.item, sequence |-> Sequence[p.row.content]]

\* Fault: the status is committed before the purchase is recorded.
CommitStatusFirst(c) ==
    LET p == payment[c] IN
    /\ p.at = "captured"
    /\ writer = None
    /\ SetStatus(p.order, "completed")
    /\ UNCHANGED purchases
    /\ Pay(c, IF Owns(p.user, p.item) THEN NoPayment ELSE [p EXCEPT !.at = "status"])
    /\ UNCHANGED <<Catalog, writer, faults, provider, served>>

\* Fault: every capture records a purchase.
CommitPurchaseAgain(c) ==
    LET p == payment[c] IN
    /\ p.at = "captured"
    /\ writer = None
    /\ p.row # None
    /\ SetStatus(p.order, "completed")
    /\ purchases' = purchases \union {[Purchase(p) EXCEPT !.sequence = p.order + 1]}
    /\ Pay(c, NoPayment)
    /\ UNCHANGED <<Catalog, writer, faults, provider, served>>

\* complete_purchase, in the transaction of the status: an existing purchase stays;
\* without the item it raises, and the status is rolled back.
CommitCapture(c) ==
    LET p == payment[c] IN
    /\ p.at = "captured"
    /\ writer = None
    /\ \/ /\ Owns(p.user, p.item)
          /\ SetStatus(p.order, "completed")
          /\ UNCHANGED purchases
       \/ /\ ~Owns(p.user, p.item) /\ p.row # None
          /\ SetStatus(p.order, "completed")
          /\ purchases' = purchases \union {Purchase(p)}
       \/ /\ ~Owns(p.user, p.item) /\ p.row = None
          /\ UNCHANGED <<orders, purchases>>
    /\ Pay(c, NoPayment)
    /\ UNCHANGED <<Catalog, writer, faults, provider, served>>

\* paypal_cancel: whatever became of the order.
Cancel(o) ==
    /\ served < MaxRequests
    /\ orders[o] # None
    /\ writer = None
    /\ SetStatus(o, "cancelled")
    /\ served' = served + 1
    /\ UNCHANGED <<Catalog, purchases, writer, faults, provider, payment>>

KillPayment(c) ==
    /\ payment[c].at \in {"inserted", "created", "captured", "pending"} /\ faults < MaxFaults
    /\ Pay(c, NoPayment)
    /\ writer' = IF writer = c THEN None ELSE writer
    /\ faults' = faults + 1
    /\ UNCHANGED <<Catalog, purchases, orders, provider, served>>

Cash(c) ==
    \/ StartCheckout(c) \/ NewTransaction(c) \/ CreateOrder(c) \/ CommitCheckout(c)
    \/ StartCapture(c) \/ Capture(c) \/ CommitPending(c) \/ CommitCapture(c)
    \/ KillPayment(c)

Init ==
    /\ CatalogInit
    /\ \E first \in {None} \union [user : User, item : {1}, status : {"created"}] :
          /\ first # None => rows[1] # None /\ rows[1].paid
          /\ orders = [o \in Order |-> IF o <= 0 THEN first ELSE None]
          /\ provider = [o \in Order |-> IF orders[o] = None THEN "none" ELSE "created"]
    /\ payment = [c \in Cashier |-> NoPayment]

Next ==
    \/ CatalogNext /\ UNCHANGED commerceVars
    \/ \E c \in Cashier : Cash(c)
    \/ \E o \in Order : Cancel(o)

Spec == Init /\ [][Next]_vars
-----------------------------------------------------------------------------
\* The type of the store's state.
TypeOK ==
    /\ CatalogTypeOK
    /\ orders \in [Order -> Transaction \union {None}]
    /\ provider \in [Order -> {"none", "created", "captured"}]
    /\ purchases \subseteq [user : User, item : Id, sequence : Nat]

\* A transaction says "completed" only when its user was given its item, whatever
\* cancellations, kills and other captures came before or after.
CompletedIsPurchased ==
    \A o \in Order : orders[o] # None /\ orders[o].status = "completed" =>
        Owns(orders[o].user, orders[o].item)

Ledger == INSTANCE PaymentLedger WITH
    Item <- Id,
    ledger <- [o \in Order |->
                  IF orders[o] = None THEN None
                  ELSE [user |-> orders[o].user, item |-> orders[o].item,
                        money |-> IF provider[o] = "captured" THEN "taken" ELSE "due"]],
    granted <- {[user |-> p.user, item |-> p.item] : p \in purchases}

\* The store keeps its promise: money is taken once, and an item is given once, to
\* whom it was taken from.
KeepsLedger == Ledger!Spec

\* The write lock is with the one thread that has written and not committed: it is never
\* left behind by a request that failed, was killed or has answered, nor lost by one
\* that another's failure interrupts.
TheLockIsReturned ==
    /\ \A w \in Worker : writer = w <=> Writes(request[w])
    /\ \A c \in Cashier : writer = c <=> payment[c].at \in {"inserted", "created"}

\* Two purchases of an item by a user do not exist.
OnePurchasePerItem ==
    \A p, q \in purchases : p.user = q.user /\ p.item = q.item => p = q
=============================================================================
