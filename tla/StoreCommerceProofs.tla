-------------------------- MODULE StoreCommerceProofs --------------------------
(***************************************************************************)
(* Safety of the store's payments, for any number of users, items, orders  *)
(* and threads, and that they keep the promise of PaymentLedger.           *)
(*                                                                         *)
(* The number of a request is its order's, so that no two requests open    *)
(* one order (CheckoutsAreApart), and who captures an order knows whose    *)
(* it is and that its money was taken (CapturesKnowTheirOrder): a purchase *)
(* is recorded in the transaction that finds none.                         *)
(***************************************************************************)
EXTENDS StoreCommerce, StoreCatalogProofs

CheckoutPayment ==
    [at : {"checkout", "inserted", "created"}, order : 1 .. MaxRequests, user : User, item : Id]

CapturePayment ==
    [at : {"capture", "captured", "pending"}, order : Order, user : User, item : Id,
     row : Row \union {None}]

PaymentTyped ==
    payment \in [Cashier -> CheckoutPayment \union CapturePayment \union {NoPayment}]

\* An order is opened once, by the request whose number it has.
CheckoutsAreApart ==
    /\ \A o \in Order : o > served => orders[o] = None
    /\ \A c \in Cashier : payment[c] \in CheckoutPayment =>
          /\ payment[c].order <= served
          /\ orders[payment[c].order] = None
          /\ payment[c].at = "created" => provider[payment[c].order] = "created"
          /\ \A d \in Cashier \ {c} :
                payment[d] \in CheckoutPayment => payment[d].order # payment[c].order

CapturesKnowTheirOrder ==
    \A c \in Cashier : payment[c] \in CapturePayment =>
        /\ orders[payment[c].order] # None
        /\ orders[payment[c].order].user = payment[c].user
        /\ orders[payment[c].order].item = payment[c].item
        /\ payment[c].at = "captured" => provider[payment[c].order] = "captured"

LedgerTyped ==
    /\ orders \in [Order -> Transaction \union {None}]
    /\ provider \in [Order -> {"none", "created", "captured"}]
    /\ purchases \subseteq [user : User, item : Id, sequence : Nat]

CommerceInv ==
    /\ LedgerTyped
    /\ PaymentTyped
    /\ CheckoutsAreApart
    /\ CapturesKnowTheirOrder
    /\ CompletedIsPurchased
    /\ OnePurchasePerItem

IInv == CatalogIInv /\ StampsAreApart /\ QuietScans /\ CommerceInv
-----------------------------------------------------------------------------
(***************************************************************************)
(* What a payment is told by where it stands, and what it leaves alone.    *)
(***************************************************************************)

LEMMA PaymentStages ==
    ASSUME PaymentTyped, NEW c \in Cashier
    PROVE  /\ payment[c].at \in {"checkout", "inserted", "created"}
                 => payment[c] \in CheckoutPayment
           /\ payment[c].at \in {"capture", "captured", "pending"}
                 => payment[c] \in CapturePayment
           /\ payment[c] \in CheckoutPayment =>
                 /\ payment[c].order \in Order /\ payment[c].order \in 1 .. MaxRequests
                 /\ payment[c] \notin CapturePayment
BY BoundAssumption DEF PaymentTyped, CheckoutPayment, CapturePayment, NoPayment, Order

\* The steps of payments.
Paying == (\E c \in Cashier : Cash(c)) \/ (\E o \in Order : Cancel(o))

LEMMA PayingLeavesCatalog ==
    ASSUME Paying
    PROVE  UNCHANGED <<files, rows, acceptances, downloads, notifications, safety, request,
                       clashed, accepted, sent>>
BY DEF Paying, Cash, StartCheckout, NewTransaction, CreateOrder, CommitCheckout, StartCapture,
       Capture, CommitPending, CommitCapture, KillPayment, Cancel, Catalog, history

LEMMA PayingCounts ==
    ASSUME CatalogTyped, Paying
    PROVE  /\ served' \in 0 .. MaxRequests /\ served <= served'
           /\ faults' \in 0 .. MaxFaults
           /\ writer' \in Worker \union Cashier \union {None}
           /\ purchases \subseteq purchases'
<1>0. /\ served \in 0 .. MaxRequests /\ faults \in 0 .. MaxFaults /\ served \in Nat
      /\ faults \in Nat /\ MaxRequests \in Nat /\ MaxFaults \in Nat
      /\ writer \in Worker \union Cashier \union {None}
    BY BoundAssumption DEF CatalogTyped, CatalogTypeOK
<1>1. ASSUME NEW c \in Cashier, Cash(c)
      PROVE  /\ served' = served \/ (served < MaxRequests /\ served' = served + 1)
             /\ faults' = faults \/ (faults < MaxFaults /\ faults' = faults + 1)
             /\ writer' \in {writer, None, c}
             /\ purchases \subseteq purchases'
    BY <1>1 DEF Cash, StartCheckout, NewTransaction, CreateOrder, CommitCheckout, StartCapture,
                Capture, CommitPending, CommitCapture, KillPayment
<1>2. ASSUME NEW o \in Order, Cancel(o)
      PROVE  /\ served < MaxRequests /\ served' = served + 1
             /\ UNCHANGED <<faults, writer, purchases>>
    BY <1>2 DEF Cancel
<1> QED BY <1>0, <1>1, <1>2 DEF Paying

\* The catalogue's invariant holds through payments, which only add purchases.
LEMMA PayingKeepsCatalog == ASSUME CatalogIInv, Paying PROVE CatalogIInv'
<1>1. CatalogTyped'
    BY PayingLeavesCatalog, PayingCounts DEF CatalogIInv, CatalogTyped, CatalogTypeOK
<1>2. purchases \subseteq purchases'
    BY PayingCounts DEF CatalogIInv
<1>3. AcceptancesWereMade' /\ DownloadsWereAccepted'
    BY PayingLeavesCatalog DEF CatalogIInv, AcceptancesWereMade, DownloadsWereAccepted
<1>4. GatedWereAccepted'
    BY <1>2, PayingLeavesCatalog DEF CatalogIInv, GatedWereAccepted, Stage
<1>5. PaidDownloadsAreBuyers'
    BY <1>2, PayingLeavesCatalog DEF CatalogIInv, PaidDownloadsAreBuyers
<1> QED BY <1>1, <1>3, <1>4, <1>5 DEF CatalogIInv

\* Payments give stamps to no file: their requests are counted, too.
LEMMA PayingKeepsStamps ==
    ASSUME CatalogTyped, StampsAreApart, Paying PROVE StampsAreApart'
<1>1. PICK f \in StampMap : StampsFit(f)
    BY DEF StampsAreApart
<1>2. served \in Nat /\ served' \in Nat /\ served <= served'
    BY <1>1, KnownRow, PayingCounts
<1>3. UNCHANGED <<files, rows, clashed, request>>
    BY PayingLeavesCatalog
<1>4. \A w \in Worker : Knows(f, served', clashed, request[w])
    BY <1>1, <1>2, KnowsGrow DEF StampsFit, RequestsFit
<1>5. FilesFit(f)' /\ RowsFit(f)'
    BY <1>1, <1>2, <1>3, FitsGrow DEF StampsFit, FilesFit, RowsFit
<1> QED BY <1>1, <1>3, <1>4, <1>5 DEF StampsAreApart, StampsFit, RequestsFit

\* After a payment began, a scan is not the last request.
LEMMA PayingKeepsScans ==
    ASSUME CatalogTyped, QuietScans, Paying PROVE QuietScans'
<1>1. UNCHANGED <<files, rows, request>>
    BY PayingLeavesCatalog
<1>2. served \in Nat /\ served' \in Nat /\ served <= served'
    BY PayingCounts, BoundAssumption DEF CatalogTyped, CatalogTypeOK
<1> SUFFICES ASSUME NEW w \in Worker, request[w] \in ScanRequest
             PROVE  /\ request[w].number <= served'
                    /\ Quiet(w)' => /\ \A v \in Worker \ {w} : request'[v] = Idle
                                    /\ Repairing(request[w])'
    BY <1>1 DEF QuietScans, Quiet
<1>3. request[w].number <= served /\ request[w].number \in Nat
    BY DEF QuietScans, ScanRequest
<1>4. Quiet(w)' => Quiet(w)
    BY <1>1, <1>2, <1>3 DEF Quiet
<1>5. Repairing(request[w]) => Repairing(request[w])'
    BY <1>1 DEF Repairing, LoadedIsTable, HiddenIsRow, AvailableIsFile, FileIsAvailable, AllTell,
                Tells
<1> QED BY <1>1, <1>2, <1>3, <1>4, <1>5 DEF QuietScans
-----------------------------------------------------------------------------
(***************************************************************************)
(* The payments' invariant, an action at a time.                           *)
(***************************************************************************)

LEMMA CatalogKeepsCommerce ==
    ASSUME IInv, CatalogNext, UNCHANGED commerceVars PROVE CommerceInv'
<1>1. purchases' = purchases /\ served <= served' /\ served \in Nat /\ served' \in Nat
    BY CatalogRecords, CatalogTypeStep, BoundAssumption
       DEF IInv, CatalogIInv, CatalogTyped, CatalogTypeOK
<1>2. CheckoutsAreApart'
    BY <1>1 DEF IInv, CommerceInv, CheckoutsAreApart, CheckoutPayment, commerceVars, Order
<1> QED BY <1>1, <1>2 DEF IInv, CommerceInv, LedgerTyped, PaymentTyped, CapturesKnowTheirOrder,
                          CompletedIsPurchased, OnePurchasePerItem, Owns, commerceVars

\* Payments that do not touch the ledger but advance by a step.
LEMMA LedgerStays ==
    ASSUME IInv, Paying, UNCHANGED <<orders, purchases>>
    PROVE  CompletedIsPurchased' /\ OnePurchasePerItem'
BY DEF IInv, CommerceInv, CompletedIsPurchased, OnePurchasePerItem, Owns

LEMMA StartCheckoutKeeps ==
    ASSUME IInv, NEW c \in Cashier, StartCheckout(c) PROVE CommerceInv'
<1>0. Paying /\ UNCHANGED <<orders, provider, purchases>>
    BY DEF Paying, Cash, StartCheckout
<1>1. /\ served \in Nat /\ served < MaxRequests /\ served' = served + 1
      /\ payment[c] = NoPayment
    BY BoundAssumption DEF StartCheckout, IInv, CatalogIInv, CatalogTyped, CatalogTypeOK
<1>2. PICK new \in CheckoutPayment :
        payment' = [payment EXCEPT ![c] = new] /\ new.order = served + 1 /\ new.at = "checkout"
    <2>1. PICK u \in User, id \in Id :
             Pay(c, [at |-> "checkout", order |-> served + 1, user |-> u, item |-> id])
        BY DEF StartCheckout
    <2>2. [at |-> "checkout", order |-> served + 1, user |-> u, item |-> id] \in CheckoutPayment
        BY <1>1, BoundAssumption DEF CheckoutPayment
    <2> QED BY <2>1, <2>2 DEF Pay
<1>3. payment' = [d \in Cashier |-> IF d = c THEN new ELSE payment[d]]
    BY <1>2 DEF IInv, CommerceInv, PaymentTyped
<1>4. PaymentTyped'
    BY <1>3 DEF IInv, CommerceInv, PaymentTyped
<1>5. new.order \in Order /\ orders[new.order] = None
    BY <1>1, <1>2, BoundAssumption DEF IInv, CommerceInv, CheckoutsAreApart, Order
<1>6. CheckoutsAreApart'
    <2>1. \A o \in Order : o > served' => orders'[o] = None
        BY <1>0, <1>1 DEF IInv, CommerceInv, CheckoutsAreApart, Order
    <2>2. \A d \in Cashier : payment[d] \in CheckoutPayment =>
             payment[d].order < new.order /\ payment[d].order \in Nat
        BY <1>1, <1>2 DEF IInv, CommerceInv, CheckoutsAreApart, CheckoutPayment
    <2> QED BY <1>0, <1>1, <1>2, <1>3, <1>5, <2>1, <2>2
            DEF IInv, CommerceInv, CheckoutsAreApart
<1>7. CapturesKnowTheirOrder'
    BY <1>0, <1>3, PaymentStages DEF IInv, CommerceInv, CapturesKnowTheirOrder, CheckoutPayment,
        CapturePayment
<1> QED BY <1>0, <1>4, <1>6, <1>7, LedgerStays DEF IInv, CommerceInv, LedgerTyped

\* A checkout goes on: its order and whose it is stay as they are.
LEMMA CheckoutGoesOn ==
    ASSUME IInv, NEW c \in Cashier, NEW at \in {"inserted", "created"},
           payment[c] \in CheckoutPayment,
           payment' = [payment EXCEPT ![c] = [payment[c] EXCEPT !.at = at]],
           UNCHANGED <<orders, served>>,
           \A o \in Order \ {payment[c].order} : provider'[o] = provider[o],
           at = "created" => provider'[payment[c].order] = "created"
    PROVE  PaymentTyped' /\ CheckoutsAreApart' /\ CapturesKnowTheirOrder'
<1> DEFINE new == [payment[c] EXCEPT !.at = at]
<1>1. new \in CheckoutPayment /\ new.order = payment[c].order /\ new.at = at
    BY DEF CheckoutPayment
<1>2. payment' = [d \in Cashier |-> IF d = c THEN new ELSE payment[d]]
    BY DEF IInv, CommerceInv, PaymentTyped
<1> HIDE DEF new
<1>3. PaymentTyped'
    BY <1>1, <1>2 DEF IInv, CommerceInv, PaymentTyped
<1>4. CheckoutsAreApart'
    <2>1. \A d \in Cashier \ {c} : payment[d] \in CheckoutPayment =>
             payment[d].order \in Order \ {payment[c].order}
        BY PaymentStages DEF IInv, CommerceInv, CheckoutsAreApart
    <2> QED BY <1>1, <1>2, <2>1 DEF IInv, CommerceInv, CheckoutsAreApart
<1>5. CapturesKnowTheirOrder'
    <2>1. \A d \in Cashier : payment[d] \in CapturePayment =>
             payment[d].order \in Order \ {payment[c].order}
        BY DEF IInv, CommerceInv, CheckoutsAreApart, CapturesKnowTheirOrder, CapturePayment
    <2>2. new \notin CapturePayment
        BY <1>1 DEF CheckoutPayment, CapturePayment
    <2> QED BY <1>2, <2>1, <2>2 DEF IInv, CommerceInv, CapturesKnowTheirOrder
<1> QED BY <1>3, <1>4, <1>5

LEMMA NewTransactionKeeps ==
    ASSUME IInv, NEW c \in Cashier, NewTransaction(c) PROVE CommerceInv'
<1>0. Paying /\ UNCHANGED <<orders, provider, purchases, served>>
    BY DEF Paying, Cash, NewTransaction
<1>1. payment[c] \in CheckoutPayment
    BY PaymentStages DEF NewTransaction, IInv, CommerceInv
<1>2. payment' = [payment EXCEPT ![c] = [payment[c] EXCEPT !.at = "inserted"]]
    BY DEF NewTransaction, Pay
<1>3. PaymentTyped' /\ CheckoutsAreApart' /\ CapturesKnowTheirOrder'
    BY <1>0, <1>1, <1>2, CheckoutGoesOn
<1> QED BY <1>0, <1>3, LedgerStays DEF IInv, CommerceInv, LedgerTyped

LEMMA CreateOrderKeeps ==
    ASSUME IInv, NEW c \in Cashier, CreateOrder(c) PROVE CommerceInv'
<1>0. Paying /\ UNCHANGED <<orders, purchases, served>>
    BY DEF Paying, Cash, CreateOrder
<1>1. payment[c] \in CheckoutPayment /\ payment[c].order \in Order
    BY PaymentStages DEF CreateOrder, IInv, CommerceInv
<1>2. /\ payment' = [payment EXCEPT ![c] = [payment[c] EXCEPT !.at = "created"]]
      /\ provider' = [provider EXCEPT ![payment[c].order] = "created"]
    BY DEF CreateOrder, Pay
<1>3. provider' = [o \in Order |-> IF o = payment[c].order THEN "created" ELSE provider[o]]
    BY <1>2 DEF IInv, CommerceInv, LedgerTyped
<1>4. PaymentTyped' /\ CheckoutsAreApart' /\ CapturesKnowTheirOrder'
    BY <1>0, <1>1, <1>2, <1>3, CheckoutGoesOn
<1>5. LedgerTyped'
    BY <1>0, <1>3 DEF IInv, CommerceInv, LedgerTyped
<1> QED BY <1>0, <1>4, <1>5, LedgerStays DEF CommerceInv

\* A payment that is over.
LEMMA PaymentEnds ==
    ASSUME IInv, NEW c \in Cashier, payment' = [payment EXCEPT ![c] = NoPayment],
           UNCHANGED <<orders, provider, served>>
    PROVE  PaymentTyped' /\ CheckoutsAreApart' /\ CapturesKnowTheirOrder'
<1>1. payment' = [d \in Cashier |-> IF d = c THEN NoPayment ELSE payment[d]]
    BY DEF IInv, CommerceInv, PaymentTyped
<1>2. NoPayment \notin CheckoutPayment /\ NoPayment \notin CapturePayment
    BY DEF NoPayment, CheckoutPayment, CapturePayment
<1>3. PaymentTyped'
    BY <1>1 DEF IInv, CommerceInv, PaymentTyped
<1>4. CheckoutsAreApart'
    BY <1>1, <1>2 DEF IInv, CommerceInv, CheckoutsAreApart
<1>5. CapturesKnowTheirOrder'
    BY <1>1, <1>2 DEF IInv, CommerceInv, CapturesKnowTheirOrder
<1> QED BY <1>3, <1>4, <1>5

LEMMA KillPaymentKeeps ==
    ASSUME IInv, NEW c \in Cashier, KillPayment(c) PROVE CommerceInv'
<1>0. Paying /\ UNCHANGED <<orders, provider, purchases, served>>
    BY DEF Paying, Cash, KillPayment
<1>1. PaymentTyped' /\ CheckoutsAreApart' /\ CapturesKnowTheirOrder'
    BY <1>0, PaymentEnds DEF KillPayment, Pay
<1> QED BY <1>0, <1>1, LedgerStays DEF IInv, CommerceInv, LedgerTyped

LEMMA CommitCheckoutKeeps ==
    ASSUME IInv, NEW c \in Cashier, CommitCheckout(c) PROVE CommerceInv'
<1> DEFINE p == payment[c]
           new == [user |-> p.user, item |-> p.item, status |-> "created"]
<1>0. Paying /\ UNCHANGED <<provider, purchases, served>>
    BY DEF Paying, Cash, CommitCheckout
<1>1. /\ p \in CheckoutPayment /\ p.order \in Order /\ p.order <= served
      /\ p.order \in 1 .. MaxRequests /\ orders[p.order] = None
    BY PaymentStages DEF CommitCheckout, IInv, CommerceInv, CheckoutsAreApart
<1>2. new \in Transaction /\ new # None
    BY <1>1, NoneAssumption DEF CheckoutPayment, Transaction, Status
<1>3. /\ orders' = [o \in Order |-> IF o = p.order THEN new ELSE orders[o]]
      /\ payment' = [d \in Cashier |-> IF d = c THEN NoPayment ELSE payment[d]]
    BY DEF CommitCheckout, Pay, IInv, CommerceInv, LedgerTyped, PaymentTyped
<1>4. NoPayment \notin CheckoutPayment /\ NoPayment \notin CapturePayment /\ new.status = "created"
    BY DEF NoPayment, CheckoutPayment, CapturePayment
<1> HIDE DEF new
<1>5. LedgerTyped' /\ PaymentTyped'
    BY <1>0, <1>2, <1>3 DEF IInv, CommerceInv, LedgerTyped, PaymentTyped
<1>6. CheckoutsAreApart'
    <2>1. \A d \in Cashier \ {c} : payment[d] \in CheckoutPayment =>
             payment[d].order \in Order /\ payment[d].order # p.order
        BY <1>1, PaymentStages DEF IInv, CommerceInv, CheckoutsAreApart
    <2>2. \A o \in Order : o > served => o # p.order
        <3>1. served \in Int
            BY BoundAssumption DEF IInv, CatalogIInv, CatalogTyped, CatalogTypeOK
        <3> QED BY <1>1, <3>1, BoundAssumption DEF Order
    <2> QED BY <1>0, <1>3, <1>4, <2>1, <2>2 DEF IInv, CommerceInv, CheckoutsAreApart
<1>7. CapturesKnowTheirOrder'
    <2>1. \A d \in Cashier : payment[d] \in CapturePayment =>
             payment[d].order \in Order /\ payment[d].order # p.order
        BY <1>1 DEF IInv, CommerceInv, CapturesKnowTheirOrder, CapturePayment
    <2> QED BY <1>0, <1>3, <1>4, <2>1 DEF IInv, CommerceInv, CapturesKnowTheirOrder
<1>8. CompletedIsPurchased' /\ OnePurchasePerItem'
    BY <1>0, <1>3, <1>4 DEF IInv, CommerceInv, CompletedIsPurchased, OnePurchasePerItem, Owns
<1> QED BY <1>5, <1>6, <1>7, <1>8 DEF CommerceInv

LEMMA StartCaptureKeeps ==
    ASSUME IInv, NEW c \in Cashier, StartCapture(c) PROVE CommerceInv'
<1>0. Paying /\ UNCHANGED <<orders, provider, purchases>>
    BY DEF Paying, Cash, StartCapture
<1>1. served \in Nat /\ served' = served + 1 /\ served' \in Nat
    BY BoundAssumption DEF StartCapture, IInv, CatalogIInv, CatalogTyped, CatalogTypeOK
<1>2. PICK new \in CapturePayment :
        /\ payment' = [payment EXCEPT ![c] = new]
        /\ new.at = "capture" /\ orders[new.order] # None
        /\ new.user = orders[new.order].user /\ new.item = orders[new.order].item
    <2>1. PICK o \in Order :
             /\ orders[o] # None
             /\ Pay(c, [at |-> "capture", order |-> o, user |-> orders[o].user,
                        item |-> orders[o].item, row |-> rows[orders[o].item]])
        BY DEF StartCapture
    <2>2. orders[o] \in Transaction
        BY <2>1 DEF IInv, CommerceInv, LedgerTyped
    <2>3. rows[orders[o].item] \in Row \union {None}
        BY <2>2 DEF Transaction, IInv, CatalogIInv, CatalogTyped, CatalogTypeOK
    <2>4. [at |-> "capture", order |-> o, user |-> orders[o].user,
           item |-> orders[o].item, row |-> rows[orders[o].item]] \in CapturePayment
        BY <2>2, <2>3 DEF CapturePayment, Transaction
    <2> QED BY <2>1, <2>4 DEF Pay
<1>3. payment' = [d \in Cashier |-> IF d = c THEN new ELSE payment[d]]
    BY <1>2 DEF IInv, CommerceInv, PaymentTyped
<1>4. new \notin CheckoutPayment
    BY DEF CheckoutPayment, CapturePayment
<1>5. PaymentTyped'
    BY <1>3 DEF IInv, CommerceInv, PaymentTyped
<1>6. CheckoutsAreApart'
    <2>1. \A o \in Order : o > served' => orders'[o] = None
        BY <1>0, <1>1 DEF IInv, CommerceInv, CheckoutsAreApart, Order
    <2>2. \A d \in Cashier : payment[d] \in CheckoutPayment => payment[d].order <= served'
        BY <1>1 DEF IInv, CommerceInv, CheckoutsAreApart, CheckoutPayment
    <2> QED BY <1>0, <1>3, <1>4, <2>1, <2>2 DEF IInv, CommerceInv, CheckoutsAreApart
<1>7. CapturesKnowTheirOrder'
    BY <1>0, <1>2, <1>3 DEF IInv, CommerceInv, CapturesKnowTheirOrder
<1> QED BY <1>0, <1>5, <1>6, <1>7, LedgerStays DEF IInv, CommerceInv, LedgerTyped

LEMMA CaptureKeeps ==
    ASSUME IInv, NEW c \in Cashier, Capture(c) PROVE CommerceInv'
<1> DEFINE p == payment[c]
<1>0. Paying /\ UNCHANGED <<orders, purchases, served>>
    BY DEF Paying, Cash, Capture
<1>1. p \in CapturePayment /\ p.order \in Order
    BY PaymentStages DEF Capture, IInv, CommerceInv, CapturePayment
<1>2. ASSUME NEW new \in CapturePayment \union {NoPayment},
             payment' = [payment EXCEPT ![c] = new],
             new # NoPayment => new.order = p.order /\ new.user = p.user /\ new.item = p.item,
             \A o \in Order :
                \/ provider'[o] = provider[o]
                \/ (o = p.order /\ provider[o] = "created" /\ provider'[o] = "captured"),
             new # NoPayment /\ new.at = "captured" => provider'[p.order] = "captured"
      PROVE  PaymentTyped' /\ CheckoutsAreApart' /\ CapturesKnowTheirOrder'
    <2>1. payment' = [d \in Cashier |-> IF d = c THEN new ELSE payment[d]]
        BY <1>2 DEF IInv, CommerceInv, PaymentTyped
    <2>2. new \notin CheckoutPayment /\ NoPayment \notin CapturePayment
        BY DEF NoPayment, CheckoutPayment, CapturePayment
    <2>3. PaymentTyped'
        BY <2>1 DEF IInv, CommerceInv, PaymentTyped
    <2>4. CheckoutsAreApart'
        <3>1. \A d \in Cashier : payment[d] \in CheckoutPayment =>
                 payment[d].order \in Order /\ payment[d].order # p.order
            BY <1>1, PaymentStages DEF IInv, CommerceInv, CheckoutsAreApart,
               CapturesKnowTheirOrder
        <3>2. \A d \in Cashier : payment[d] \in CheckoutPayment =>
                 provider'[payment[d].order] = provider[payment[d].order]
            BY <1>2, <3>1
        <3> QED BY <1>0, <2>1, <2>2, <3>2 DEF IInv, CommerceInv, CheckoutsAreApart
    <2>5. CapturesKnowTheirOrder'
        <3>1. \A d \in Cashier : payment[d] \in CapturePayment =>
                 /\ payment[d].order \in Order
                 /\ provider[payment[d].order] = "captured"
                       => provider'[payment[d].order] = "captured"
            BY <1>2 DEF CapturePayment
        <3> QED BY <1>0, <1>1, <1>2, <2>1, <2>2, <3>1
                DEF IInv, CommerceInv, CapturesKnowTheirOrder
    <2> QED BY <2>3, <2>4, <2>5
<1>3. PaymentTyped' /\ CheckoutsAreApart' /\ CapturesKnowTheirOrder' /\ LedgerTyped'
    <2>1. CASE /\ provider[p.order] = "created"
               /\ provider' = [provider EXCEPT ![p.order] = "captured"]
               /\ Pay(c, [p EXCEPT !.at = "captured"])
        <3> DEFINE new == [p EXCEPT !.at = "captured"]
        <3>1. /\ new \in CapturePayment /\ new.at = "captured"
              /\ new.order = p.order /\ new.user = p.user /\ new.item = p.item
            BY <1>1 DEF CapturePayment
        <3>2. /\ payment' = [payment EXCEPT ![c] = new]
              /\ provider' = [o \in Order |-> IF o = p.order THEN "captured" ELSE provider[o]]
            BY <2>1 DEF Pay, IInv, CommerceInv, LedgerTyped
        <3>3. LedgerTyped'
            BY <1>0, <3>2 DEF IInv, CommerceInv, LedgerTyped
        <3>4. /\ \A o \in Order :
                    \/ provider'[o] = provider[o]
                    \/ (o = p.order /\ provider[o] = "created" /\ provider'[o] = "captured")
              /\ provider'[p.order] = "captured"
            <4> HIDE DEF p, new
            <4> QED BY <1>1, <2>1, <3>2
        <3> HIDE DEF new, p
        <3>5. PaymentTyped' /\ CheckoutsAreApart' /\ CapturesKnowTheirOrder'
            BY <1>2, <3>1, <3>2, <3>4
        <3> QED BY <3>3, <3>5
    <2>2. CASE Pay(c, [p EXCEPT !.at = "pending"]) /\ UNCHANGED provider
        <3> DEFINE new == [p EXCEPT !.at = "pending"]
        <3>1. /\ new \in CapturePayment /\ new.at = "pending"
              /\ new.order = p.order /\ new.user = p.user /\ new.item = p.item
            BY <1>1 DEF CapturePayment
        <3>2. payment' = [payment EXCEPT ![c] = new]
            BY <2>2 DEF Pay
        <3>3. LedgerTyped'
            BY <1>0, <2>2 DEF IInv, CommerceInv, LedgerTyped
        <3> HIDE DEF new, p
        <3>4. PaymentTyped' /\ CheckoutsAreApart' /\ CapturesKnowTheirOrder'
            <4>1. \A o \in Order : provider'[o] = provider[o]
                BY <2>2
            <4> QED BY <1>2, <3>1, <3>2, <4>1
        <3> QED BY <3>3, <3>4
    <2>3. CASE Pay(c, NoPayment) /\ UNCHANGED provider
        BY <1>0, <2>3, PaymentEnds DEF Pay, IInv, CommerceInv, LedgerTyped
    <2> QED BY <2>1, <2>2, <2>3 DEF Capture
<1> QED BY <1>0, <1>3, LedgerStays DEF CommerceInv

\* An order's status changes; whose it is does not.
LEMMA StatusChanges ==
    ASSUME IInv, NEW o \in Order, NEW status \in Status, orders[o] # None,
           SetStatus(o, status)
    PROVE  /\ orders' \in [Order -> Transaction \union {None}]
           /\ \A q \in Order :
                 /\ orders'[q] # None <=> orders[q] # None
                 /\ orders[q] # None => /\ orders'[q].user = orders[q].user
                                        /\ orders'[q].item = orders[q].item
                 /\ q # o => orders'[q] = orders[q]
           /\ orders'[o].status = status
<1> DEFINE new == [orders[o] EXCEPT !.status = status]
<1>1. orders[o] \in Transaction
    BY DEF IInv, CommerceInv, LedgerTyped
<1>2. /\ new \in Transaction /\ new.user = orders[o].user /\ new.item = orders[o].item
      /\ new.status = status
    BY <1>1 DEF Transaction
<1>3. orders' = [q \in Order |-> IF q = o THEN new ELSE orders[q]]
    BY DEF SetStatus, IInv, CommerceInv, LedgerTyped
<1> HIDE DEF new
<1> QED BY <1>1, <1>2, <1>3, NoneAssumption DEF IInv, CommerceInv, LedgerTyped

\* The orders are those they were, of whom they were.
SameOrders ==
    \A q \in Order :
        /\ orders'[q] # None <=> orders[q] # None
        /\ orders[q] # None => /\ orders'[q].user = orders[q].user
                               /\ orders'[q].item = orders[q].item

LEMMA SameOrdersKeep ==
    ASSUME IInv, SameOrders, provider' = provider, served <= served', served' \in Nat,
           \/ payment' = payment
           \/ \E c \in Cashier : payment' = [payment EXCEPT ![c] = NoPayment]
    PROVE  PaymentTyped' /\ CheckoutsAreApart' /\ CapturesKnowTheirOrder'
<1>0. served \in Nat
    BY BoundAssumption DEF IInv, CatalogIInv, CatalogTyped, CatalogTypeOK
<1>1. PaymentTyped' /\ \A d \in Cashier : payment'[d] = payment[d] \/ payment'[d] = NoPayment
    BY DEF IInv, CommerceInv, PaymentTyped
<1>2. NoPayment \notin CheckoutPayment /\ NoPayment \notin CapturePayment
    BY DEF NoPayment, CheckoutPayment, CapturePayment
<1>3. \A o \in Order : o > served' => orders'[o] = None
    BY <1>0 DEF IInv, CommerceInv, CheckoutsAreApart, SameOrders, Order
<1>4. \A d \in Cashier : payment[d] \in CheckoutPayment =>
         payment[d].order <= served' /\ orders'[payment[d].order] = None
    BY <1>0, PaymentStages DEF IInv, CommerceInv, CheckoutsAreApart, SameOrders, CheckoutPayment
<1>5. CheckoutsAreApart'
    BY <1>1, <1>2, <1>3, <1>4 DEF IInv, CommerceInv, CheckoutsAreApart
<1>6. \A d \in Cashier : payment[d] \in CapturePayment => payment[d].order \in Order
    BY DEF CapturePayment
<1>7. CapturesKnowTheirOrder'
    BY <1>1, <1>2, <1>6 DEF IInv, CommerceInv, CapturesKnowTheirOrder, SameOrders
<1> QED BY <1>1, <1>5, <1>7

LEMMA CommitPendingKeeps ==
    ASSUME IInv, NEW c \in Cashier, CommitPending(c) PROVE CommerceInv'
<1> DEFINE o == payment[c].order
<1>0. /\ UNCHANGED <<purchases, provider, served>> /\ served <= served' /\ served' \in Nat
      /\ payment' = [payment EXCEPT ![c] = NoPayment]
    BY BoundAssumption DEF CommitPending, Pay, IInv, CatalogIInv, CatalogTyped, CatalogTypeOK
<1>1. o \in Order /\ orders[o] # None
    BY PaymentStages DEF CommitPending, IInv, CommerceInv, CapturesKnowTheirOrder, CapturePayment
<1>2. SetStatus(o, "pending") /\ "pending" \in Status
    BY DEF CommitPending, Status
<1> HIDE DEF o
<1>3. SameOrders /\ orders'[o].status = "pending" /\ LedgerTyped'
      /\ \A q \in Order \ {o} : orders'[q] = orders[q]
    BY <1>0, <1>1, <1>2, StatusChanges DEF SameOrders, IInv, CommerceInv, LedgerTyped
<1>4. PaymentTyped' /\ CheckoutsAreApart' /\ CapturesKnowTheirOrder'
    BY <1>0, <1>3, SameOrdersKeep
<1>5. CompletedIsPurchased' /\ OnePurchasePerItem'
    BY <1>0, <1>3 DEF IInv, CommerceInv, CompletedIsPurchased, OnePurchasePerItem, Owns
<1> QED BY <1>3, <1>4, <1>5 DEF CommerceInv

LEMMA CancelKeeps ==
    ASSUME IInv, NEW o \in Order, Cancel(o) PROVE CommerceInv'
<1>0. /\ UNCHANGED <<purchases, provider, payment>> /\ served \in Nat
      /\ served <= served' /\ served' \in Nat
    BY BoundAssumption DEF Cancel, IInv, CatalogIInv, CatalogTyped, CatalogTypeOK
<1>1. orders[o] # None /\ SetStatus(o, "cancelled") /\ "cancelled" \in Status
    BY DEF Cancel, Status
<1>2. SameOrders /\ orders'[o].status = "cancelled" /\ LedgerTyped'
      /\ \A q \in Order \ {o} : orders'[q] = orders[q]
    BY <1>0, <1>1, StatusChanges DEF SameOrders, IInv, CommerceInv, LedgerTyped
<1>3. PaymentTyped' /\ CheckoutsAreApart' /\ CapturesKnowTheirOrder'
    BY <1>0, <1>2, SameOrdersKeep
<1>4. CompletedIsPurchased' /\ OnePurchasePerItem'
    BY <1>0, <1>2 DEF IInv, CommerceInv, CompletedIsPurchased, OnePurchasePerItem, Owns
<1> QED BY <1>2, <1>3, <1>4 DEF CommerceInv

LEMMA CommitCaptureKeeps ==
    ASSUME IInv, NEW c \in Cashier, CommitCapture(c) PROVE CommerceInv'
<1> DEFINE p == payment[c]
           o == p.order
<1>0. /\ UNCHANGED <<provider, served>> /\ served <= served' /\ served' \in Nat
      /\ payment' = [payment EXCEPT ![c] = NoPayment]
    BY BoundAssumption DEF CommitCapture, Pay, IInv, CatalogIInv, CatalogTyped, CatalogTypeOK
<1>1. /\ p \in CapturePayment /\ o \in Order /\ orders[o] # None
      /\ orders[o].user = p.user /\ orders[o].item = p.item
    BY PaymentStages DEF CommitCapture, IInv, CommerceInv, CapturesKnowTheirOrder, CapturePayment
<1>2. CASE UNCHANGED <<orders, purchases>>
    <2>1. Paying
        BY DEF Paying, Cash
    <2>2. PaymentTyped' /\ CheckoutsAreApart' /\ CapturesKnowTheirOrder'
        BY <1>0, <1>2, PaymentEnds DEF CommitCapture, Pay
    <2> QED BY <1>0, <1>2, <2>1, <2>2, LedgerStays DEF IInv, CommerceInv, LedgerTyped
<1>3. CASE SetStatus(o, "completed")
    <2>1. \/ Owns(p.user, p.item) /\ purchases' = purchases
          \/ /\ ~Owns(p.user, p.item) /\ p.row # None
             /\ purchases' = purchases \union {Purchase(p)}
          \/ orders' = orders /\ purchases' = purchases
        BY DEF CommitCapture
    <2>2. /\ SameOrders /\ orders'[o].status = "completed"
          /\ orders' \in [Order -> Transaction \union {None}]
          /\ \A q \in Order \ {o} : orders'[q] = orders[q]
        <3>1. "completed" \in Status
            BY DEF Status
        <3> HIDE DEF o
        <3> QED BY <1>1, <1>3, <3>1, StatusChanges DEF SameOrders
    <2>3. PaymentTyped' /\ CheckoutsAreApart' /\ CapturesKnowTheirOrder'
        BY <1>0, <2>2, SameOrdersKeep
    <2>4. p.row # None =>
             /\ Purchase(p) \in [user : User, item : Id, sequence : Nat]
             /\ Purchase(p).user = p.user /\ Purchase(p).item = p.item
        BY <1>1, SequenceAssumption DEF Purchase, CapturePayment, Row
    <2>5. LedgerTyped'
        BY <1>0, <2>1, <2>2, <2>4 DEF IInv, CommerceInv, LedgerTyped
    <2>6. OnePurchasePerItem'
        BY <2>1, <2>4 DEF IInv, CommerceInv, OnePurchasePerItem, Owns
    <2>7. \/ /\ \E q \in purchases' : q.user = p.user /\ q.item = p.item
             /\ purchases \subseteq purchases'
          \/ orders' = orders /\ purchases' = purchases
        BY <2>1, <2>4 DEF Owns
    <2>8. CompletedIsPurchased'
        <3>1. CASE orders' = orders /\ purchases' = purchases
            BY <3>1 DEF IInv, CommerceInv, CompletedIsPurchased, Owns
        <3>2. CASE /\ \E q \in purchases' : q.user = p.user /\ q.item = p.item
                   /\ purchases \subseteq purchases'
            BY <1>1, <2>2, <3>2 DEF IInv, CommerceInv, CompletedIsPurchased, Owns, SameOrders
        <3> QED BY <2>7, <3>1, <3>2
    <2> QED BY <2>3, <2>5, <2>6, <2>8 DEF CommerceInv
<1> QED BY <1>2, <1>3 DEF CommitCapture
-----------------------------------------------------------------------------
(***************************************************************************)
(* The theorems.                                                           *)
(***************************************************************************)

LEMMA InitIInv == Init => IInv
<1> SUFFICES ASSUME Init PROVE IInv
    OBVIOUS
<1>1. CatalogTyped
    BY CatalogTypeInit DEF Init
<1>2. CatalogIInv
    BY <1>1 DEF Init, CatalogInit, CatalogIInv, AcceptancesWereMade, GatedWereAccepted, Stage,
                DownloadsWereAccepted, PaidDownloadsAreBuyers
<1>3. PICK first \in {None} \union [user : User, item : {1}, status : {"created"}] :
        /\ orders = [o \in Order |-> IF o <= 0 THEN first ELSE None]
        /\ provider = [o \in Order |-> IF orders[o] = None THEN "none" ELSE "created"]
    BY DEF Init
<1>4. first \in Transaction \union {None} /\ (first # None => first.status = "created")
    BY BoundAssumption DEF Transaction, Id, Status
<1>5. purchases = {} /\ served = 0
    BY DEF Init, CatalogInit
<1>6. LedgerTyped
    BY <1>3, <1>4, <1>5 DEF LedgerTyped
<1>7. /\ payment = [c \in Cashier |-> NoPayment]
      /\ NoPayment \notin CheckoutPayment /\ NoPayment \notin CapturePayment
    BY DEF Init, NoPayment, CheckoutPayment, CapturePayment
<1>8. PaymentTyped /\ CapturesKnowTheirOrder
    BY <1>7 DEF PaymentTyped, CapturesKnowTheirOrder
<1>9. CheckoutsAreApart
    BY <1>3, <1>5, <1>7, BoundAssumption DEF CheckoutsAreApart, Order
<1>10. CompletedIsPurchased /\ OnePurchasePerItem
    BY <1>3, <1>4, <1>5 DEF CompletedIsPurchased, OnePurchasePerItem
<1>11. StampsAreApart
    BY StampsInit DEF Init
<1>12. QuietScans
    BY QuietScansInit DEF Init
<1> QED BY <1>2, <1>6, <1>8, <1>9, <1>10, <1>11, <1>12 DEF IInv, CommerceInv

LEMMA IInvStep == ASSUME IInv, [Next]_vars PROVE IInv'
<1>1. ASSUME UNCHANGED vars PROVE IInv'
    <2>1. UNCHANGED <<catalogVars, commerceVars>>
        BY <1>1 DEF vars
    <2>2. CatalogIInv'
        BY <2>1 DEF catalogVars, tables, history, IInv, CatalogIInv, CatalogTyped, CatalogTypeOK,
            AcceptancesWereMade, GatedWereAccepted, Stage, DownloadsWereAccepted,
            PaidDownloadsAreBuyers
    <2>3. CommerceInv'
        BY <2>1 DEF catalogVars, tables, commerceVars, IInv, CommerceInv, LedgerTyped,
            PaymentTyped, CheckoutsAreApart, CapturesKnowTheirOrder, CompletedIsPurchased,
            OnePurchasePerItem, Owns
    <2>4. StampsAreApart'
        BY <2>1 DEF catalogVars, tables, history, IInv, StampsAreApart, StampsFit, FilesFit,
            RowsFit, RequestsFit
    <2>5. QuietScans'
        BY <2>1 DEF catalogVars, tables, history, IInv, QuietScans, Quiet, Repairing,
            LoadedIsTable, HiddenIsRow, AvailableIsFile, FileIsAvailable, AllTell, Tells
    <2> QED BY <2>2, <2>3, <2>4, <2>5 DEF IInv
<1>2. ASSUME CatalogNext, UNCHANGED commerceVars PROVE IInv'
    <2>1. CatalogIInv'
        BY <1>2, CatalogTypeStep, DownloadsStep DEF IInv, CatalogIInv
    <2>2. StampsAreApart'
        BY <1>2, StampsStep DEF IInv, CatalogIInv
    <2>3. QuietScans'
        BY <1>2, QuietScansStep DEF IInv, CatalogIInv
    <2> QED BY <1>2, <2>1, <2>2, <2>3, CatalogKeepsCommerce DEF IInv
<1>3. ASSUME Paying PROVE CatalogIInv' /\ StampsAreApart' /\ QuietScans'
    BY <1>3, PayingKeepsCatalog, PayingKeepsStamps, PayingKeepsScans DEF IInv, CatalogIInv
<1>4. ASSUME NEW c \in Cashier, Cash(c) PROVE CommerceInv'
    BY <1>4, StartCheckoutKeeps, NewTransactionKeeps, CreateOrderKeeps, CommitCheckoutKeeps,
       StartCaptureKeeps, CaptureKeeps, CommitPendingKeeps, CommitCaptureKeeps, KillPaymentKeeps
       DEF Cash
<1> QED BY <1>1, <1>2, <1>3, <1>4, CancelKeeps DEF Next, Paying, IInv

\* The invariant is inductive.
THEOREM Invariance == Spec => []IInv
<1>1. IInv /\ [Next]_vars => IInv'
    BY IInvStep
<1> QED BY InitIInv, <1>1, PTL DEF Spec

\* The store's state has its type.
THEOREM TypeCorrect == Spec => []TypeOK
<1>1. IInv => TypeOK
    BY DEF IInv, CatalogIInv, CatalogTyped, CommerceInv, LedgerTyped, TypeOK
<1> QED BY Invariance, <1>1, PTL

\* What is downloaded was accepted by whom it is downloaded.
THEOREM AcceptedDownloads == Spec => []DownloadsWereAccepted
<1>1. IInv => DownloadsWereAccepted
    BY DEF IInv, CatalogIInv
<1> QED BY Invariance, <1>1, PTL

\* What had a price was downloaded by buyers.
THEOREM BoughtDownloads == Spec => []PaidDownloadsAreBuyers
<1>1. IInv => PaidDownloadsAreBuyers
    BY DEF IInv, CatalogIInv
<1> QED BY Invariance, <1>1, PTL

\* A row that has the stamp of the file at its path describes this file, if it was not
\* written on a stale reading.
THEOREM SoundIndex == Spec => []StampIdentifiesContent
<1>1. IInv => StampIdentifiesContent
    BY StampsIdentify DEF IInv, CatalogIInv
<1> QED BY Invariance, <1>1, PTL

\* A scan that no other request overlaps makes rows and files agree, unless a row is
\* wrong under the right stamp.
THEOREM RepairingScans == Spec => QuietScanRepairs
<1>1. IInv => [\A w \in Worker :
                  /\ CommitScan(w)
                  /\ request[w].quiet /\ request[w].number = served
                  /\ \A id \in Id : rows[id] # None => Tells(id)
                  => /\ \A id \in Id : rows'[id] # None /\ rows'[id].available =>
                           files[rows'[id].path] =
                               [content |-> rows'[id].content, stamp |-> rows'[id].stamp]
                     /\ \A p \in Path : files[p] # None =>
                           \E id \in RowAt(rows', p) : rows'[id].available
              ]_catalogVars
    BY QuietScanCommits DEF IInv, CatalogIInv, AllTell
<1> QED BY Invariance, <1>1, PTL DEF QuietScanRepairs

\* A completed transaction gave its user its item.
THEOREM CompletedPurchases == Spec => []CompletedIsPurchased
<1>1. IInv => CompletedIsPurchased
    BY DEF IInv, CommerceInv
<1> QED BY Invariance, <1>1, PTL

\* No user bought an item twice.
THEOREM SinglePurchases == Spec => []OnePurchasePerItem
<1>1. IInv => OnePurchasePerItem
    BY DEF IInv, CommerceInv
<1> QED BY Invariance, <1>1, PTL
-----------------------------------------------------------------------------
(***************************************************************************)
(* Payments implement the ledger.                                          *)
(***************************************************************************)

\* What the ledger says of an order.
AccountOf(o) ==
    IF orders[o] = None THEN None
    ELSE [user |-> orders[o].user, item |-> orders[o].item, 
          money |-> IF provider[o] = "captured" THEN "taken" ELSE "due"]

GrantOf(p) == [user |-> p.user, item |-> p.item]

LEMMA AccountIsSomething ==
    ASSUME IInv, NEW o \in Order, orders[o] # None
    PROVE  /\ AccountOf(o) # None
           /\ AccountOf(o).user = orders[o].user /\ AccountOf(o).item = orders[o].item
           /\ AccountOf(o).money = "taken" <=> provider[o] = "captured"
<1>1. orders[o] \in Transaction
    BY DEF IInv, CommerceInv, LedgerTyped
<1>2. AccountOf(o) \in [user : User, item : Id, money : {"due", "taken"}]
    BY <1>1 DEF AccountOf, Transaction
<1> QED BY <1>2, NoneAssumption DEF AccountOf

LEMMA LedgerInit == Init => Ledger!Init
<1> SUFFICES ASSUME Init PROVE Ledger!Init
    OBVIOUS
<1>1. LedgerTyped
    BY InitIInv DEF IInv, CommerceInv
<1>2. \A o \in Order : provider[o] # "captured"
    BY DEF Init
<1>3. \A o \in Order : AccountOf(o) \in {None} \union
            {a \in [user : User, item : Id, money : {"due", "taken"}] : a.money = "due"}
    BY <1>1, <1>2 DEF LedgerTyped, AccountOf, Transaction
<1>4. {GrantOf(p) : p \in purchases} = {}
    BY DEF Init, CatalogInit
<1> QED BY <1>3, <1>4 DEF Ledger!Init, Ledger!Account, AccountOf, GrantOf

\* Steps that the ledger does not see.
LEMMA LedgerFrame ==
    ASSUME SameOrders, purchases' = purchases,
           \A o \in Order : orders[o] # None =>
               (provider'[o] = "captured" <=> provider[o] = "captured")
    PROVE  UNCHANGED Ledger!ledgerVars
BY DEF SameOrders, Ledger!ledgerVars

LEMMA OpenStep ==
    ASSUME IInv, NEW c \in Cashier, CommitCheckout(c) PROVE Ledger!Next
<1> DEFINE p == payment[c]
           o == p.order
           new == [user |-> p.user, item |-> p.item, status |-> "created"]
<1>1. /\ o \in Order /\ orders[o] = None /\ provider[o] = "created"
      /\ p.user \in User /\ p.item \in Id
    BY PaymentStages DEF CommitCheckout, IInv, CommerceInv, CheckoutsAreApart, CheckoutPayment
<1>2. new \in Transaction /\ new # None /\ new.user = p.user /\ new.item = p.item
    BY <1>1, NoneAssumption DEF Transaction, Status
<1>3. /\ orders' = [q \in Order |-> IF q = o THEN new ELSE orders[q]]
      /\ provider' = provider /\ purchases' = purchases
    BY DEF CommitCheckout, IInv, CommerceInv, LedgerTyped
<1>4. PICK k \in Order, u \in User, i \in Id : k = o /\ u = p.user /\ i = p.item
    BY <1>1
<1> HIDE DEF new, o
<1>5. \A q \in Order : AccountOf(q)' =
            IF q = k THEN [user |-> u, item |-> i, money |-> "due"] ELSE AccountOf(q)
    <2> TAKE q \in Order
    <2>1. orders'[q] = (IF q = o THEN new ELSE orders[q]) /\ provider'[q] = provider[q]
        BY <1>3
    <2>2. CASE q = o
        BY <2>1, <2>2, <1>1, <1>2, <1>4 DEF AccountOf
    <2>3. CASE q # o
        BY <2>1, <2>3, <1>4 DEF AccountOf
    <2> QED BY <2>2, <2>3
<1>6. AccountOf(k) = None
    BY <1>1, <1>4 DEF AccountOf
<1>7. purchases' = purchases
    BY <1>3
<1>8. Ledger!Open(k, u, i)
    BY <1>5, <1>6, <1>7 DEF Ledger!Open, AccountOf
<1> QED BY <1>4, <1>8 DEF Ledger!Next

LEMMA TakeStep ==
    ASSUME IInv, NEW c \in Cashier, Capture(c)
    PROVE  Ledger!Next \/ UNCHANGED Ledger!ledgerVars
<1> DEFINE o == payment[c].order
<1>0. orders' = orders /\ purchases' = purchases
    BY DEF Capture
<1>1. o \in Order /\ orders[o] # None
    BY PaymentStages DEF Capture, IInv, CommerceInv, CapturesKnowTheirOrder, CapturePayment
<1>2. CASE provider' = provider
    BY <1>0, <1>2, LedgerFrame DEF SameOrders
<1>3. CASE provider[o] = "created" /\ provider' = [provider EXCEPT ![o] = "captured"]
    <2>1. provider' = [q \in Order |-> IF q = o THEN "captured" ELSE provider[q]]
        BY <1>3 DEF IInv, CommerceInv, LedgerTyped
    <2>2. PICK k \in Order, u \in User, i \in Id :
              k = o /\ u = orders[o].user /\ i = orders[o].item
        BY <1>1, AccountIsSomething DEF IInv, CommerceInv, LedgerTyped, Transaction
    <2> HIDE DEF o
    <2> DEFINE before == [user |-> u, item |-> i, money |-> "due"]
    <2>3. AccountOf(k) = before
        BY <1>1, <1>3, <2>2 DEF AccountOf
    <2>4. [before EXCEPT !.money = "taken"] = [user |-> u, item |-> i, money |-> "taken"]
        OBVIOUS
    <2>5. [AccountOf(k) EXCEPT !.money = "taken"] = [user |-> u, item |-> i, money |-> "taken"]
        BY <2>3, <2>4
    <2>6. \A q \in Order : AccountOf(q)' =
                IF q = k THEN [user |-> u, item |-> i, money |-> "taken"] ELSE AccountOf(q)
        BY <1>0, <1>1, <2>1, <2>2 DEF AccountOf
    <2> DEFINE account == [q \in Order |-> AccountOf(q)]
    <2>7. account[k] # None /\ account[k].money = "due"
        BY <1>1, <2>2, <2>3, AccountIsSomething
    <2>8. [account EXCEPT ![k].money = "taken"] =
             [q \in Order |->
                 IF q = k THEN [user |-> u, item |-> i, money |-> "taken"] ELSE AccountOf(q)]
        BY <2>5
    <2>9. [q \in Order |-> AccountOf(q)'] = [account EXCEPT ![k].money = "taken"]
        <3> HIDE DEF account
        <3> QED BY <2>6, <2>8
    <2>10. Ledger!Take(k)
        BY <1>0, <2>7, <2>9 DEF Ledger!Take, AccountOf
    <2> QED BY <2>2, <2>10 DEF Ledger!Next
<1> QED BY <1>2, <1>3 DEF Capture

LEMMA GrantStep ==
    ASSUME IInv, NEW c \in Cashier, CommitCapture(c)
    PROVE  Ledger!Next \/ UNCHANGED Ledger!ledgerVars
<1> DEFINE p == payment[c]
           o == p.order
<1>1. /\ p \in CapturePayment /\ o \in Order /\ orders[o] # None
      /\ orders[o].user = p.user /\ orders[o].item = p.item
      /\ provider[o] = "captured" /\ provider' = provider
    BY PaymentStages DEF CommitCapture, IInv, CommerceInv, CapturesKnowTheirOrder, CapturePayment
<1>2. SameOrders
    <2>1. CASE orders' = orders
        BY <2>1 DEF SameOrders
    <2>2. CASE SetStatus(o, "completed")
        <3>1. "completed" \in Status
            BY DEF Status
        <3> HIDE DEF o
        <3> QED BY <1>1, <2>2, <3>1, StatusChanges DEF SameOrders
    <2> QED BY <2>1, <2>2 DEF CommitCapture
<1>3. CASE purchases' = purchases
    BY <1>1, <1>2, <1>3, LedgerFrame
<1>4. CASE ~Owns(p.user, p.item) /\ purchases' = purchases \union {Purchase(p)}
    <2> DEFINE grant == [user |-> AccountOf(o).user, item |-> AccountOf(o).item]
    <2>1. /\ AccountOf(o) # None /\ AccountOf(o).money = "taken"
          /\ grant = [user |-> p.user, item |-> p.item]
        BY <1>1, AccountIsSomething
    <2>2. GrantOf(Purchase(p)) = [user |-> p.user, item |-> p.item]
        BY DEF GrantOf, Purchase
    <2>3. grant \notin {GrantOf(q) : q \in purchases}
        BY <1>4, <2>1 DEF Owns, GrantOf
    <2>4. {GrantOf(q) : q \in purchases'} = {GrantOf(q) : q \in purchases} \union {grant}
        BY <1>4, <2>1, <2>2
    <2>5. \A q \in Order : AccountOf(q)' = AccountOf(q)
        BY <1>1, <1>2 DEF AccountOf, SameOrders
    <2> HIDE DEF o
    <2>6. PICK k \in Order : k = o
        BY <1>1
    <2>7. Ledger!Grant(k)
        BY <2>1, <2>3, <2>4, <2>5, <2>6 DEF Ledger!Grant, AccountOf, GrantOf
    <2> QED BY <2>6, <2>7 DEF Ledger!Next
<1> QED BY <1>3, <1>4 DEF CommitCapture

LEMMA LedgerStep == IInv /\ [Next]_vars => [Ledger!Next]_(Ledger!ledgerVars)
<1> SUFFICES ASSUME IInv, [Next]_vars PROVE Ledger!Next \/ UNCHANGED Ledger!ledgerVars
    OBVIOUS
<1>1. ASSUME UNCHANGED <<orders, provider, purchases>> PROVE UNCHANGED Ledger!ledgerVars
    BY <1>1, LedgerFrame DEF SameOrders
<1>2. ASSUME UNCHANGED vars PROVE UNCHANGED Ledger!ledgerVars
    BY <1>1, <1>2 DEF vars, catalogVars, tables, commerceVars
<1>3. ASSUME CatalogNext, UNCHANGED commerceVars PROVE UNCHANGED Ledger!ledgerVars
    BY <1>1, <1>3, CatalogRecords DEF commerceVars, IInv, CatalogIInv
<1>4. ASSUME NEW c \in Cashier,
             StartCheckout(c) \/ NewTransaction(c) \/ StartCapture(c) \/ KillPayment(c)
      PROVE  UNCHANGED Ledger!ledgerVars
    BY <1>1, <1>4 DEF StartCheckout, NewTransaction, StartCapture, KillPayment
<1>5. ASSUME NEW c \in Cashier, CreateOrder(c) PROVE UNCHANGED Ledger!ledgerVars
    <2>1. /\ orders[payment[c].order] = None /\ orders' = orders /\ purchases' = purchases
          /\ provider' = [provider EXCEPT ![payment[c].order] = "created"]
        BY <1>5, PaymentStages DEF CreateOrder, IInv, CommerceInv, CheckoutsAreApart
    <2>2. \A o \in Order : orders[o] # None => provider'[o] = provider[o]
        BY <2>1 DEF IInv, CommerceInv, LedgerTyped
    <2> QED BY <2>1, <2>2, LedgerFrame DEF SameOrders
<1>6. ASSUME NEW o \in Order, orders[o] # None, NEW status \in Status, SetStatus(o, status),
             UNCHANGED <<provider, purchases>>
      PROVE  UNCHANGED Ledger!ledgerVars
    BY <1>6, StatusChanges, LedgerFrame DEF SameOrders
<1>7. ASSUME NEW o \in Order, Cancel(o) PROVE UNCHANGED Ledger!ledgerVars
    BY <1>6, <1>7 DEF Cancel, Status
<1>8. ASSUME NEW c \in Cashier, CommitPending(c) PROVE UNCHANGED Ledger!ledgerVars
    <2>1. payment[c].order \in Order /\ orders[payment[c].order] # None
        BY <1>8, PaymentStages DEF CommitPending, IInv, CommerceInv, CapturesKnowTheirOrder,
           CapturePayment
    <2>2. /\ SetStatus(payment[c].order, "pending") /\ "pending" \in Status
          /\ UNCHANGED <<provider, purchases>>
        BY <1>8 DEF CommitPending, Status
    <2> QED BY <1>6, <2>1, <2>2
<1> QED BY <1>2, <1>3, <1>4, <1>5, <1>7, <1>8, OpenStep, TakeStep, GrantStep DEF Next, Cash

\* Payments keep the ledger's promise: money is taken once per order, and an item is
\* given once, to whom it was taken from.
THEOREM Refinement == Spec => KeepsLedger
<1>1. Init => Ledger!Init
    BY LedgerInit
<1>2. IInv /\ [Next]_vars => [Ledger!Next]_(Ledger!ledgerVars)
    BY LedgerStep
<1> QED BY <1>1, <1>2, Invariance, PTL DEF Spec, KeepsLedger, Ledger!Spec
-----------------------------------------------------------------------------
(***************************************************************************)
(* The write lock, and what it is for.                                     *)
(***************************************************************************)

InTransaction(p) == p.at \in {"inserted", "created"}

\* A payment's step passes without the lock, takes it, or returns it.
PaymentPasses(c) ==
    /\ writer' = writer
    /\ InTransaction(payment'[c]) <=> InTransaction(payment[c])
    /\ UNCHANGED <<tables, orders>> \/ writer = None

PaymentTakes(c) ==
    /\ writer = None /\ writer' = c
    /\ InTransaction(payment'[c])
    /\ UNCHANGED <<tables, orders>>

PaymentReturns(c) ==
    /\ ~InTransaction(payment'[c])
    /\ \/ writer' = (IF writer = c THEN None ELSE writer) /\ UNCHANGED <<tables, orders>>
       \/ writer' = None /\ InTransaction(payment[c])

PaymentKeepsToTheLock(c) ==
    /\ \A d \in Cashier \ {c} : payment'[d] = payment[d]
    /\ PaymentPasses(c) \/ PaymentTakes(c) \/ PaymentReturns(c)

LEMMA PayChanges ==
    ASSUME PaymentTyped, NEW c \in Cashier, NEW p, Pay(c, p)
    PROVE  payment'[c] = p /\ \A d \in Cashier \ {c} : payment'[d] = payment[d]
BY DEF PaymentTyped, Pay

LEMMA CashLocks ==
    ASSUME PaymentTyped, NEW c \in Cashier, Cash(c) PROVE PaymentKeepsToTheLock(c)
<1> DEFINE p == payment[c]
<1>1. ~InTransaction(NoPayment)
    BY DEF InTransaction, NoPayment
<1>2. ASSUME StartCheckout(c) PROVE PaymentKeepsToTheLock(c)
    <2>1. PICK u \in User, id \in Id :
             Pay(c, [at |-> "checkout", order |-> served + 1, user |-> u, item |-> id])
        BY <1>2 DEF StartCheckout
    <2>2. /\ p = NoPayment /\ writer' = writer /\ UNCHANGED <<tables, orders>>
          /\ payment'[c].at = "checkout" /\ \A d \in Cashier \ {c} : payment'[d] = payment[d]
        BY <1>2, <2>1, PayChanges DEF StartCheckout, Catalog, tables
    <2> QED BY <1>1, <2>2 DEF PaymentKeepsToTheLock, PaymentPasses, InTransaction
<1>3. ASSUME StartCapture(c) PROVE PaymentKeepsToTheLock(c)
    <2>1. PICK o \in Order :
             Pay(c, [at |-> "capture", order |-> o, user |-> orders[o].user,
                     item |-> orders[o].item, row |-> rows[orders[o].item]])
        BY <1>3 DEF StartCapture
    <2>2. /\ p = NoPayment /\ writer' = writer /\ UNCHANGED <<tables, orders>>
          /\ payment'[c].at = "capture" /\ \A d \in Cashier \ {c} : payment'[d] = payment[d]
        BY <1>3, <2>1, PayChanges DEF StartCapture, Catalog, tables
    <2> QED BY <1>1, <2>2 DEF PaymentKeepsToTheLock, PaymentPasses, InTransaction
<1>4. ASSUME NewTransaction(c) PROVE PaymentKeepsToTheLock(c)
    <2>1. p \in CheckoutPayment
        BY <1>4, PaymentStages DEF NewTransaction
    <2>2. InTransaction([p EXCEPT !.at = "inserted"])
        BY <2>1 DEF CheckoutPayment, InTransaction
    <2>3. /\ writer = None /\ writer' = c /\ UNCHANGED <<tables, orders>>
          /\ Pay(c, [p EXCEPT !.at = "inserted"])
        BY <1>4 DEF NewTransaction, Catalog, tables
    <2> QED BY <2>2, <2>3, PayChanges DEF PaymentKeepsToTheLock, PaymentTakes
<1>5. ASSUME CreateOrder(c) PROVE PaymentKeepsToTheLock(c)
    <2>1. p \in CheckoutPayment /\ InTransaction(p)
        BY <1>5, PaymentStages DEF CreateOrder, InTransaction
    <2>2. InTransaction([p EXCEPT !.at = "created"])
        BY <2>1 DEF CheckoutPayment, InTransaction
    <2>3. /\ writer' = writer /\ UNCHANGED <<tables, orders>>
          /\ Pay(c, [p EXCEPT !.at = "created"])
        BY <1>5 DEF CreateOrder, Catalog, tables
    <2> QED BY <2>1, <2>2, <2>3, PayChanges DEF PaymentKeepsToTheLock, PaymentPasses
<1>6. ASSUME CommitCheckout(c) PROVE PaymentKeepsToTheLock(c)
    <2>1. InTransaction(p) /\ writer' = None /\ Pay(c, NoPayment)
        BY <1>6 DEF CommitCheckout, InTransaction
    <2> QED BY <1>1, <2>1, PayChanges DEF PaymentKeepsToTheLock, PaymentReturns
<1>7. ASSUME Capture(c) PROVE PaymentKeepsToTheLock(c)
    <2>1. /\ p \in CapturePayment /\ ~InTransaction(p)
          /\ writer' = writer /\ UNCHANGED <<tables, orders>>
        BY <1>7, PaymentStages DEF Capture, InTransaction, Catalog, tables
    <2>2. /\ ~InTransaction([p EXCEPT !.at = "captured"])
          /\ ~InTransaction([p EXCEPT !.at = "pending"])
        BY <2>1 DEF CapturePayment, InTransaction
    <2>3. \/ Pay(c, [p EXCEPT !.at = "captured"])
          \/ Pay(c, [p EXCEPT !.at = "pending"])
          \/ Pay(c, NoPayment)
        BY <1>7 DEF Capture
    <2>4. ~InTransaction(payment'[c]) /\ \A d \in Cashier \ {c} : payment'[d] = payment[d]
        BY <1>1, <2>2, <2>3, PayChanges
    <2> QED BY <2>1, <2>4 DEF PaymentKeepsToTheLock, PaymentPasses
<1>8. ASSUME CommitPending(c) \/ CommitCapture(c) PROVE PaymentKeepsToTheLock(c)
    <2>1. writer = None /\ writer' = writer /\ ~InTransaction(p) /\ Pay(c, NoPayment)
        BY <1>8 DEF CommitPending, CommitCapture, InTransaction
    <2> QED BY <1>1, <2>1, PayChanges DEF PaymentKeepsToTheLock, PaymentPasses
<1>9. ASSUME KillPayment(c) PROVE PaymentKeepsToTheLock(c)
    <2>1. /\ writer' = IF writer = c THEN None ELSE writer
          /\ UNCHANGED <<tables, orders>> /\ Pay(c, NoPayment)
        BY <1>9 DEF KillPayment, Catalog, tables
    <2> QED BY <1>1, <2>1, PayChanges DEF PaymentKeepsToTheLock, PaymentReturns
<1> QED BY <1>2, <1>3, <1>4, <1>5, <1>6, <1>7, <1>8, <1>9 DEF Cash

\* Every step of the store keeps to the lock.
LEMMA StepLocks ==
    ASSUME IInv, [Next]_vars
    PROVE  \/ /\ UNCHANGED <<writer, request, payment>>
              /\ UNCHANGED <<tables, orders>> \/ writer = None
           \/ /\ \E v \in Worker : KeepsToTheLock(v)
              /\ UNCHANGED <<orders, payment>>
           \/ /\ \E c \in Cashier : PaymentKeepsToTheLock(c)
              /\ UNCHANGED request
<1>1. CASE UNCHANGED vars
    BY <1>1 DEF vars, catalogVars, commerceVars
<1>2. CASE CatalogNext /\ UNCHANGED commerceVars
    BY <1>2, CatalogLocks DEF IInv, CatalogIInv, commerceVars
<1>3. ASSUME NEW c \in Cashier, Cash(c)
      PROVE  PaymentKeepsToTheLock(c) /\ UNCHANGED request
    BY <1>3, CashLocks, PayingLeavesCatalog DEF IInv, CommerceInv, Paying
<1>4. ASSUME NEW o \in Order, Cancel(o)
      PROVE  UNCHANGED <<writer, request, payment>> /\ writer = None
    BY <1>4 DEF Cancel, Catalog
<1> QED BY <1>1, <1>2, <1>3, <1>4 DEF Next

LEMMA LockStep ==
    ASSUME IInv, TheLockIsReturned, [Next]_vars PROVE TheLockIsReturned'
<1> USE NoneAssumption
<1>1. CASE UNCHANGED <<writer, request, payment>>
    BY <1>1 DEF TheLockIsReturned
<1>2. ASSUME NEW v \in Worker, KeepsToTheLock(v), UNCHANGED payment PROVE TheLockIsReturned'
    <2>1. /\ writer' = v <=> Writes(request'[v])
          /\ Writes(request[v]) <=> writer = v
        BY <1>2 DEF KeepsToTheLock, Passes, Takes, Returns, TheLockIsReturned
    <2>2. ASSUME NEW x \in (Worker \union Cashier) \ {v} PROVE writer' = x <=> writer = x
        BY <1>2, <2>1 DEF KeepsToTheLock, Passes, Takes, Returns, MayWrite
    <2>3. \A w \in Worker \ {v} : request'[w] = request[w]
        BY <1>2 DEF KeepsToTheLock
    <2> QED BY <1>2, <2>1, <2>2, <2>3 DEF TheLockIsReturned
<1>3. ASSUME NEW c \in Cashier, PaymentKeepsToTheLock(c), UNCHANGED request
      PROVE  TheLockIsReturned'
    <2>1. /\ writer' = c <=> InTransaction(payment'[c])
          /\ InTransaction(payment[c]) <=> writer = c
        BY <1>3 DEF PaymentKeepsToTheLock, PaymentPasses, PaymentTakes, PaymentReturns,
                    TheLockIsReturned, InTransaction
    <2>2. ASSUME NEW x \in (Worker \union Cashier) \ {c} PROVE writer' = x <=> writer = x
        BY <1>3, <2>1 DEF PaymentKeepsToTheLock, PaymentPasses, PaymentTakes, PaymentReturns
    <2>3. \A d \in Cashier \ {c} : payment'[d] = payment[d]
        BY <1>3 DEF PaymentKeepsToTheLock
    <2> QED BY <1>3, <2>1, <2>2, <2>3 DEF TheLockIsReturned, InTransaction
<1> QED BY <1>1, <1>2, <1>3, StepLocks

LEMMA LockInit == Init => TheLockIsReturned
BY NoneAssumption, WritesOf DEF Init, CatalogInit, TheLockIsReturned, NoPayment

\* The write lock is with whoever has written and not committed, through every failure,
\* kill and answer.
THEOREM ReturnedLocks == Spec => []TheLockIsReturned
<1>1. IInv /\ TheLockIsReturned /\ [Next]_vars => TheLockIsReturned'
    BY LockStep
<1> QED BY Invariance, LockInit, <1>1, PTL DEF Spec

\* Nobody writes under another's transaction: a table changes only when the lock was
\* free, or in the step in which its holder commits and returns it.  Hence what a scan
\* has read since it took the lock is still what it overwrites when it commits.
TransactionsAreIsolated ==
    [][~UNCHANGED <<tables, orders>> =>
          /\ writer' = None
          /\ \/ writer = None
             \/ \E w \in Worker : writer = w /\ request'[w] # request[w]
             \/ \E c \in Cashier : writer = c /\ payment'[c] # payment[c]]_vars

\* Tables change by a commit of whoever holds the write lock, or by one that takes and
\* returns it at once, when nobody has it.
THEOREM IsolatedTransactions == Spec => TransactionsAreIsolated
<1>1. ASSUME IInv, TheLockIsReturned, [Next]_vars, ~UNCHANGED <<tables, orders>>
      PROVE  /\ writer' = None
             /\ \/ writer = None
                \/ \E w \in Worker : writer = w /\ request'[w] # request[w]
                \/ \E c \in Cashier : writer = c /\ payment'[c] # payment[c]
    <2>1. CASE UNCHANGED writer /\ writer = None
        BY <2>1
    <2>2. ASSUME NEW v \in Worker, KeepsToTheLock(v), UNCHANGED orders
          PROVE  /\ writer' = None
                 /\ writer = None \/ (writer = v /\ request'[v] # request[v])
        <3>1. Writes(request[v]) <=> writer = v
            BY <1>1 DEF TheLockIsReturned
        <3>2. ~UNCHANGED tables
            BY <1>1, <2>2
        <3> QED BY <2>2, <3>1, <3>2 DEF KeepsToTheLock, Passes, Takes, Returns, MayWrite
    <2>3. ASSUME NEW c \in Cashier, PaymentKeepsToTheLock(c)
          PROVE  /\ writer' = None
                 /\ writer = None \/ (writer = c /\ payment'[c] # payment[c])
        <3>1. InTransaction(payment[c]) <=> writer = c
            BY <1>1 DEF TheLockIsReturned, InTransaction
        <3> QED BY <1>1, <2>3, <3>1
                DEF PaymentKeepsToTheLock, PaymentPasses, PaymentTakes, PaymentReturns
    <2> QED BY <1>1, <2>1, <2>2, <2>3, StepLocks
<1>2. IInv /\ TheLockIsReturned /\ [Next]_vars
        => [~UNCHANGED <<tables, orders>> =>
              /\ writer' = None
              /\ \/ writer = None
                 \/ \E w \in Worker : writer = w /\ request'[w] # request[w]
                 \/ \E c \in Cashier : writer = c /\ payment'[c] # payment[c]]_vars
    BY <1>1
<1> QED BY Invariance, ReturnedLocks, <1>2, PTL DEF Spec, TransactionsAreIsolated

-----------------------------------------------------------------------------
(***************************************************************************)
(* Money, purchases and notifications.                                     *)
(***************************************************************************)

\* What was captured is of an order the store knows.
MoneyIsKnown == \A o \in Order : provider[o] = "captured" => orders[o] # None

\* An order that was there stays that user's, of that item; money taken stays taken.
OrdersStay ==
    \A o \in Order :
        /\ orders[o] # None =>
              orders'[o] # None /\ orders'[o].user = orders[o].user
                                /\ orders'[o].item = orders[o].item
        /\ provider[o] = "captured" => provider'[o] = "captured"

LEMMA OrdersStep ==
    ASSUME IInv, MoneyIsKnown, [Next]_vars PROVE OrdersStay /\ MoneyIsKnown'
<1> USE DEF OrdersStay, MoneyIsKnown
<1>0. LedgerTyped /\ PaymentTyped
    BY DEF IInv, CommerceInv
<1>1. CASE UNCHANGED <<orders, provider>>
    BY <1>1
<1>2. ASSUME NEW c \in Cashier, CreateOrder(c) PROVE OrdersStay /\ MoneyIsKnown'
    <2>1. payment[c].order \in Order /\ orders[payment[c].order] = None
        BY <1>0, <1>2, PaymentStages DEF CreateOrder, IInv, CommerceInv, CheckoutsAreApart
    <2>2. /\ orders' = orders
          /\ \A o \in Order \ {payment[c].order} : provider'[o] = provider[o]
          /\ provider'[payment[c].order] = "created"
        BY <1>0, <1>2, <2>1 DEF CreateOrder, LedgerTyped
    <2> QED BY <2>1, <2>2
<1>3. ASSUME NEW c \in Cashier, CommitCheckout(c) PROVE OrdersStay /\ MoneyIsKnown'
    <2>1. payment[c] \in CheckoutPayment
        BY <1>0, <1>3, PaymentStages DEF CommitCheckout
    <2>2. payment[c].order \in Order /\ orders[payment[c].order] = None
        BY <1>0, <2>1, PaymentStages DEF IInv, CommerceInv, CheckoutsAreApart
    <2>3. /\ \A o \in Order \ {payment[c].order} : orders'[o] = orders[o]
          /\ provider' = provider
        BY <1>0, <1>3, <2>2 DEF CommitCheckout, LedgerTyped
    <2> QED BY <2>2, <2>3
<1>4. ASSUME NEW c \in Cashier, Capture(c) PROVE OrdersStay /\ MoneyIsKnown'
    <2>1. payment[c].order \in Order /\ orders[payment[c].order] # None
        BY <1>0, <1>4, PaymentStages DEF Capture, IInv, CommerceInv, CapturesKnowTheirOrder,
                                         CapturePayment
    <2>2. /\ orders' = orders
          /\ provider' = provider \/ provider' = [provider EXCEPT ![payment[c].order] = "captured"]
        BY <1>4 DEF Capture
    <2>3. \A o \in Order : \/ provider'[o] = provider[o]
                           \/ o = payment[c].order /\ provider'[o] = "captured"
        BY <1>0, <2>1, <2>2 DEF LedgerTyped
    <2> QED BY <2>1, <2>2, <2>3
<1>5. ASSUME NEW o \in Order, NEW status \in Status, orders[o] # None, SetStatus(o, status),
             provider' = provider
      PROVE  OrdersStay /\ MoneyIsKnown'
    BY <1>5, StatusChanges
<1>6. ASSUME NEW c \in Cashier, CommitPending(c) \/ CommitCapture(c)
      PROVE  OrdersStay /\ MoneyIsKnown'
    <2>1. payment[c].order \in Order /\ orders[payment[c].order] # None
        BY <1>0, <1>6, PaymentStages DEF CommitPending, CommitCapture, IInv, CommerceInv,
                                         CapturesKnowTheirOrder, CapturePayment
    <2>2. /\ provider' = provider
          /\ \/ orders' = orders
             \/ SetStatus(payment[c].order, "pending")
             \/ SetStatus(payment[c].order, "completed")
        BY <1>6 DEF CommitPending, CommitCapture
    <2>3. "pending" \in Status /\ "completed" \in Status
        BY DEF Status
    <2> QED BY <1>1, <1>5, <2>1, <2>2, <2>3
<1>7. ASSUME NEW o \in Order, Cancel(o) PROVE OrdersStay /\ MoneyIsKnown'
    <2>1. "cancelled" \in Status
        BY DEF Status
    <2> QED BY <1>5, <1>7, <2>1 DEF Cancel
<1>8. ASSUME NEW c \in Cashier,
             StartCheckout(c) \/ NewTransaction(c) \/ StartCapture(c) \/ KillPayment(c)
      PROVE  OrdersStay /\ MoneyIsKnown'
    BY <1>1, <1>8 DEF StartCheckout, NewTransaction, StartCapture, KillPayment
<1>9. CASE UNCHANGED vars \/ (CatalogNext /\ UNCHANGED commerceVars)
    BY <1>1, <1>9 DEF vars, commerceVars
<1> QED BY <1>2, <1>3, <1>4, <1>6, <1>7, <1>8, <1>9 DEF Next, Cash

\* Every purchase was paid: an order of its user for its item was captured.
PurchasesWerePaid ==
    \A p \in purchases : \E o \in Order :
        /\ orders[o] # None /\ orders[o].user = p.user /\ orders[o].item = p.item
        /\ provider[o] = "captured"

\* A purchase is new when a capture is committed.
LEMMA PurchasesStep ==
    ASSUME IInv, [Next]_vars, NEW p \in purchases', p \notin purchases
    PROVE  \E c \in Cashier : /\ payment[c] \in CapturePayment /\ payment[c].at = "captured"
                              /\ p = Purchase(payment[c])
<1>1. CASE UNCHANGED purchases
    BY <1>1
<1>2. CASE UNCHANGED vars
    BY <1>1, <1>2 DEF vars, catalogVars, tables
<1>3. CASE CatalogNext /\ UNCHANGED commerceVars
    BY <1>1, <1>3, CatalogRecords DEF IInv, CatalogIInv
<1>4. ASSUME NEW c \in Cashier, CommitCapture(c)
      PROVE  \E d \in Cashier : /\ payment[d] \in CapturePayment /\ payment[d].at = "captured"
                                /\ p = Purchase(payment[d])
    <2>1. payment[c] \in CapturePayment /\ payment[c].at = "captured"
        BY <1>4, PaymentStages DEF CommitCapture, IInv, CommerceInv
    <2>2. purchases' = purchases \/ purchases' = purchases \union {Purchase(payment[c])}
        BY <1>4 DEF CommitCapture
    <2> QED BY <2>1, <2>2
<1>5. ASSUME NEW c \in Cashier, Cash(c), ~CommitCapture(c) PROVE UNCHANGED purchases
    BY <1>5 DEF Cash, StartCheckout, NewTransaction, CreateOrder, CommitCheckout, StartCapture,
                Capture, CommitPending, KillPayment
<1>6. ASSUME NEW o \in Order, Cancel(o) PROVE UNCHANGED purchases
    BY <1>6 DEF Cancel
<1> QED BY <1>1, <1>2, <1>3, <1>4, <1>5, <1>6 DEF Next

LEMMA PaidStep ==
    ASSUME IInv, MoneyIsKnown, PurchasesWerePaid, [Next]_vars PROVE PurchasesWerePaid'
<1> SUFFICES ASSUME NEW p \in purchases'
             PROVE  \E o \in Order :
                       /\ orders'[o] # None /\ orders'[o].user = p.user
                       /\ orders'[o].item = p.item /\ provider'[o] = "captured"
    BY DEF PurchasesWerePaid
<1>1. \E o \in Order : /\ orders[o] # None /\ orders[o].user = p.user /\ orders[o].item = p.item
                       /\ provider[o] = "captured"
    <2>1. CASE p \in purchases
        BY <2>1 DEF PurchasesWerePaid
    <2>2. CASE p \notin purchases
        <3>1. PICK c \in Cashier : /\ payment[c] \in CapturePayment
                                   /\ payment[c].at = "captured"
                                   /\ p = Purchase(payment[c])
            BY <2>2, PurchasesStep
        <3>2. p.user = payment[c].user /\ p.item = payment[c].item
            BY <3>1 DEF Purchase
        <3> QED BY <3>1, <3>2 DEF IInv, CommerceInv, CapturesKnowTheirOrder, CapturePayment
    <2> QED BY <2>1, <2>2
<1> QED BY <1>1, OrdersStep DEF OrdersStay

LEMMA MoneyInit == Init => MoneyIsKnown /\ PurchasesWerePaid
<1> SUFFICES ASSUME Init PROVE MoneyIsKnown /\ PurchasesWerePaid
    OBVIOUS
<1>1. provider = [o \in Order |-> IF orders[o] = None THEN "none" ELSE "created"]
    BY DEF Init
<1>2. purchases = {}
    BY DEF Init, CatalogInit
<1> QED BY <1>1, <1>2 DEF MoneyIsKnown, PurchasesWerePaid

LEMMA MoneyInvariance == Spec => [](MoneyIsKnown /\ PurchasesWerePaid)
<1> DEFINE Paid == MoneyIsKnown /\ PurchasesWerePaid
<1>1. IInv /\ Paid /\ [Next]_vars => Paid'
    BY OrdersStep, PaidStep
<1>2. Init => Paid
    BY MoneyInit
<1>3. Spec => []Paid
    <2> HIDE DEF Paid
    <2> QED BY Invariance, <1>1, <1>2, PTL DEF Spec
<1> QED BY <1>3

\* No purchase without money that the provider took from this user for this item.
THEOREM PaidPurchases == Spec => []PurchasesWerePaid
BY MoneyInvariance, PTL

\* A user is notified of a release only when one that is older was downloaded or bought
\* by this user, and of an item once.
NoticesAreUpdates ==
    /\ \A n \in notifications : \E s \in Accessed(n.user) : s < n.sequence
    /\ \A n, m \in notifications : n.user = m.user /\ n.item = m.item => n = m

\* Records are kept: nothing that was downloaded, bought or announced is forgotten.
LEMMA RecordsStep ==
    ASSUME IInv, [Next]_vars
    PROVE  /\ downloads \subseteq downloads' /\ purchases \subseteq purchases'
           /\ \/ notifications' = notifications
              \/ \E notices : Announce(notices) /\ AreUpdates(notices)
<1>1. CASE UNCHANGED vars
    BY <1>1 DEF vars, catalogVars, tables
<1>2. CASE CatalogNext /\ UNCHANGED commerceVars
    <2>1. ASSUME NEW w \in Worker, RecordDownload(w) PROVE downloads \subseteq downloads'
        BY <2>1 DEF RecordDownload
    <2> QED BY <1>2, <2>1, CatalogRecords, CatalogAnnounces DEF IInv, CatalogIInv
<1>3. CASE Paying
    BY <1>3, PayingLeavesCatalog, PayingCounts DEF IInv, CatalogIInv
<1> QED BY <1>1, <1>2, <1>3 DEF Next, Paying

LEMMA NoticesStep ==
    ASSUME IInv, NoticesAreUpdates, [Next]_vars PROVE NoticesAreUpdates'
<1>1. ASSUME NEW u PROVE Accessed(u) \subseteq Accessed(u)'
    BY RecordsStep DEF Accessed
<1>2. CASE notifications' = notifications
    BY <1>1, <1>2 DEF NoticesAreUpdates
<1>3. ASSUME NEW notices, Announce(notices), AreUpdates(notices) PROVE NoticesAreUpdates'
    <2>1. notifications' = notifications \union
             {n \in notices : \A m \in notifications : m.user # n.user \/ m.item # n.item}
        BY <1>3 DEF Announce
    <2>2. \A n \in notices : \E s \in Accessed(n.user) : s < n.sequence
        BY <1>3 DEF AreUpdates, IsUpdate
    <2>3. \A n \in notifications' : \E s \in Accessed(n.user) : s < n.sequence
        BY <2>1, <2>2 DEF NoticesAreUpdates
    <2>4. \A n, m \in notifications' : n.user = m.user /\ n.item = m.item => n = m
        BY <1>3, <2>1 DEF NoticesAreUpdates, AreUpdates
    <2> QED BY <1>1, <2>3, <2>4 DEF NoticesAreUpdates
<1> QED BY <1>2, <1>3, RecordsStep

\* notify_updates: a notification is of a release later than one that its user downloaded
\* or bought, and no user has two of one item.
THEOREM UpdateNotices == Spec => []NoticesAreUpdates
<1>1. Init => NoticesAreUpdates
    BY DEF Init, CatalogInit, NoticesAreUpdates
<1>2. IInv /\ NoticesAreUpdates /\ [Next]_vars => NoticesAreUpdates'
    BY NoticesStep
<1> QED BY Invariance, <1>1, <1>2, PTL DEF Spec

\* Deletions, replacements, cancellations and kills remove no record of a download, a
\* purchase or a notification, change no order's user or item, and give no money back.
RecordsStay ==
    [][/\ downloads \subseteq downloads'
       /\ purchases \subseteq purchases'
       /\ notifications \subseteq notifications'
       /\ \A o \in Order :
             /\ orders[o] # None =>
                   orders'[o] # None /\ orders'[o].user = orders[o].user
                                     /\ orders'[o].item = orders[o].item
             /\ provider[o] = "captured" => provider'[o] = "captured"]_vars

\* No request takes back what was downloaded, bought, announced, ordered or paid.
THEOREM KeptRecords == Spec => RecordsStay
<1>1. ASSUME IInv, MoneyIsKnown, [Next]_vars
      PROVE  /\ downloads \subseteq downloads' /\ purchases \subseteq purchases'
             /\ notifications \subseteq notifications' /\ OrdersStay
    <2>1. \A notices : Announce(notices) => notifications \subseteq notifications'
        BY DEF Announce
    <2> QED BY <1>1, <2>1, RecordsStep, OrdersStep
<1>2. IInv /\ MoneyIsKnown /\ [Next]_vars =>
         [/\ downloads \subseteq downloads'
          /\ purchases \subseteq purchases'
          /\ notifications \subseteq notifications'
          /\ \A o \in Order :
                /\ orders[o] # None =>
                      orders'[o] # None /\ orders'[o].user = orders[o].user
                                        /\ orders'[o].item = orders[o].item
                /\ provider[o] = "captured" => provider'[o] = "captured"]_vars
    BY <1>1 DEF OrdersStay
<1> QED BY Invariance, MoneyInvariance, <1>2, PTL DEF Spec, RecordsStay
=============================================================================
