--------------------------- MODULE PaymentLedger ---------------------------
(***************************************************************************)
(* What the store's payments promise (src/store/datatiles_store/           *)
(* commerce.py, payments.py): the provider takes the money of an order at  *)
(* most once, and a user is given an item at most once, for money taken    *)
(* from that user for that item, for ever.                                 *)
(***************************************************************************)
CONSTANTS
    Order,      \* orders at the provider that the store knows
    User,
    Item,
    None

VARIABLES
    ledger,     \* order -> whose it is, for what, and where its money is; or None
    granted     \* who was given what

ledgerVars == <<ledger, granted>>

Account == [user : User, item : Item, money : {"due", "taken"}]

\* Orders may be open from before; no money is taken.
Init ==
    /\ ledger \in [Order -> {None} \union {a \in Account : a.money = "due"}]
    /\ granted = {}

Open(o, u, i) ==
    /\ ledger[o] = None
    /\ ledger' = [ledger EXCEPT ![o] = [user |-> u, item |-> i, money |-> "due"]]
    /\ UNCHANGED granted

Take(o) ==
    /\ ledger[o] # None /\ ledger[o].money = "due"
    /\ ledger' = [ledger EXCEPT ![o].money = "taken"]
    /\ UNCHANGED granted

Grant(o) ==
    LET account == ledger[o]
        grant == [user |-> account.user, item |-> account.item] IN
    /\ account # None /\ account.money = "taken"
    /\ grant \notin granted
    /\ granted' = granted \union {grant}
    /\ UNCHANGED ledger

Next == \E o \in Order : Take(o) \/ Grant(o) \/ \E u \in User, i \in Item : Open(o, u, i)

Spec == Init /\ [][Next]_ledgerVars
=============================================================================
