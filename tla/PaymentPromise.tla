--------------------------- MODULE PaymentPromise ---------------------------
(* What the payment missions of one property promise their owner: an intent to  *)
(* record a payment is recorded at most once or withdrawn, never both; only a   *)
(* recorded one is ever reported as verified; and no two receipts of an order   *)
(* were written by people who looked at the same version of it.                 *)
EXTENDS Naturals

CONSTANTS Mission, Order

VARIABLES
  intent,  \* what became of each mission's intent
  ledger   \* receipts, append-only: mission, order and the version it was paid at

vars == <<intent, ledger>>

Intent == {"none", "open", "withdrawn", "recorded", "verified"}

Init == /\ intent = [m \in Mission |-> "none"]
        /\ ledger = {}

Become(m, from, to) == /\ intent[m] = from
                       /\ intent' = [intent EXCEPT ![m] = to]

Open(m) == Become(m, "none", "open") /\ UNCHANGED ledger

Withdraw(m) == Become(m, "open", "withdrawn") /\ UNCHANGED ledger

Record(m) ==
  /\ Become(m, "open", "recorded")
  /\ \E receipt \in ledger' :
       /\ receipt \in [mission: {m}, order: Order, version: Nat]
       /\ \A r \in ledger : r.order = receipt.order => r.version < receipt.version
       /\ ledger' = ledger \cup {receipt}

Verify(m) == Become(m, "recorded", "verified") /\ UNCHANGED ledger

Next == \E m \in Mission : Open(m) \/ Withdraw(m) \/ Record(m) \/ Verify(m)

Spec == Init /\ [][Next]_vars
=============================================================================
