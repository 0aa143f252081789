------------------------------ MODULE CreditBook ------------------------------
(***************************************************************************)
(* What the detailed ledgers promise to the mining commands: a credit is   *)
(* booked exactly when the table behind it has room, transfers change the  *)
(* tables but no credit, and choosing a model starts a new book.           *)
(***************************************************************************)
EXTENDS TokenLedger

CONSTANT CreditAmounts

VARIABLE ledger

Init == \E model \in LedgerModels : ledger = LedgerInit(model)

Credit(owner, amount) == ledger' = TryCredit(ledger, owner, amount)

Transfer(sender, recipient) == ledger' \in Transferred(ledger, sender, recipient)

SetModel(model) == ledger' = LedgerInit(model)

Next ==
  \/ \E o \in Owners, a \in CreditAmounts : Credit(o, a)
  \/ \E s, r \in TypedIds : Transfer(s, r)
  \/ \E m \in LedgerModels : SetModel(m)

Spec == Init /\ [][Next]_ledger
=============================================================================
