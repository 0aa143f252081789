------------------------------ MODULE TokenBank ------------------------------
(***************************************************************************)
(* What either ledger model promises: a balance per owner, that grows by   *)
(* what is minted for it, and moves in transfers that a sufficient balance *)
(* covers, together with a fee that nobody receives (a transfer to oneself *)
(* costs the fee only).  Balances and sums are ints, of any width.         *)
(***************************************************************************)
EXTENDS MachineInt

CONSTANTS Owners, Fee, MintAmounts, TransferAmounts

VARIABLE balance

Empty == balance = [o \in Owners |-> 0]

Mint(owner, amount) ==
  balance' = [balance EXCEPT ![owner] = AsInt(@ + amount)]

Debit(amount) == AsInt(amount + Fee)

Posted(sender, debit, recipient, amount) ==
  LET paid == [balance EXCEPT ![sender] = AsInt(@ - debit)]
  IN  [paid EXCEPT ![recipient] = AsInt(@ + amount)]

Move(sender, recipient, amount) ==
  /\ balance[sender] >= Debit(amount)
  /\ balance' = Posted(sender, Debit(amount), recipient, amount)

\* A command that is refused, or that changes no balance.
Refuse == UNCHANGED balance

Reset == balance' = [o \in Owners |-> 0]

Next ==
  \/ Refuse
  \/ \E o \in Owners, a \in MintAmounts : Mint(o, a)
  \/ \E s, r \in Owners, a \in TransferAmounts : Move(s, r, a)
  \/ Reset

Spec == Empty /\ [][Next]_balance

-----------------------------------------------------------------------------
\* What a ledger of limited size may do instead of a transfer it has no room
\* for: the sender pays at least what it owes, and the recipient may get nothing.
Leak(sender, recipient, amount) ==
  /\ balance[sender] >= Debit(amount)
  /\ \E debit \in Debit(amount)..INT_MAX, received \in {0, amount} :
       balance' = Posted(sender, debit, recipient, received)

SomeLeak == \E s, r \in Owners, a \in TransferAmounts : Leak(s, r, a)
=============================================================================
