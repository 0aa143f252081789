------------------------------- MODULE Ledger -------------------------------
(***************************************************************************)
(* ledger.c as its callers see it: one Ledger with a model and the tables  *)
(* of both, of which the model in use decides what an operation works on.  *)
(* It composes AccountLedger and UtxoLedger, operation by operation.       *)
(***************************************************************************)
EXTENDS Attendance, MachineInt, FiniteSets

CONSTANTS
  Ids, Registry, Miners, SYSTEM, MINER, MAX_STUDENTS,     \* as AccountLedger,
  NonceAmounts, MaxCredits, MaxTransfers,
  REF_SIZE, MAX_UTXOS, MAX_TX_INPUTS, TX_BUFFER_INPUTS,   \* as UtxoLedger,
  Rewards,
  MinerAmounts, TransferAmounts                           \* and as both

ASSUME LedgerAssumption ==
  /\ IsFiniteSet(Ids) /\ Registry \subseteq Ids /\ Miners \subseteq Ids
  /\ {SYSTEM, MINER} \cap Ids = {}
  /\ MAX_STUDENTS \in Nat /\ Cardinality(Registry) <= MAX_STUDENTS
  /\ MaxCredits \in Nat /\ MaxTransfers \in Nat
  /\ {REF_SIZE, MAX_UTXOS, MAX_TX_INPUTS} \subseteq Nat \ {0}
  /\ TX_BUFFER_INPUTS \in Nat
  /\ Rewards \subseteq 0..INT_MAX
  /\ MinerAmounts \subseteq MachineInts /\ TransferAmounts \subseteq MachineInts
  /\ NonceAmounts \subseteq MachineInts

VARIABLES
  model,
  known, balance, nonce, history, credits,  \* account_ledger
  outputs, reply,                           \* utxo_set
  credit    \* bookkeeping: what each owner was credited since the last reset

Account == INSTANCE AccountLedger WITH
  RewardAmounts <- {NetReward(r) : r \in Rewards}

Utxo == INSTANCE UtxoLedger

accountVars == <<known, balance, nonce, history, credits>>
utxoVars == <<outputs, reply>>
vars == <<model, accountVars, utxoVars, credit>>

Owners == Registry \cup Miners

NoCredit == [o \in Owners |-> 0]

\* The accounts ledger_init creates.
Initially(m) == IF m = "account" THEN Registry ELSE {}

Init ==
  /\ model \in LedgerModels
  /\ known = Initially(model)
  /\ balance = [id \in Ids |-> 0] /\ nonce = [id \in Ids |-> 0]
  /\ history = [id \in Ids |-> <<>>] /\ credits = <<>>
  /\ Utxo!Init
  /\ credit = NoCredit

\* Variant with a bug: the model changes, the tables stay.
SwitchOnly(m) ==
  model' = m /\ credit' = NoCredit /\ UNCHANGED <<accountVars, utxoVars>>

\* ledger_set_model: the tables of both models are emptied.
SetModel(m) ==
  /\ model' = m /\ credit' = NoCredit
  /\ Account!Cleared(Initially(m)) /\ Utxo!Reset

\* What the caller of a credit is told.
Booked(owner) ==
  IF model = "utxo" THEN Len(outputs') > Len(outputs) ELSE owner \in known'

Book(owner, amount) ==
  credit' = IF Booked(owner) THEN [credit EXCEPT ![owner] = @ + amount] ELSE credit

ApplyConfirmedBlock(student, reward) ==
  /\ reward > 0
  /\ \/ model = "utxo" /\ Utxo!ApplyReward(student, reward) /\ UNCHANGED accountVars
     \/ /\ model = "account" /\ Account!ApplyReward(student, NetReward(reward))
        /\ UNCHANGED utxoVars
  /\ Book(student, NetReward(reward)) /\ UNCHANGED model

CreditMiner(miner, amount) ==
  /\ \/ model = "utxo" /\ Utxo!CreditMiner(miner, amount) /\ UNCHANGED accountVars
     \/ model = "account" /\ Account!CreditMiner(miner, amount) /\ UNCHANGED utxoVars
  /\ Book(miner, amount) /\ UNCHANGED model

Transfer(sender, recipient, amount) ==
  /\ \/ /\ model = "utxo" /\ Utxo!Transfer(sender, recipient, amount)
        /\ UNCHANGED accountVars
     \/ /\ model = "account" /\ Account!Transfer(sender, recipient, amount)
        /\ UNCHANGED utxoVars
  /\ UNCHANGED <<model, credit>>

\* The UTXO model has no nonces and refuses.
TransferWithNonce(sender, recipient, amount, n) ==
  /\ model = "account" /\ Account!TransferWithNonce(sender, recipient, amount, n)
  /\ UNCHANGED <<model, utxoVars, credit>>

Next ==
  \/ \E s \in Registry, reward \in Rewards : ApplyConfirmedBlock(s, reward)
  \/ \E m \in Miners, a \in MinerAmounts : CreditMiner(m, a)
  \/ \E s, r \in Registry, a \in TransferAmounts : Transfer(s, r, a)
  \/ \E s, r \in Ids, a \in NonceAmounts, n \in 0..MaxTransfers :
       TransferWithNonce(s, r, a, n)
  \/ \E m \in LedgerModels : SetModel(m)

Spec == Init /\ [][Next]_vars

-----------------------------------------------------------------------------
\* ledger_balance
Balance(id) ==
  CASE model = "utxo" -> Utxo!Balance(id)
    [] model = "account" -> balance[id]

Bank == INSTANCE TokenBank WITH
  Owners <- Ids, balance <- [id \in Ids |-> Balance(id)], Fee <- TX_FEE,
  MintAmounts <- {NetReward(r) : r \in Rewards} \cup MinerAmounts,
  TransferAmounts <- TransferAmounts \cup NonceAmounts

\* Whatever model is in use and however often it is changed, the balances users
\* see are those of a token bank, with its sums in int: nothing changes them but
\* credits, transfers that the balance covers and the choice of a model.  Only
\* a transfer that fills the table of outputs may lose coins.
ImplementsBank ==
  /\ Bank!Empty
  /\ [][Bank!Next \/ (Len(outputs') = MAX_UTXOS /\ Bank!SomeLeak)]_
       [id \in Ids |-> Balance(id)]

CreditView == INSTANCE CreditBook WITH
  Students <- Registry, TypedIds <- Ids,
  CreditAmounts <- {NetReward(r) : r \in Rewards} \cup MinerAmounts,
  ledger <- [model |-> model, credit |-> credit, outputs |-> Len(outputs),
             accounts |-> known]

\* The two detailed ledgers together implement the book of credits that the
\* mining commands are checked against: a credit is refused exactly when the
\* table in use is full, and no transfer and no change of model breaks that.
ImplementsCreditBook == CreditView!Spec
=============================================================================
