----------------------------- MODULE UtxoLedger -----------------------------
(***************************************************************************)
(* The UTXO model of ledger.c: a table of outputs, each spent or not.  A   *)
(* transfer selects outputs of the sender, refers to each by "digest:index"*)
(* and marks it spent through that reference.  The reference is kept in a  *)
(* buffer of REF_SIZE bytes, HASH_LEN in the code, which a digest fills.   *)
(***************************************************************************)
EXTENDS Attendance, MachineInt, FiniteSets, FiniteSetsExt, Functions

CONSTANTS
  Registry, Miners,
  REF_SIZE,             \* sizeof of TxInput.utxo_ref
  MAX_UTXOS, MAX_TX_INPUTS,
  TX_BUFFER_INPUTS,     \* inputs that the buffer of compute_transaction_id holds
  Rewards,              \* token rewards of confirmed blocks
  MinerAmounts, TransferAmounts

ASSUME UtxoAssumption ==
  /\ IsFiniteSet(Registry \cup Miners)
  /\ {REF_SIZE, MAX_UTXOS, MAX_TX_INPUTS} \subseteq Nat \ {0}
  /\ TX_BUFFER_INPUTS \in Nat
  /\ Rewards \subseteq 0..INT_MAX
  /\ MinerAmounts \subseteq MachineInts /\ TransferAmounts \subseteq MachineInts

VARIABLES
  outputs,   \* utxo_set
  reply      \* what the last transfer answered

vars == <<outputs, reply>>

Owners == Registry \cup Miners

HASH_DIGITS == 64

NoReply == [verdict |-> "none", had |-> 0, needed |-> 0]

Init == outputs = <<>> /\ reply = NoReply

\* ledger_set_model to the UTXO model.
Reset == outputs' = <<>> /\ reply' = NoReply

Utxo(tx, index, output) ==
  [tx_id |-> tx, output_index |-> index, owner |-> output.owner,
   amount |-> output.amount, spent |-> FALSE]

\* Variant with a bug: the index is left out.
RefWithoutIndex(utxo) == [tx_id |-> utxo.tx_id, output_index |-> 0]

\* "digest:index", and what strncpy leaves of it in the buffer of an input.
Ref(utxo) == [tx_id |-> utxo.tx_id, output_index |-> utxo.output_index]

StoredRef(utxo) ==
  IF REF_SIZE - 1 >= HASH_DIGITS + 2 THEN Ref(utxo)
  ELSE [tx_id |-> utxo.tx_id, output_index |-> -1]

\* Variant with a bug: outputs are counted from one.
AddOutputsFromOne(table, tx) ==
  table \o [i \in 1..Len(tx.outputs) |-> Utxo(tx, i, tx.outputs[i])]

\* utxo_add for one output after another, as long as there is room.
AddOutputs(table, tx) ==
  LET room == MAX_UTXOS - Len(table)
      added == IF Len(tx.outputs) <= room THEN Len(tx.outputs) ELSE room
  IN  table \o [i \in 1..added |-> Utxo(tx, i - 1, tx.outputs[i])]

\* A credit whose transaction has one output; refused if the table is full.
Apply(tx) ==
  /\ outputs' = AddOutputs(outputs, tx)
  /\ UNCHANGED reply

ApplyReward(student, reward) == reward > 0 /\ Apply(RewardTransaction(student, reward))

MinerTransaction(miner, amount) ==
  [is_reward |-> TRUE, fee |-> 0, inputs |-> <<>>,
   outputs |-> <<Output(miner, amount)>>]

CreditMiner(miner, amount) == amount > 0 /\ Apply(MinerTransaction(miner, amount))

\* The positions of the unspent outputs of owner.
Spendable(owner) ==
  {i \in 1..Len(outputs) : ~outputs[i].spent /\ outputs[i].owner = owner}

Amounts == [i \in 1..Len(outputs) |-> outputs[i].amount]

\* What the outputs at these positions add up to in an int.
Worth(positions) == AsInt(SumFunctionOnSet(Amounts, positions))

\* Where the loop of utxo_transfer over the table breaks off.
Sufficient(found, needed) ==
  \/ Len(found) >= MAX_TX_INPUTS
  \/ found # <<>> /\ Worth(Range(found)) >= needed

\* First come, first selected, until the amount is covered or the transaction
\* holds as many inputs as it can.
Selected(owner, needed) ==
  LET scan[i \in 0..Len(outputs)] ==
        IF i = 0 THEN <<>>
        ELSE IF i \in Spendable(owner) /\ ~Sufficient(scan[i - 1], needed)
             THEN Append(scan[i - 1], i) ELSE scan[i - 1]
  IN  scan[Len(outputs)]

\* Variant with a bug: the sender is given no change.
TransferWithoutChange(positions, sender, recipient, amount, change) ==
  [is_reward |-> FALSE, fee |-> TX_FEE,
   inputs |-> [k \in 1..Len(positions) |->
                 [utxo_ref |-> StoredRef(outputs[positions[k]]), owner |-> sender,
                  amount |-> outputs[positions[k]].amount]],
   outputs |-> <<Output(recipient, amount)>>]

TransferTransaction(positions, sender, recipient, amount, change) ==
  [is_reward |-> FALSE, fee |-> TX_FEE,
   inputs |-> [k \in 1..Len(positions) |->
                 [utxo_ref |-> StoredRef(outputs[positions[k]]), owner |-> sender,
                  amount |-> outputs[positions[k]].amount]],
   outputs |-> <<Output(recipient, amount)>> \o change]

\* compute_transaction_id: a transaction of more inputs does not fit its buffer.
Serializable(tx) == Len(tx.inputs) <= TX_BUFFER_INPUTS

\* utxo_mark_spent: the first unspent output that ref names, if there is one.
Named(table, ref) ==
  {i \in 1..Len(table) : ~table[i].spent /\ Ref(table[i]) = ref}

\* Variant with a bug: the output that was found is not marked.
MarkNothing(table, ref) == table

MarkSpent(table, ref) ==
  IF Named(table, ref) = {} THEN table
  ELSE [table EXCEPT ![Min(Named(table, ref))].spent = TRUE]

\* The table after marking the first k inputs of tx.
Marked(tx, k) ==
  LET marked[n \in 0..Len(tx.inputs)] ==
        IF n = 0 THEN outputs
        ELSE MarkSpent(marked[n - 1], tx.inputs[n].utxo_ref)
  IN  marked[k]

\* Variant with a bug: nobody looks whether an input was found.
DanglingIgnored(tx) == {}

\* The inputs of tx that name no output when their turn comes.
Dangling(tx) ==
  {k \in 1..Len(tx.inputs) :
     Named(Marked(tx, k - 1), tx.inputs[k].utxo_ref) = {}}

\* utxo_transfer: covered or not, representable or not, and then marked input
\* by input and paid output by output, with no way back.
Transfer(sender, recipient, amount) ==
  LET needed == AsInt(amount + TX_FEE)
      inputs == Selected(sender, needed)
      had == Worth(Range(inputs))
      change == IF had > needed THEN <<Output(sender, AsInt(had - needed))>>
                                ELSE <<>>
      tx == TransferTransaction(inputs, sender, recipient, amount, change)
      Answer(verdict) ==
        reply' = [verdict |-> verdict, had |-> had, needed |-> needed]
  IN  /\ amount > 0 /\ sender # recipient
      /\ \/ had < needed /\ Answer("insufficient") /\ UNCHANGED outputs
         \/ /\ had >= needed /\ ~Serializable(tx)
            /\ Answer("failed") /\ UNCHANGED outputs
         \/ /\ had >= needed /\ Serializable(tx) /\ Dangling(tx) # {}
            /\ Answer("double spend")
            /\ outputs' = Marked(tx, Min(Dangling(tx)) - 1)
         \/ /\ had >= needed /\ Serializable(tx) /\ Dangling(tx) = {}
            /\ outputs' = AddOutputs(Marked(tx, Len(tx.inputs)), tx)
            /\ Answer(IF Len(outputs) + Len(tx.outputs) <= MAX_UTXOS
                      THEN "confirmed" ELSE "failed")

Next ==
  \/ \E s \in Registry, reward \in Rewards : ApplyReward(s, reward)
  \/ \E m \in Miners, a \in MinerAmounts : CreditMiner(m, a)
  \/ \E s, r \in Registry, a \in TransferAmounts : Transfer(s, r, a)
  \/ Reset

Spec == Init /\ [][Next]_vars

-----------------------------------------------------------------------------
\* Types: a table of outputs of this ledger's transactions, within its limits.
TypeOK ==
  /\ Len(outputs) <= MAX_UTXOS
  /\ \A i \in 1..Len(outputs) :
       LET u == outputs[i]
       IN  /\ u.owner \in Owners /\ u.amount \in MachineInts
           /\ u.spent \in BOOLEAN
           /\ u.output_index + 1 \in 1..Len(u.tx_id.outputs)
           /\ Len(u.tx_id.inputs) <= MAX_TX_INPUTS
  /\ reply.verdict \in {"none", "insufficient", "double spend", "failed", "confirmed"}
  /\ {reply.had, reply.needed} \subseteq MachineInts

\* utxo_balance
Balance(owner) == Worth(Spendable(owner))

\* Equal rewards have equal transaction ids, so a reference may name several
\* outputs: they always have one owner and one amount, and which of them is
\* marked spent makes no difference.
RefsAreUnambiguous ==
  \A i, j \in 1..Len(outputs) :
    Ref(outputs[i]) = Ref(outputs[j]) =>
      /\ outputs[i].owner = outputs[j].owner
      /\ outputs[i].amount = outputs[j].amount

\* How often the transactions in the table have spent ref.  A transfer is in
\* the table as often as its first output is.
TimesSpent(ref) ==
  LET transfers == {i \in 1..Len(outputs) :
                      ~outputs[i].tx_id.is_reward /\ outputs[i].output_index = 0}
      uses == [i \in 1..Len(outputs) |->
                 Cardinality({k \in 1..Len(outputs[i].tx_id.inputs) :
                                outputs[i].tx_id.inputs[k].utxo_ref = ref})]
  IN  SumFunctionOnSet(uses, transfers)

\* No output is spent twice: the transfers in the table have used a reference
\* as an input at most as often as outputs of it are marked spent.  And none is
\* spent in vain: exactly as often, for as long as the table had room for the
\* outputs of every transfer.
NoDoubleSpend ==
  \A i \in 1..Len(outputs) :
    LET ref == Ref(outputs[i])
        spent == Cardinality({j \in 1..Len(outputs) :
                                outputs[j].spent /\ Ref(outputs[j]) = ref})
    IN  /\ TimesSpent(ref) <= spent
        /\ Len(outputs) < MAX_UTXOS => TimesSpent(ref) = spent

\* A transfer that the balance covers is settled ("Rejects when inputs cannot
\* cover amount + TX_FEE").
CoveredTransferSettles ==
  reply.verdict # "none" /\ reply.had >= reply.needed
    => reply.verdict = "confirmed"

Bank == INSTANCE TokenBank WITH
  balance <- [o \in Owners |-> Balance(o)], Fee <- TX_FEE,
  MintAmounts <- {NetReward(r) : r \in Rewards} \cup MinerAmounts

TableIsFull == Len(outputs) = MAX_UTXOS

\* The UTXO model is a token bank: inputs, outputs and change together move
\* exactly the amount from sender to recipient and burn exactly the fee.  Only
\* a transfer that fills the table may lose coins, those of its sender.
ImplementsBank ==
  /\ Bank!Empty
  /\ [][Bank!Next \/ (TableIsFull' /\ Bank!SomeLeak)]_[o \in Owners |-> Balance(o)]
=============================================================================
