---------------------------- MODULE AccountLedger ----------------------------
(***************************************************************************)
(* The account model of ledger.c: accounts found or created by id, each    *)
(* with a balance, a nonce and a linked list of history entries, newest    *)
(* first.  The commands transfer and transfer_nonce of main.c reach it, and*)
(* so do the credits of the mining commands.                               *)
(***************************************************************************)
EXTENDS Attendance, MachineInt, FiniteSets, SequencesExt, FiniteSetsExt

CONSTANTS
  Ids,            \* whatever users may type for an account
  Registry,       \* the students, whose accounts exist from the start
  Miners,         \* the ids the mining commands credit
  SYSTEM, MINER,  \* the senders history gives to credits
  MAX_STUDENTS,
  RewardAmounts, MinerAmounts,      \* what a credit may be worth
  TransferAmounts, NonceAmounts,    \* amounts typed for the two commands
  MaxCredits, MaxTransfers          \* bounds of the model

ASSUME AccountAssumption ==
  /\ IsFiniteSet(Ids) /\ Registry \subseteq Ids /\ Miners \subseteq Ids
  /\ {SYSTEM, MINER} \cap Ids = {}
  /\ MAX_STUDENTS \in Nat /\ Cardinality(Registry) <= MAX_STUDENTS
  /\ RewardAmounts \subseteq MachineInts /\ MinerAmounts \subseteq MachineInts
  /\ TransferAmounts \subseteq MachineInts /\ NonceAmounts \subseteq MachineInts
  /\ MaxCredits \in Nat /\ MaxTransfers \in Nat

VARIABLES
  known,     \* the ids that have an account
  balance, nonce, history,
  credits    \* bookkeeping: the amounts credited since the ledger was reset

vars == <<known, balance, nonce, history, credits>>

\* ledger_init, and ledger_set_model to the account model.
Init ==
  /\ known = Registry
  /\ balance = [id \in Ids |-> 0] /\ nonce = [id \in Ids |-> 0]
  /\ history = [id \in Ids |-> <<>>]
  /\ credits = <<>>

\* The tables after memset, but for the accounts opened for accounts.
Cleared(accounts) ==
  /\ known' = accounts
  /\ balance' = [id \in Ids |-> 0] /\ nonce' = [id \in Ids |-> 0]
  /\ history' = [id \in Ids |-> <<>>]
  /\ credits' = <<>>

Reset == Cleared(Registry)

\* Variant with a bug: the table has no limit.
FindOrCreateUnbounded(accounts, id) == accounts \cup {id}

\* find_or_create_account: the accounts there are afterwards.
FindOrCreate(accounts, id) ==
  IF Cardinality(accounts) < MAX_STUDENTS THEN accounts \cup {id} ELSE accounts

Entry(sender, recipient, amount, fee, n) ==
  [sender |-> sender, recipient |-> recipient, amount |-> amount, fee |-> fee,
   nonce |-> n]

\* The two ways an account is credited, alike but for the history entry.
Credit(id, amount, from, fee) ==
  /\ Len(credits) < MaxCredits
  /\ known' = FindOrCreate(known, id)
  /\ IF id \in known'
     THEN /\ balance' = [balance EXCEPT ![id] = AsInt(@ + amount)]
          /\ history' = [history EXCEPT
                           ![id] = <<Entry(from, id, amount, fee, nonce[id])>> \o @]
          /\ credits' = Append(credits, amount)
     ELSE UNCHANGED <<balance, history, credits>>
  /\ UNCHANGED nonce

ApplyReward(student, amount) == Credit(student, amount, SYSTEM, TX_FEE)

CreditMiner(miner, amount) == amount > 0 /\ Credit(miner, amount, MINER, 0)

\* Variant with a bug: the fee is forgotten when the balance is checked.
CoversWithoutFee(sender, amount) == balance[sender] >= amount

Covers(sender, amount) == balance[sender] >= AsInt(amount + TX_FEE)

\* Variant with a bug: the fee is not charged.
MovedWithoutFee(sender, recipient, amount) ==
  LET paid == [balance EXCEPT ![sender] = AsInt(@ - amount)]
  IN  [paid EXCEPT ![recipient] = AsInt(@ + amount)]

Moved(sender, recipient, amount) ==
  LET paid == [balance EXCEPT ![sender] = AsInt(@ - AsInt(amount + TX_FEE))]
  IN  [paid EXCEPT ![recipient] = AsInt(@ + amount)]

\* Variant with a bug: only the sender keeps a record.
RecordedBySender(entry) == [history EXCEPT ![entry.sender] = <<entry>> \o @]

Recorded(entry) ==
  LET sent == [history EXCEPT ![entry.sender] = <<entry>> \o @]
  IN  [sent EXCEPT ![entry.recipient] = <<entry>> \o @]

\* Variant with a bug: the nonce stays the same.
NonceKept(sender) == nonce

NonceUsed(sender) == [nonce EXCEPT ![sender] = @ + 1]

\* How many transfers have settled.
Transfers == SumFunction(nonce)

\* account_transfer: both accounts are created even if the transfer is refused.
AccountTransfer(sender, recipient, amount, n) ==
  LET accepted == /\ {sender, recipient} \subseteq known'
                  /\ n = nonce[sender] /\ Covers(sender, amount)
  IN  /\ known' = FindOrCreate(FindOrCreate(known, sender), recipient)
      /\ \/ /\ accepted /\ Transfers < MaxTransfers
            /\ balance' = Moved(sender, recipient, amount)
            /\ history' = Recorded(Entry(sender, recipient, amount, TX_FEE, n))
            /\ nonce' = NonceUsed(sender)
         \/ ~accepted /\ UNCHANGED <<balance, history, nonce>>
      /\ UNCHANGED credits

\* "transfer": registered students, a positive amount, never to oneself, with
\* the nonce filled in.
Transfer(sender, recipient, amount) ==
  /\ amount > 0 /\ sender # recipient
  /\ AccountTransfer(sender, recipient, amount, nonce[sender])

\* "transfer_nonce" checks none of that.
TransferWithNonce(sender, recipient, amount, n) ==
  AccountTransfer(sender, recipient, amount, n)

Next ==
  \/ \E s \in Registry, a \in RewardAmounts : ApplyReward(s, a)
  \/ \E m \in Miners, a \in MinerAmounts : CreditMiner(m, a)
  \/ \E s, r \in Registry, a \in TransferAmounts : Transfer(s, r, a)
  \/ \E s, r \in Ids, a \in NonceAmounts, n \in 0..MaxTransfers :
       TransferWithNonce(s, r, a, n)
  \/ Reset

Spec == Init /\ [][Next]_vars

-----------------------------------------------------------------------------
Entries ==
  [sender : Ids \cup {SYSTEM, MINER}, recipient : Ids, amount : MachineInts,
   fee : {0, TX_FEE}, nonce : Nat]

\* Types and capacities; an account that does not exist has never been used.
TypeOK ==
  /\ known \subseteq Ids /\ Registry \subseteq known
  /\ Cardinality(known) <= MAX_STUDENTS
  /\ balance \in [Ids -> MachineInts] /\ nonce \in [Ids -> Nat]
  /\ history \in [Ids -> Seq(Entries)] /\ credits \in Seq(MachineInts)
  /\ \A id \in Ids \ known : balance[id] = 0 /\ nonce[id] = 0 /\ history[id] = <<>>

IsTransfer(e) == e.sender \in Ids

\* Where the history of id has the transfers it sent.
Sent(id) == {i \in 1..Len(history[id]) : history[id][i].sender = id}

\* No nonce is ever used for two transfers, and none is skipped: the transfers
\* an account has sent carry exactly the nonces below its own, the newest first
\* (a transfer to oneself is entered twice in a row).
NoncesUsedOnce ==
  \A id \in Ids :
    /\ {history[id][i].nonce : i \in Sent(id)} = 0..(nonce[id] - 1)
    /\ \A i, j \in Sent(id) :
         i < j => \/ history[id][i].nonce > history[id][j].nonce
                  \/ j = i + 1 /\ history[id][i] = history[id][j]

\* Every transfer is in the books of both parties.
DoubleEntry ==
  \A id \in Ids : \A e \in Range(history[id]) :
    IsTransfer(e) => e \in Range(history[e.sender]) \cap Range(history[e.recipient])

\* Nothing appears or disappears but what is credited and the fee of every
\* transfer, however transfers and refusals mix: to the coin, and where a sum
\* overflows modulo the width of an int.
Conservation ==
  AsInt(SumFunction([id \in Ids |-> balance[id] + TX_FEE * nonce[id]]))
    = AsInt(SumFunction(credits))

\* What an entry of the history of id did to its balance.
Effect(id, e) ==
  (IF e.recipient = id THEN e.amount ELSE 0)
    - (IF e.sender = id THEN e.amount + TX_FEE ELSE 0)

Effects(id) == [i \in DOMAIN history[id] |-> Effect(id, history[id][i])]

\* The history of an account explains its balance to the coin, also across an
\* overflow, unless it has transferred to itself (which is entered, but not
\* charged, twice).
HistoryExplainsBalance ==
  \A id \in Ids :
    (\A e \in Range(history[id]) : e.sender # e.recipient) =>
      balance[id] = AsInt(SumFunction(Effects(id)))

\* What passed through an account, fees included.
Turnover(id) ==
  SumFunction([i \in DOMAIN history[id] |-> history[id][i].amount + TX_FEE])

\* Only a transfer of a negative amount, or more turnover than an int can count,
\* can put an account into debt: one that saw neither owes nothing, whatever
\* the others do.
DebtHasCause ==
  \A id \in Ids :
    balance[id] < 0 => \/ \E e \in Range(history[id]) : e.amount < 0
                       \/ Turnover(id) > INT_MAX

Bank == INSTANCE TokenBank WITH
  Owners <- Ids, Fee <- TX_FEE, MintAmounts <- RewardAmounts \cup MinerAmounts,
  TransferAmounts <- TransferAmounts \cup NonceAmounts

\* The account model is a token bank: no command, refused or not, changes
\* balances in any other way, and a transfer moves its amount and the fee only
\* if the sender's balance covers the two, added up as ints.
ImplementsBank == Bank!Spec
=============================================================================
