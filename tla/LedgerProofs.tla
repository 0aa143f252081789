---------------------------- MODULE LedgerProofs ----------------------------
(***************************************************************************)
(* What the interface of ledger.c promises follows from what its two       *)
(* halves do: the theorems of UtxoProofs and AccountProofs are applied to  *)
(* the half in use.  Table and Books are the same modules as Utxo and      *)
(* Account, together with what is proved about them; the lemmas on names   *)
(* say so, operation by operation.                                         *)
(***************************************************************************)
EXTENDS Ledger, FiniteSetTheorems, TLAPS

Table == INSTANCE UtxoProofs

Books == INSTANCE AccountProofs WITH
  RewardAmounts <- {NetReward(r) : r \in Rewards}

-----------------------------------------------------------------------------
(* The assumptions of both halves. *)

LEMMA SameMachineInts ==
  /\ Table!MachineInts = MachineInts /\ Books!MachineInts = MachineInts
  /\ Utxo!MachineInts = MachineInts /\ Account!MachineInts = MachineInts
  BY DEF MachineInts, INT_MIN, Table!MachineInts, Table!INT_MIN, Books!MachineInts,
    Books!INT_MIN, Utxo!MachineInts, Utxo!INT_MIN, Account!MachineInts, Account!INT_MIN

LEMMA OfTable ==
  /\ Table!IsFiniteSet(Registry \cup Miners)
  /\ {REF_SIZE, MAX_UTXOS, MAX_TX_INPUTS} \subseteq Nat \ {0}
  /\ TX_BUFFER_INPUTS \in Nat
  /\ Rewards \subseteq 0..INT_MAX
  /\ MinerAmounts \subseteq Table!MachineInts /\ TransferAmounts \subseteq Table!MachineInts
  <1>1. IsFiniteSet(Registry \cup Miners)
    BY LedgerAssumption, FS_Subset
  <1>2. Table!IsFiniteSet(Registry \cup Miners)
    BY <1>1 DEF Table!IsFiniteSet, IsFiniteSet
  <1> QED
    BY <1>2, LedgerAssumption, SameMachineInts

LEMMA NetRewardsAreInts == {NetReward(r) : r \in Rewards} \subseteq MachineInts
  BY IntMaxAssumption, LedgerAssumption DEF NetReward, TX_FEE, MachineInts, INT_MIN

LEMMA OfBooks ==
  /\ Books!IsFiniteSet(Ids) /\ Registry \subseteq Ids /\ Miners \subseteq Ids
  /\ {SYSTEM, MINER} \cap Ids = {}
  /\ MAX_STUDENTS \in Nat /\ Books!Cardinality(Registry) <= MAX_STUDENTS
  /\ {NetReward(r) : r \in Rewards} \subseteq Books!MachineInts
  /\ MinerAmounts \subseteq Books!MachineInts
  /\ TransferAmounts \subseteq Books!MachineInts /\ NonceAmounts \subseteq Books!MachineInts
  /\ MaxCredits \in Nat /\ MaxTransfers \in Nat
  <1>1. Books!Cardinality(Registry) = Cardinality(Registry)
    BY DEF Books!Cardinality, Cardinality
  <1>2. Books!IsFiniteSet(Ids)
    BY LedgerAssumption DEF Books!IsFiniteSet, IsFiniteSet
  <1> QED
    BY <1>1, <1>2, LedgerAssumption, NetRewardsAreInts, SameMachineInts

-----------------------------------------------------------------------------
(* Names: the operations of the table of outputs. *)

LEMMA SameReward ==
  ASSUME NEW s, NEW reward
  PROVE  Utxo!ApplyReward(s, reward) <=> Table!ApplyReward(s, reward)
  BY DEF Utxo!AddOutputs, Table!AddOutputs, Utxo!Utxo, Table!Utxo, Utxo!Apply, Table!Apply,
    Utxo!ApplyReward, Table!ApplyReward, Utxo!RewardTransaction, Table!RewardTransaction,
    Utxo!NetReward, Table!NetReward, Utxo!TX_FEE, Table!TX_FEE, Utxo!Output, Table!Output

LEMMA SameMinerCredit ==
  ASSUME NEW m, NEW a
  PROVE  Utxo!CreditMiner(m, a) <=> Table!CreditMiner(m, a)
  BY DEF Utxo!AddOutputs, Table!AddOutputs, Utxo!Utxo, Table!Utxo, Utxo!Apply, Table!Apply,
    Utxo!CreditMiner, Table!CreditMiner, Utxo!MinerTransaction, Table!MinerTransaction,
    Utxo!Output, Table!Output

LEMMA SameTableReset == (Utxo!Reset <=> Table!Reset) /\ (Utxo!Init <=> Table!Init)
  BY DEF Utxo!Reset, Table!Reset, Utxo!Init, Table!Init, Utxo!NoReply, Table!NoReply

LEMMA SameBalance ==
  ASSUME NEW o
  PROVE  Utxo!Balance(o) = Table!Balance(o) /\ Utxo!Balance(o)' = Table!Balance(o)'
  BY DEF Utxo!Balance, Table!Balance, Utxo!Spendable, Table!Spendable, Utxo!AsInt,
    Table!AsInt, Utxo!INT_MIN, Table!INT_MIN, Utxo!Worth, Table!Worth, Utxo!Amounts,
    Table!Amounts, Utxo!SumFunctionOnSet, Table!SumFunctionOnSet,
    Utxo!FoldFunctionOnSet, Table!FoldFunctionOnSet, Utxo!MapThenFoldSet,
    Table!MapThenFoldSet

LEMMA SameOutputs ==
  ASSUME NEW t, NEW tx PROVE Utxo!AddOutputs(t, tx) = Table!AddOutputs(t, tx)
  BY DEF Utxo!AddOutputs, Table!AddOutputs, Utxo!Utxo, Table!Utxo

LEMMA SameAsInt ==
  ASSUME NEW x
  PROVE  /\ Utxo!AsInt(x) = AsInt(x) /\ Table!AsInt(x) = AsInt(x)
         /\ Account!AsInt(x) = AsInt(x) /\ Books!AsInt(x) = AsInt(x)
         /\ Bank!AsInt(x) = AsInt(x)
  BY DEF Utxo!AsInt, Table!AsInt, Utxo!INT_MIN, Table!INT_MIN, AsInt, INT_MIN,
    Account!AsInt, Account!INT_MIN, Books!AsInt, Books!INT_MIN, Bank!AsInt, Bank!INT_MIN

LEMMA SameWorth == ASSUME NEW P PROVE Utxo!Worth(P) = Table!Worth(P)
  BY DEF Utxo!AsInt, Table!AsInt, Utxo!INT_MIN, Table!INT_MIN, Utxo!Worth, Table!Worth,
    Utxo!Amounts, Table!Amounts, Utxo!SumFunctionOnSet, Table!SumFunctionOnSet,
    Utxo!FoldFunctionOnSet, Table!FoldFunctionOnSet, Utxo!MapThenFoldSet,
    Table!MapThenFoldSet

LEMMA SameSelected ==
  ASSUME NEW o, NEW n PROVE Utxo!Selected(o, n) = Table!Selected(o, n)
  BY DEF Utxo!AsInt, Table!AsInt, Utxo!INT_MIN, Table!INT_MIN, Utxo!Selected,
    Table!Selected, Utxo!Spendable, Table!Spendable, Utxo!Sufficient, Table!Sufficient,
    Utxo!Worth, Table!Worth, Utxo!Amounts, Table!Amounts, Utxo!SumFunctionOnSet,
    Table!SumFunctionOnSet, Utxo!FoldFunctionOnSet, Table!FoldFunctionOnSet,
    Utxo!MapThenFoldSet, Table!MapThenFoldSet, Utxo!Range, Table!Range

LEMMA SameTransaction ==
  ASSUME NEW p, NEW s, NEW r, NEW a, NEW c
  PROVE  Utxo!TransferTransaction(p, s, r, a, c) = Table!TransferTransaction(p, s, r, a, c)
  BY DEF Utxo!Output, Table!Output, Utxo!TransferTransaction, Table!TransferTransaction,
    Utxo!StoredRef, Table!StoredRef, Utxo!Ref, Table!Ref, Utxo!TX_FEE, Table!TX_FEE,
    Utxo!HASH_DIGITS, Table!HASH_DIGITS

LEMMA SameMarked == ASSUME NEW tx, NEW k PROVE Utxo!Marked(tx, k) = Table!Marked(tx, k)
  BY DEF Utxo!Named, Table!Named, Utxo!Ref, Table!Ref, Utxo!Marked, Table!Marked,
    Utxo!MarkSpent, Table!MarkSpent, Utxo!Min, Table!Min

LEMMA SameDangling == ASSUME NEW tx PROVE Utxo!Dangling(tx) = Table!Dangling(tx)
  BY DEF Utxo!Named, Table!Named, Utxo!Ref, Table!Ref, Utxo!Dangling, Table!Dangling,
    Utxo!Marked, Table!Marked, Utxo!MarkSpent, Table!MarkSpent, Utxo!Min, Table!Min

LEMMA SameTableTransfer ==
  ASSUME NEW s, NEW r, NEW a
  PROVE  Utxo!Transfer(s, r, a) <=> Table!Transfer(s, r, a)
  <1>1. Utxo!TX_FEE = Table!TX_FEE
    BY DEF Utxo!TX_FEE, Table!TX_FEE
  <1>2. \A P : Utxo!Min(P) = Table!Min(P)
    BY DEF Utxo!Min, Table!Min
  <1>3. \A P : Utxo!Range(P) = Table!Range(P)
    BY DEF Utxo!Range, Table!Range
  <1>4. \A o, n : Utxo!Output(o, n) = Table!Output(o, n)
    BY DEF Utxo!Output, Table!Output
  <1>5. \A tx : Utxo!Serializable(tx) <=> Table!Serializable(tx)
    BY DEF Utxo!Serializable, Table!Serializable
  <1> QED
    BY <1>1, <1>2, <1>3, <1>4, <1>5, SameOutputs, SameAsInt, SameWorth, SameSelected,
      SameTransaction, SameMarked, SameDangling, Zenon
      DEF Utxo!Transfer, Table!Transfer

-----------------------------------------------------------------------------
(* Names: the operations of the accounts. *)

LEMMA SameBooksReset == Account!Cleared(Registry) <=> Books!Reset
  BY DEF Account!Cleared, Books!Reset, Books!Cleared

LEMMA SameFound ==
  ASSUME NEW accounts, NEW id
  PROVE  /\ Account!FindOrCreate(accounts, id) = Books!FindOrCreate(accounts, id)
         /\ Account!FindOrCreate(accounts, id)
              = IF Cardinality(accounts) < MAX_STUDENTS THEN accounts \cup {id} ELSE accounts
  BY DEF Account!FindOrCreate, Books!FindOrCreate, Account!Cardinality, Books!Cardinality,
    Cardinality

LEMMA SameAccountCredit ==
  ASSUME NEW id, NEW a, NEW from, NEW fee
  PROVE  Account!Credit(id, a, from, fee) <=> Books!Credit(id, a, from, fee)
  BY SameFound, SameAsInt
    DEF Account!Credit, Books!Credit, Account!Entry, Books!Entry

LEMMA SameAccountReward ==
  ASSUME NEW s, NEW a PROVE Account!ApplyReward(s, a) <=> Books!ApplyReward(s, a)
  BY SameAccountCredit DEF Account!ApplyReward, Books!ApplyReward, Account!TX_FEE, Books!TX_FEE

LEMMA SameAccountMinerCredit ==
  ASSUME NEW m, NEW a PROVE Account!CreditMiner(m, a) <=> Books!CreditMiner(m, a)
  BY SameAccountCredit DEF Account!CreditMiner, Books!CreditMiner

LEMMA SameSettled == Account!Transfers = Books!Transfers
  BY DEF Account!Transfers, Books!Transfers, Account!SumFunction, Books!SumFunction,
    Account!FoldFunction, Books!FoldFunction, Account!FoldFunctionOnSet,
    Books!FoldFunctionOnSet, Account!SumFunctionOnSet, Books!SumFunctionOnSet,
    Account!MapThenFoldSet, Books!MapThenFoldSet

LEMMA SameAccountTransfer ==
  ASSUME NEW s, NEW r, NEW a, NEW n
  PROVE  Account!AccountTransfer(s, r, a, n) <=> Books!AccountTransfer(s, r, a, n)
  <1>1. Account!TX_FEE = Books!TX_FEE
    BY DEF Account!TX_FEE, Books!TX_FEE
  <1>2. Account!Covers(s, a) <=> Books!Covers(s, a)
    BY <1>1, SameAsInt DEF Account!Covers, Books!Covers
  <1>3. Account!Moved(s, r, a) = Books!Moved(s, r, a)
    BY <1>1, SameAsInt DEF Account!Moved, Books!Moved
  <1>4. \A e : Account!Recorded(e) = Books!Recorded(e)
    BY DEF Account!Recorded, Books!Recorded
  <1>5. Account!Entry(s, r, a, TX_FEE, n) = Books!Entry(s, r, a, TX_FEE, n)
    BY DEF Account!Entry, Books!Entry
  <1>6. Account!NonceUsed(s) = Books!NonceUsed(s)
    BY DEF Account!NonceUsed, Books!NonceUsed
  <1>7. Account!TX_FEE = TX_FEE
    BY DEF Account!TX_FEE, TX_FEE
  <1> QED
    BY <1>1, <1>2, <1>3, <1>4, <1>5, <1>6, <1>7, SameFound, SameSettled
      DEF Account!AccountTransfer, Books!AccountTransfer

LEMMA SameTransfers ==
  ASSUME NEW s, NEW r, NEW a
  PROVE  /\ Account!Transfer(s, r, a) <=> Books!Transfer(s, r, a)
         /\ \A n : Account!TransferWithNonce(s, r, a, n) <=> Books!TransferWithNonce(s, r, a, n)
  BY SameAccountTransfer
    DEF Account!Transfer, Books!Transfer, Account!TransferWithNonce, Books!TransferWithNonce

-----------------------------------------------------------------------------
(* Every command is one of the half in use, or a change of model. *)

TableStep == model = "utxo" /\ model' = model /\ Table!Next /\ UNCHANGED accountVars

BooksStep == model = "account" /\ model' = model /\ Books!Next /\ UNCHANGED utxoVars

LEMMA LedgerSteps ==
  ASSUME Next
  PROVE  TableStep \/ BooksStep \/ \E m \in LedgerModels : SetModel(m)
  <1>1. CASE \E s \in Registry, reward \in Rewards : ApplyConfirmedBlock(s, reward)
    <2>1. PICK s \in Registry, reward \in Rewards : ApplyConfirmedBlock(s, reward)
      BY <1>1
    <2>2. NetReward(reward) \in {NetReward(r) : r \in Rewards}
      BY <2>1
    <2>3. CASE model = "utxo"
      <3>1. Table!ApplyReward(s, reward)
        BY <2>1, <2>3, SameReward DEF ApplyConfirmedBlock
      <3> QED
        BY <2>1, <2>3, <3>1 DEF ApplyConfirmedBlock, TableStep, Table!Next
    <2>4. CASE model = "account"
      <3>1. Books!ApplyReward(s, NetReward(reward))
        BY <2>1, <2>4, SameAccountReward DEF ApplyConfirmedBlock
      <3>2. Books!Next
        BY <2>1, <2>2, <3>1 DEF Books!Next
      <3> QED
        BY <2>1, <2>4, <3>2 DEF ApplyConfirmedBlock, BooksStep
    <2> QED
      BY <2>1, <2>3, <2>4 DEF ApplyConfirmedBlock
  <1>2. CASE \E m \in Miners, a \in MinerAmounts : CreditMiner(m, a)
    <2>1. PICK m \in Miners, a \in MinerAmounts : CreditMiner(m, a)
      BY <1>2
    <2>2. CASE model = "utxo"
      <3>1. Table!CreditMiner(m, a)
        BY <2>1, <2>2, SameMinerCredit DEF CreditMiner
      <3> QED
        BY <2>1, <2>2, <3>1 DEF CreditMiner, TableStep, Table!Next
    <2>3. CASE model = "account"
      <3>1. Books!CreditMiner(m, a)
        BY <2>1, <2>3, SameAccountMinerCredit DEF CreditMiner
      <3> QED
        BY <2>1, <2>3, <3>1 DEF CreditMiner, BooksStep, Books!Next
    <2> QED
      BY <2>1, <2>2, <2>3 DEF CreditMiner
  <1>3. CASE \E s, r \in Registry, a \in TransferAmounts : Transfer(s, r, a)
    <2>1. PICK s \in Registry, r \in Registry, a \in TransferAmounts : Transfer(s, r, a)
      BY <1>3
    <2>2. CASE model = "utxo"
      <3>1. Table!Transfer(s, r, a)
        BY <2>1, <2>2, SameTableTransfer DEF Transfer
      <3> QED
        BY <2>1, <2>2, <3>1 DEF Transfer, TableStep, Table!Next
    <2>3. CASE model = "account"
      <3>1. Books!Transfer(s, r, a)
        BY <2>1, <2>3, SameTransfers DEF Transfer
      <3> QED
        BY <2>1, <2>3, <3>1 DEF Transfer, BooksStep, Books!Next
    <2> QED
      BY <2>1, <2>2, <2>3 DEF Transfer
  <1>4. CASE \E s, r \in Ids, a \in NonceAmounts, n \in 0..MaxTransfers :
               TransferWithNonce(s, r, a, n)
    <2>1. PICK s \in Ids, r \in Ids, a \in NonceAmounts, n \in 0..MaxTransfers :
            TransferWithNonce(s, r, a, n)
      BY <1>4
    <2>2. Books!TransferWithNonce(s, r, a, n)
      BY <2>1, SameTransfers DEF TransferWithNonce
    <2> QED
      BY <2>1, <2>2 DEF TransferWithNonce, BooksStep, Books!Next
  <1>5. CASE \E m \in LedgerModels : SetModel(m)
    BY <1>5
  <1> QED
    BY <1>1, <1>2, <1>3, <1>4, <1>5 DEF Next

-----------------------------------------------------------------------------
(* The types of both halves, of which the one in use matters. *)

LedgerOK ==
  /\ model \in LedgerModels
  /\ Table!TableOK /\ Table!ReplyOK
  /\ model = "account" => Books!TypeOK
  /\ model = "utxo" => known = {}

LEMMA LedgerInit == Init => LedgerOK
  <1> SUFFICES ASSUME Init PROVE LedgerOK
    OBVIOUS
  <1>1. Table!TableOK /\ Table!ReplyOK
    BY Table!TableInit, OfTable, IntMaxAssumption, SameTableReset DEF Init
  <1>2. CASE model = "account"
    <2>1. Books!Init
      BY <1>2 DEF Init, Initially, Books!Init
    <2>2. Books!TypeOK
      BY <2>1, Books!TypeAtStart, OfBooks, IntMaxAssumption
    <2> QED
      BY <1>1, <1>2, <2>2 DEF LedgerOK, LedgerModels
  <1>3. CASE model = "utxo"
    BY <1>1, <1>3 DEF Init, Initially, LedgerOK, LedgerModels
  <1> QED
    BY <1>2, <1>3 DEF Init, LedgerModels

LEMMA TableOKAfter ==
  ASSUME Table!TableOK, Table!ReplyOK, Table!Next \/ UNCHANGED utxoVars
  PROVE  Table!TableOK' /\ Table!ReplyOK'
  <1>1. [Table!Next]_Table!vars
    BY DEF Table!vars, utxoVars
  <1> QED
    BY <1>1, Table!TableInEveryStep, OfTable, IntMaxAssumption

LEMMA BooksOKAfter ==
  ASSUME Books!TypeOK, Books!Next \/ UNCHANGED accountVars
  PROVE  Books!TypeOK'
  <1>1. [Books!Next]_Books!vars
    BY DEF Books!vars, accountVars
  <1> QED
    BY <1>1, Books!TypeInEveryStep, OfBooks, IntMaxAssumption

LEMMA LedgerInEveryStep == ASSUME LedgerOK, [Next]_vars PROVE LedgerOK'
  <1>1. CASE TableStep
    BY <1>1, TableOKAfter DEF TableStep, LedgerOK, accountVars
  <1>2. CASE BooksStep
    BY <1>2, TableOKAfter, BooksOKAfter DEF BooksStep, LedgerOK
  <1>3. ASSUME NEW m \in LedgerModels, SetModel(m) PROVE LedgerOK'
    <2>1. Table!Next
      BY <1>3, SameTableReset DEF SetModel, Table!Next
    <2>2. Table!TableOK' /\ Table!ReplyOK'
      BY <2>1, TableOKAfter DEF LedgerOK
    <2>3. CASE m = "account"
      <3>1. Books!Reset
        BY <1>3, <2>3, SameBooksReset DEF SetModel, Initially
      <3>2. Books!TypeOK'
        BY <3>1, Books!TypeAfterReset, OfBooks, IntMaxAssumption
      <3> QED
        BY <1>3, <2>2, <2>3, <3>2 DEF SetModel, LedgerOK
    <2>4. CASE m = "utxo"
      <3>1. known' = {} /\ model' = "utxo"
        BY <1>3, <2>4 DEF SetModel, Initially, Account!Cleared
      <3> QED
        BY <1>3, <2>2, <3>1 DEF LedgerOK, LedgerModels
    <2> QED
      BY <2>3, <2>4 DEF LedgerModels
  <1>4. CASE UNCHANGED vars
    BY <1>4, TableOKAfter, BooksOKAfter DEF LedgerOK, vars, accountVars
  <1> QED
    BY <1>1, <1>2, <1>3, <1>4, LedgerSteps

LEMMA LedgerStays == Spec => []LedgerOK
  BY LedgerInit, LedgerInEveryStep, PTL DEF Spec

-----------------------------------------------------------------------------
(* The book of credits. *)

\* What mining sees of the ledger.
Seen == [model |-> model, credit |-> credit, outputs |-> Len(outputs), accounts |-> known]

LEMMA SameOwners == Table!Owners = Owners /\ CreditView!Owners = Owners
  BY DEF Table!Owners, CreditView!Owners, Owners

LEMMA SameNet ==
  ASSUME NEW r
  PROVE  Table!NetReward(r) = NetReward(r) /\ Utxo!NetReward(r) = NetReward(r)
  BY DEF Table!NetReward, Utxo!NetReward, NetReward, Table!TX_FEE, Utxo!TX_FEE, TX_FEE

LEMMA RoomSeen ==
  ASSUME NEW l, NEW id
  PROVE  CreditView!HasRoom(l, id) <=>
           \/ l.model = "utxo" /\ l.outputs < MAX_UTXOS
           \/ l.model = "account" /\ \/ id \in l.accounts
                                     \/ Cardinality(l.accounts) < MAX_STUDENTS
  BY DEF CreditView!HasRoom, CreditView!Cardinality, Cardinality

\* A credit of the table of outputs is booked if and only if there is room.
LEMMA TableCreditIsBooked ==
  ASSUME LedgerOK, model = "utxo", NEW o \in Owners, NEW a,
         Table!Credits(o, a), Book(o, a), UNCHANGED <<model, accountVars>>
  PROVE  Seen' = CreditView!TryCredit(Seen, o, a)
  <1>1. Len(outputs') = IF Len(outputs) < MAX_UTXOS THEN Len(outputs) + 1 ELSE Len(outputs)
    BY Table!CreditLength, OfTable, IntMaxAssumption DEF LedgerOK
  <1>2. Len(outputs) \in Nat
    BY Table!TableLength, OfTable, IntMaxAssumption DEF LedgerOK
  <1>3. Booked(o) <=> Len(outputs) < MAX_UTXOS
    BY <1>1, <1>2 DEF Booked
  <1>4. CreditView!HasRoom(Seen, o) <=> Len(outputs) < MAX_UTXOS
    BY RoomSeen DEF Seen
  <1>5. known' = known /\ model' = model
    BY DEF accountVars
  <1>6. CASE Len(outputs) < MAX_UTXOS
    BY <1>1, <1>3, <1>4, <1>5, <1>6
      DEF Book, CreditView!TryCredit, CreditView!Credited, Seen
  <1>7. CASE ~(Len(outputs) < MAX_UTXOS)
    BY <1>1, <1>3, <1>4, <1>5, <1>7
      DEF Book, CreditView!TryCredit, CreditView!Credited, Seen
  <1> QED
    BY <1>6, <1>7

LEMMA AccountCreditIsBooked ==
  ASSUME LedgerOK, model = "account", NEW o \in Owners, NEW a,
         known' = Account!FindOrCreate(known, o), Book(o, a), UNCHANGED <<model, utxoVars>>
  PROVE  Seen' = CreditView!TryCredit(Seen, o, a)
  <1>1. known' = IF Cardinality(known) < MAX_STUDENTS THEN known \cup {o} ELSE known
    BY SameFound
  <1>2. Booked(o) <=> o \in known \/ Cardinality(known) < MAX_STUDENTS
    BY <1>1 DEF Booked
  <1>3. CreditView!HasRoom(Seen, o) <=> o \in known \/ Cardinality(known) < MAX_STUDENTS
    BY RoomSeen DEF Seen
  <1>4. outputs' = outputs /\ model' = model
    BY DEF utxoVars
  <1>5. CASE o \in known \/ Cardinality(known) < MAX_STUDENTS
    <2>1. known' = known \cup {o}
      BY <1>1, <1>5
    <2> QED
      BY <1>2, <1>3, <1>4, <1>5, <2>1
        DEF Book, CreditView!TryCredit, CreditView!Credited, Seen
  <1>6. CASE ~(o \in known \/ Cardinality(known) < MAX_STUDENTS)
    BY <1>1, <1>2, <1>3, <1>4, <1>6
      DEF Book, CreditView!TryCredit, CreditView!Credited, Seen
  <1> QED
    BY <1>5, <1>6

\* Transfers open accounts, or add outputs, within the limits of the tables.
LEMMA AccountTransferIsSeen ==
  ASSUME LedgerOK, model = "account", NEW s, NEW r, NEW a, NEW n,
         Account!AccountTransfer(s, r, a, n), UNCHANGED <<model, utxoVars, credit>>
  PROVE  Seen' \in CreditView!Transferred(Seen, s, r)
  <1>1. known' = Account!FindOrCreate(Account!FindOrCreate(known, s), r)
    BY DEF Account!AccountTransfer
  <1>2. ASSUME NEW l, l.model = "account", NEW id
        PROVE  CreditView!Opened(l, id).accounts = Account!FindOrCreate(l.accounts, id)
    BY <1>2, RoomSeen, SameFound DEF CreditView!Opened
  <1> DEFINE once == CreditView!Opened(Seen, s)
             twice == CreditView!Opened(once, r)
  <1>3. /\ once.model = "account" /\ once.credit = credit /\ once.outputs = Len(outputs)
        /\ once.accounts = Account!FindOrCreate(known, s)
    <2>1. /\ Seen.model = "account" /\ Seen.credit = credit
          /\ Seen.outputs = Len(outputs) /\ Seen.accounts = known
      BY DEF Seen
    <2>2. once.accounts = Account!FindOrCreate(Seen.accounts, s)
      BY <1>2, <2>1
    <2> QED
      BY <2>1, <2>2 DEF CreditView!Opened
  <1>4. /\ twice.model = "account" /\ twice.credit = credit /\ twice.outputs = Len(outputs)
        /\ twice.accounts = known'
    <2> HIDE DEF once
    <2> QED
      BY <1>1, <1>2, <1>3 DEF CreditView!Opened
  <1>5. twice = [model |-> twice.model, credit |-> twice.credit,
                 outputs |-> twice.outputs, accounts |-> twice.accounts]
    BY DEF CreditView!Opened
  <1>6. Seen' = twice
    BY <1>4, <1>5 DEF Seen, utxoVars
  <1> QED
    BY <1>6 DEF CreditView!Transferred, Seen

LEMMA TableTransferIsSeen ==
  ASSUME LedgerOK, model = "utxo", NEW s \in Registry, NEW r \in Registry,
         NEW a \in TransferAmounts, Table!Transfer(s, r, a),
         UNCHANGED <<model, accountVars, credit>>
  PROVE  Seen' \in CreditView!Transferred(Seen, s, r)
  <1>1. /\ s # r /\ a \in Table!MachineInts
        /\ UNCHANGED outputs \/ Table!Settles(s, r, a)
    BY Table!TransferStep, OfTable, IntMaxAssumption DEF LedgerOK
  <1>2. Len(outputs) \in 0..MAX_UTXOS
    BY Table!TableLength, OfTable, IntMaxAssumption DEF LedgerOK
  <1>3. Len(outputs') \in Len(outputs)..(Len(outputs) + 2) /\ Len(outputs') <= MAX_UTXOS
    <2>1. CASE UNCHANGED outputs
      BY <1>2, <2>1
    <2>2. CASE Table!Settles(s, r, a)
      BY <1>1, <2>2, Table!SettledLength, OfTable, IntMaxAssumption DEF LedgerOK
    <2> QED
      BY <1>1, <2>1, <2>2
  <1>4. Seen' = CreditView!WithOutputs(Seen, Len(outputs'))
    BY DEF Seen, CreditView!WithOutputs, accountVars
  <1>5. Seen.model = "utxo" /\ Seen.outputs = Len(outputs)
    BY DEF Seen
  <1> QED
    BY <1>1, <1>3, <1>4, <1>5 DEF CreditView!Transferred

\* Every step of the ledger is one of the book of credits, or not seen.
LEMMA BookInEveryStep ==
  ASSUME LedgerOK, [Next]_vars PROVE [CreditView!Next]_Seen
  <1>1. ASSUME NEW s \in Registry, NEW reward \in Rewards, ApplyConfirmedBlock(s, reward)
        PROVE  CreditView!Credit(s, NetReward(reward))
    <2>1. s \in Owners /\ Book(s, NetReward(reward)) /\ model' = model
      BY <1>1 DEF ApplyConfirmedBlock, Owners
    <2>2. CASE model = "utxo"
      <3>1. Table!ApplyReward(s, reward) /\ UNCHANGED accountVars
        BY <1>1, <2>2, SameReward DEF ApplyConfirmedBlock
      <3>2. Table!Credits(s, Table!NetReward(reward))
        BY <3>1, Table!RewardIsCredit, OfTable, IntMaxAssumption
      <3>3. Table!Credits(s, NetReward(reward))
        BY <3>2, SameNet
      <3>4. Seen' = CreditView!TryCredit(Seen, s, NetReward(reward))
        BY <2>1, <2>2, <3>1, <3>3, TableCreditIsBooked
      <3> QED
        BY <3>4 DEF CreditView!Credit, Seen
    <2>3. CASE model = "account"
      <3>1. Account!ApplyReward(s, NetReward(reward)) /\ UNCHANGED utxoVars
        BY <1>1, <2>3 DEF ApplyConfirmedBlock
      <3>2. known' = Account!FindOrCreate(known, s)
        BY <3>1 DEF Account!ApplyReward, Account!Credit
      <3>3. Seen' = CreditView!TryCredit(Seen, s, NetReward(reward))
        BY <2>1, <2>3, <3>1, <3>2, AccountCreditIsBooked
      <3> QED
        BY <3>3 DEF CreditView!Credit, Seen
    <2> QED
      BY <2>2, <2>3 DEF LedgerOK, LedgerModels
  <1>2. ASSUME NEW m \in Miners, NEW a \in MinerAmounts, CreditMiner(m, a)
        PROVE  CreditView!Credit(m, a)
    <2>1. m \in Owners /\ Book(m, a) /\ model' = model
      BY <1>2 DEF CreditMiner, Owners
    <2>2. CASE model = "utxo"
      <3>1. Table!CreditMiner(m, a) /\ UNCHANGED accountVars
        BY <1>2, <2>2, SameMinerCredit DEF CreditMiner
      <3>2. Table!Credits(m, a)
        BY <3>1, Table!MinerCreditIsCredit, OfTable, IntMaxAssumption
      <3>3. Seen' = CreditView!TryCredit(Seen, m, a)
        BY <2>1, <2>2, <3>1, <3>2, TableCreditIsBooked
      <3> QED
        BY <3>3 DEF CreditView!Credit, Seen
    <2>3. CASE model = "account"
      <3>1. Account!CreditMiner(m, a) /\ UNCHANGED utxoVars
        BY <1>2, <2>3 DEF CreditMiner
      <3>2. known' = Account!FindOrCreate(known, m)
        BY <3>1 DEF Account!CreditMiner, Account!Credit
      <3>3. Seen' = CreditView!TryCredit(Seen, m, a)
        BY <2>1, <2>3, <3>1, <3>2, AccountCreditIsBooked
      <3> QED
        BY <3>3 DEF CreditView!Credit, Seen
    <2> QED
      BY <2>2, <2>3 DEF LedgerOK, LedgerModels
  <1>3. ASSUME NEW s \in Registry, NEW r \in Registry, NEW a \in TransferAmounts,
               Transfer(s, r, a)
        PROVE  CreditView!Transfer(s, r)
    <2>1. UNCHANGED <<model, credit>>
      BY <1>3 DEF Transfer
    <2>2. CASE model = "utxo"
      <3>1. Table!Transfer(s, r, a) /\ UNCHANGED accountVars
        BY <1>3, <2>2, SameTableTransfer DEF Transfer
      <3>2. Seen' \in CreditView!Transferred(Seen, s, r)
        BY <2>1, <2>2, <3>1, TableTransferIsSeen
      <3> QED
        BY <3>2 DEF CreditView!Transfer, Seen
    <2>3. CASE model = "account"
      <3>1. Account!AccountTransfer(s, r, a, nonce[s]) /\ UNCHANGED utxoVars
        BY <1>3, <2>3 DEF Transfer, Account!Transfer
      <3>2. Seen' \in CreditView!Transferred(Seen, s, r)
        BY <2>1, <2>3, <3>1, AccountTransferIsSeen
      <3> QED
        BY <3>2 DEF CreditView!Transfer, Seen
    <2> QED
      BY <2>2, <2>3 DEF LedgerOK, LedgerModels
  <1>4. ASSUME NEW s \in Ids, NEW r \in Ids, NEW a \in NonceAmounts,
               NEW n \in 0..MaxTransfers, TransferWithNonce(s, r, a, n)
        PROVE  CreditView!Transfer(s, r)
    <2>1. /\ Account!AccountTransfer(s, r, a, n) /\ model = "account"
          /\ UNCHANGED <<model, utxoVars, credit>>
      BY <1>4 DEF TransferWithNonce, Account!TransferWithNonce
    <2>2. Seen' \in CreditView!Transferred(Seen, s, r)
      BY <2>1, AccountTransferIsSeen
    <2> QED
      BY <2>2 DEF CreditView!Transfer, Seen
  <1>5. ASSUME NEW m \in LedgerModels, SetModel(m) PROVE CreditView!SetModel(m)
    <2>1. /\ model' = m /\ credit' = NoCredit /\ known' = Initially(m) /\ outputs' = <<>>
      BY <1>5 DEF SetModel, Account!Cleared, Utxo!Reset
    <2>2. Len(outputs') = 0
      BY <2>1
    <2>3. Seen' = CreditView!LedgerInit(m)
      BY <2>1, <2>2, SameOwners DEF Seen, CreditView!LedgerInit, NoCredit, Initially
    <2> QED
      BY <2>3 DEF CreditView!SetModel, Seen
  <1>6. CASE UNCHANGED vars
    BY <1>6 DEF vars, accountVars, utxoVars, Seen
  <1>7. Registry \subseteq Ids /\ Registry \subseteq Owners /\ Miners \subseteq Owners
    BY LedgerAssumption DEF Owners
  <1>8. CreditView!LedgerModels = LedgerModels
    BY DEF CreditView!LedgerModels, LedgerModels
  <1>9. CASE Next
    <2>1. CASE \E s \in Registry, reward \in Rewards : ApplyConfirmedBlock(s, reward)
      <3>1. PICK s \in Registry, reward \in Rewards : ApplyConfirmedBlock(s, reward)
        BY <2>1
      <3>2. CreditView!Credit(s, NetReward(reward))
        BY <1>1, <3>1
      <3> QED
        BY <1>7, <3>1, <3>2, SameOwners DEF CreditView!Next
    <2>2. CASE \E m \in Miners, a \in MinerAmounts : CreditMiner(m, a)
      BY <1>2, <1>7, <2>2, SameOwners DEF CreditView!Next
    <2>3. CASE \E s, r \in Registry, a \in TransferAmounts : Transfer(s, r, a)
      BY <1>3, <1>7, <2>3 DEF CreditView!Next
    <2>4. CASE \E s, r \in Ids, a \in NonceAmounts, n \in 0..MaxTransfers :
                 TransferWithNonce(s, r, a, n)
      BY <1>4, <2>4 DEF CreditView!Next
    <2>5. CASE \E m \in LedgerModels : SetModel(m)
      BY <1>5, <1>8, <2>5 DEF CreditView!Next
    <2> QED
      BY <1>9, <2>1, <2>2, <2>3, <2>4, <2>5 DEF Next
  <1> QED
    BY <1>6, <1>9

\* The two halves of ledger.c together are the book of credits that mining is
\* modelled with: a credit is refused if and only if the table in use is full,
\* transfers change no credit, and choosing a model starts a new book
\* (ledger_apply_confirmed_block, ledger_credit_miner, ledger_set_model).
THEOREM CreditBookIsImplemented == Spec => ImplementsCreditBook
  <1>1. Init => CreditView!Init
    <2> SUFFICES ASSUME Init PROVE CreditView!Init
      OBVIOUS
    <2>1. outputs = <<>> /\ model \in LedgerModels /\ credit = NoCredit
      BY DEF Init, Utxo!Init
    <2>2. Len(outputs) = 0 /\ known = Initially(model)
      BY <2>1 DEF Init
    <2>3. Seen = CreditView!LedgerInit(model)
      BY <2>1, <2>2, SameOwners DEF Seen, CreditView!LedgerInit, NoCredit, Initially
    <2>4. model \in CreditView!LedgerModels
      BY <2>1 DEF CreditView!LedgerModels, LedgerModels
    <2> QED
      BY <2>3, <2>4 DEF CreditView!Init, Seen
  <1>2. LedgerOK /\ [Next]_vars =>
          [CreditView!Next]_[model |-> model, credit |-> credit, outputs |-> Len(outputs),
                             accounts |-> known]
    BY BookInEveryStep DEF Seen
  <1> QED
    BY <1>1, <1>2, LedgerStays, PTL DEF Spec, ImplementsCreditBook, CreditView!Spec

-----------------------------------------------------------------------------
(* The bank. *)

Balances == [id \in Ids |-> Balance(id)]

\* The balances of owners, and nothing for any other id.
Spread(book) == [id \in Ids |-> IF id \in Owners THEN book[id] ELSE 0]

LEMMA OwnersAreIds == Owners \subseteq Ids
  BY LedgerAssumption DEF Owners

LEMMA BalancesOfAccounts ==
  /\ model = "account" /\ Books!TypeOK => Balances = balance
  /\ model' = "account" /\ Books!TypeOK' => Balances' = balance'
  <1>1. model = "account" /\ Books!TypeOK => Balances = balance
    BY DEF Balances, Balance, Books!TypeOK
  <1>2. model' = "account" /\ Books!TypeOK' => Balances' = balance'
    BY DEF Balances, Balance, Books!TypeOK
  <1> QED
    BY <1>1, <1>2

\* What a table of outputs holds for each id.
LEMMA BookOfTable ==
  ASSUME NEW t, \A i \in 1..Len(t) : t[i].owner \in Owners, NEW id \in Ids
  PROVE  Table!AsInt(Table!HeldBy(t, Len(t), {id})) = Spread(Table!Book(t))[id]
  <1>1. CASE id \in Owners
    BY <1>1, SameOwners DEF Spread, Table!Book
  <1>2. CASE id \notin Owners
    <2>1. \A i \in 1..Len(t) : t[i].owner \in Table!Owners
      BY SameOwners
    <2>2. Table!AsInt(Table!HeldBy(t, Len(t), {id})) = 0
      BY <1>2, <2>1, SameOwners, Table!StrangersHoldNothing, OfTable, IntMaxAssumption
    <2> QED
      BY <1>2, <2>2 DEF Spread
  <1> QED
    BY <1>1, <1>2

LEMMA BalancesOfTable ==
  /\ model = "utxo" /\ Table!TableOK => Balances = Spread(Table!Book(outputs))
  /\ model' = "utxo" /\ Table!TableOK' => Balances' = Spread(Table!Book(outputs'))
  <1>1. Table!TableOK => \A i \in 1..Len(outputs) : outputs[i].owner \in Owners
    BY Table!OwnersOfOutputs, SameOwners, OfTable, IntMaxAssumption
  <1>2. Table!TableOK' => \A i \in 1..Len(outputs') : outputs'[i].owner \in Owners
    BY DEF Table!TableOK, Table!IsEntry, Table!Owners, Owners
  <1>3. \A id : /\ Table!Balance(id) = Table!AsInt(Table!HeldBy(outputs, Len(outputs), {id}))
                /\ Table!Balance(id)' = Table!AsInt(Table!HeldBy(outputs', Len(outputs'), {id}))
    BY Table!BalanceIsHeld, OfTable, IntMaxAssumption
  <1>4. ASSUME model = "utxo", Table!TableOK PROVE Balances = Spread(Table!Book(outputs))
    <2>1. \A id \in Ids : Balance(id) = Spread(Table!Book(outputs))[id]
      BY <1>1, <1>3, <1>4, SameBalance, BookOfTable DEF Balance
    <2> QED
      BY <2>1 DEF Balances, Spread
  <1>5. ASSUME model' = "utxo", Table!TableOK' PROVE Balances' = Spread(Table!Book(outputs'))
    <2>1. \A id \in Ids : Balance(id)' = Table!Balance(id)'
      BY <1>5, SameBalance DEF Balance
    <2>2. \A id \in Ids : Balance(id)' = Spread(Table!Book(outputs'))[id]
      BY <1>2, <1>3, <1>5, <2>1, BookOfTable
    <2> QED
      BY <2>2 DEF Balances, Spread
  <1> QED
    BY <1>4, <1>5

\* The invariant behind the bank: every transfer that settles in the table is
\* posted as it is owed, be it because sums do not overflow or because
\* references are cut off.
LEMMA PostedInEveryStep ==
  ASSUME NEW most, LedgerOK, Table!TransfersArePosted(most), [Next]_vars
  PROVE  Table!TransfersArePosted(most)'
  <1>1. ASSUME Table!Next \/ UNCHANGED utxoVars PROVE Table!TransfersArePosted(most)'
    <2>1. CASE ~Table!WideRefs
      BY <2>1 DEF Table!TransfersArePosted, Table!WideRefs, Table!HASH_DIGITS
    <2>2. CASE Table!AmountsAreModest /\ Table!Modest(most) /\ Table!Solvent(most)
      <3>1. [Table!Next]_Table!vars
        BY <1>1 DEF Table!vars, utxoVars
      <3>2. Table!Solvent(most)'
        BY <2>2, <3>1, Table!SolventInEveryStep, OfTable, IntMaxAssumption DEF LedgerOK
      <3> QED
        BY <2>2, <3>2 DEF Table!TransfersArePosted
    <2> QED
      BY <2>1, <2>2 DEF Table!TransfersArePosted
  <1>2. CASE TableStep
    BY <1>1, <1>2 DEF TableStep
  <1>3. CASE BooksStep
    BY <1>1, <1>3 DEF BooksStep
  <1>4. CASE \E m \in LedgerModels : SetModel(m)
    <2>1. Table!Next
      BY <1>4, SameTableReset DEF SetModel, Table!Next
    <2> QED
      BY <1>1, <2>1
  <1>5. CASE UNCHANGED vars
    BY <1>1, <1>5 DEF vars
  <1> QED
    BY <1>2, <1>3, <1>4, <1>5, LedgerSteps

LEMMA EmptyLedger ==
  ASSUME LedgerOK', \E m \in LedgerModels : SetModel(m)
  PROVE  Balances' = [id \in Ids |-> 0]
  <1>1. PICK m \in LedgerModels : SetModel(m)
    OBVIOUS
  <1>2. CASE m = "account"
    <2>1. model' = "account" /\ balance' = [id \in Ids |-> 0]
      BY <1>1, <1>2 DEF SetModel, Account!Cleared
    <2> QED
      BY <2>1, BalancesOfAccounts DEF LedgerOK
  <1>3. CASE m = "utxo"
    <2>1. model' = "utxo" /\ outputs' = <<>>
      BY <1>1, <1>3 DEF SetModel, Utxo!Reset
    <2>2. Balances' = Spread(Table!Book(<<>>))
      BY <2>1, BalancesOfTable DEF LedgerOK
    <2>3. Table!Book(<<>>) = [o \in Owners |-> 0]
      BY Table!EmptyBook, SameOwners, OfTable, IntMaxAssumption
    <2> QED
      BY <2>2, <2>3 DEF Spread
  <1> QED
    BY <1>2, <1>3 DEF LedgerModels

\* A step of the table, seen by all ids.
LEMMA TableStepOfBank ==
  ASSUME NEW most, LedgerOK, LedgerOK', Table!TransfersArePosted(most), TableStep
  PROVE  [Bank!Next \/ (Len(outputs') = MAX_UTXOS /\ Bank!SomeLeak)]_Balances
  <1> DEFINE book == Table!Book(outputs)
             after == Table!Book(outputs')
  <1>1. Balances = Spread(book) /\ Balances' = Spread(after)
    BY BalancesOfTable DEF LedgerOK, TableStep
  <1>2. book = [o \in Owners |-> book[o]] /\ after = [o \in Owners |-> after[o]]
    BY SameOwners DEF Table!Book
  <1>3. [Table!Next]_Table!vars /\ Table!TableOK
    BY DEF TableStep, LedgerOK
  <1>4. \/ UNCHANGED outputs
        \/ outputs' = <<>>
        \/ \E o \in Table!Owners, a \in Table!MachineInts : Table!Credits(o, a)
        \/ \E s, r \in Registry, a \in TransferAmounts :
             a > 0 /\ s # r /\ a \in Table!MachineInts /\ Table!Settles(s, r, a)
    BY <1>3, Table!TableSteps, OfTable, IntMaxAssumption
  <1>5. CASE UNCHANGED outputs
    BY <1>1, <1>5
  <1>6. CASE outputs' = <<>>
    <2>1. after = [o \in Owners |-> 0]
      BY <1>6, Table!EmptyBook, SameOwners, OfTable, IntMaxAssumption
    <2>2. Balances' = [id \in Ids |-> 0]
      BY <1>1, <2>1 DEF Spread
    <2>3. Bank!Reset
      BY <2>2 DEF Bank!Reset, Balances
    <2> QED
      BY <2>3 DEF Bank!Next
  <1>7. CASE \E o \in Table!Owners, a \in Table!MachineInts : Table!Credits(o, a)
    <2>1. PICK o \in Table!Owners, a \in Table!MachineInts : Table!Credits(o, a)
      BY <1>7
    <2>2. /\ o \in Owners /\ a \in Table!CreditAmounts
          /\ after = book \/ after = [book EXCEPT ![o] = Table!AsInt(@ + a)]
      BY <1>3, <2>1, Table!CreditIsMinted, SameOwners, OfTable, IntMaxAssumption
    <2>3. o \in Ids /\ a \in {NetReward(r) : r \in Rewards} \cup MinerAmounts
      BY <2>2, OwnersAreIds, SameNet DEF Table!CreditAmounts
    <2>4. CASE after = book
      BY <1>1, <2>4
    <2>5. CASE after = [book EXCEPT ![o] = Table!AsInt(@ + a)]
      <3> HIDE DEF book, after
      <3>1. Balances' = [Balances EXCEPT ![o] = AsInt(@ + a)]
        BY <1>1, <1>2, <2>2, <2>3, <2>5, SameAsInt DEF Spread
      <3>2. Bank!Mint(o, a)
        BY <3>1, SameAsInt DEF Bank!Mint, Balances
      <3> QED
        BY <2>3, <3>2 DEF Bank!Next
    <2> QED
      BY <2>2, <2>4, <2>5
  <1>8. CASE \E s, r \in Registry, a \in TransferAmounts :
               a > 0 /\ s # r /\ a \in Table!MachineInts /\ Table!Settles(s, r, a)
    <2>1. PICK s \in Registry, r \in Registry, a \in TransferAmounts :
            a > 0 /\ s # r /\ a \in Table!MachineInts /\ Table!Settles(s, r, a)
      BY <1>8
    <2>2. Table!PostedAsOwed(s, r, a)
      BY <1>3, <2>1, Table!EveryTransferIsPosted, OfTable, IntMaxAssumption
    <2>3. /\ s \in Owners /\ r \in Owners /\ s \in Ids /\ r \in Ids
      BY OwnersAreIds DEF Owners
    <2> DEFINE need == AsInt(a + TX_FEE)
    <2>4. Table!AsInt(a + Table!TX_FEE) = need
      BY SameAsInt DEF Table!TX_FEE, TX_FEE
    <2>5. /\ book[s] >= need
          /\ \E d \in need..INT_MAX, q \in {0, a} :
               /\ after = Table!Posting(book, s, d, r, q)
               /\ (d = need /\ q = a) \/ Len(outputs') = MAX_UTXOS
      BY <2>2, <2>4 DEF Table!PostedAsOwed
    <2> HIDE DEF book, after, need
    <2>6. PICK d \in need..INT_MAX, q \in {0, a} :
            /\ after = Table!Posting(book, s, d, r, q)
            /\ (d = need /\ q = a) \/ Len(outputs') = MAX_UTXOS
      BY <2>5
    <2>7. after = [[book EXCEPT ![s] = AsInt(@ - d)] EXCEPT ![r] = AsInt(@ + q)]
      BY <2>6, SameAsInt DEF Table!Posting
    <2>8. Balances' = [[Balances EXCEPT ![s] = AsInt(@ - d)] EXCEPT ![r] = AsInt(@ + q)]
      BY <1>1, <1>2, <2>3, <2>7 DEF Spread
    <2>9. Balances[s] >= need
      BY <1>1, <2>3, <2>5 DEF Spread
    <2>10. Bank!Debit(a) = need
      BY SameAsInt DEF Bank!Debit, need
    <2>11. Bank!Posted(s, d, r, q) = Balances'
      <3>1. \A x : Bank!AsInt(x) = AsInt(x)
        BY SameAsInt
      <3>2. Bank!Posted(s, d, r, q)
              = [[Balances EXCEPT ![s] = AsInt(@ - d)] EXCEPT ![r] = AsInt(@ + q)]
        BY <3>1 DEF Bank!Posted, Balances
      <3> QED
        BY <2>8, <3>2
    <2>12. CASE d = need /\ q = a
      <3>1. Bank!Move(s, r, a)
        BY <2>9, <2>10, <2>11, <2>12 DEF Bank!Move, Balances
      <3> QED
        BY <2>1, <2>3, <3>1 DEF Bank!Next
    <2>13. CASE Len(outputs') = MAX_UTXOS
      <3>1. Bank!Leak(s, r, a)
        BY <2>6, <2>9, <2>10, <2>11 DEF Bank!Leak, Balances
      <3> QED
        BY <2>1, <2>3, <2>13, <3>1 DEF Bank!SomeLeak
    <2> QED
      BY <2>6, <2>12, <2>13
  <1> QED
    BY <1>4, <1>5, <1>6, <1>7, <1>8

LEMMA BooksStepOfBank ==
  ASSUME LedgerOK, LedgerOK', BooksStep
  PROVE  [Bank!Next]_Balances
  <1>1. Balances = balance /\ Balances' = balance'
    BY BalancesOfAccounts DEF LedgerOK, BooksStep
  <1>2. [Books!Bank!Next]_balance
    <2>1. Books!TypeOK /\ [Books!Next]_Books!vars
      BY DEF LedgerOK, BooksStep
    <2> QED
      BY <2>1, Books!BankInEveryStep, OfBooks, IntMaxAssumption
  <1>3. \A x : Books!Bank!AsInt(x) = AsInt(x) /\ Bank!AsInt(x) = AsInt(x)
    BY DEF Books!Bank!AsInt, Books!Bank!INT_MIN, Bank!AsInt, Bank!INT_MIN, AsInt, INT_MIN
  <1>4. Books!TX_FEE = TX_FEE
    BY DEF Books!TX_FEE, TX_FEE
  <1>5. CASE UNCHANGED balance
    BY <1>1, <1>5
  <1>6. ASSUME NEW o \in Ids, NEW a \in {NetReward(r) : r \in Rewards} \cup MinerAmounts,
               Books!Bank!Mint(o, a)
        PROVE  Bank!Next
    <2>1. Bank!Mint(o, a)
      BY <1>1, <1>3, <1>6 DEF Books!Bank!Mint, Bank!Mint, Balances
    <2> QED
      BY <2>1 DEF Bank!Next
  <1>7. ASSUME NEW s \in Ids, NEW r \in Ids, NEW a \in TransferAmounts \cup NonceAmounts,
               Books!Bank!Move(s, r, a)
        PROVE  Bank!Next
    <2>1. Bank!Move(s, r, a)
      BY <1>1, <1>3, <1>4, <1>7
        DEF Books!Bank!Move, Bank!Move, Books!Bank!Debit, Bank!Debit, Books!Bank!Posted,
          Bank!Posted, Balances
    <2> QED
      BY <2>1 DEF Bank!Next
  <1>8. CASE Books!Bank!Reset
    <2>1. Bank!Reset
      BY <1>1, <1>8 DEF Books!Bank!Reset, Bank!Reset, Balances
    <2> QED
      BY <2>1 DEF Bank!Next
  <1>9. CASE Books!Bank!Refuse
    BY <1>1, <1>9 DEF Books!Bank!Refuse
  <1> QED
    BY <1>2, <1>5, <1>6, <1>7, <1>8, <1>9 DEF Books!Bank!Next

LEMMA BankInEveryStep ==
  ASSUME NEW most, LedgerOK, Table!TransfersArePosted(most), [Next]_vars
  PROVE  [Bank!Next \/ (Len(outputs') = MAX_UTXOS /\ Bank!SomeLeak)]_Balances
  <1>1. LedgerOK'
    BY LedgerInEveryStep
  <1>2. CASE TableStep
    BY <1>1, <1>2, TableStepOfBank
  <1>3. CASE BooksStep
    BY <1>1, <1>3, BooksStepOfBank
  <1>4. CASE \E m \in LedgerModels : SetModel(m)
    <2>1. Balances' = [id \in Ids |-> 0]
      BY <1>1, <1>4, EmptyLedger
    <2>2. Bank!Reset
      BY <2>1 DEF Bank!Reset, Balances
    <2> QED
      BY <2>2 DEF Bank!Next
  <1>5. CASE UNCHANGED vars
    <2>1. UNCHANGED <<model, balance, outputs>>
      BY <1>5 DEF vars, accountVars, utxoVars
    <2>2. \A id : Utxo!Balance(id)' = Utxo!Balance(id)
      <3> SUFFICES ASSUME NEW id PROVE Utxo!Balance(id)' = Utxo!Balance(id)
        OBVIOUS
      <3>1. /\ Table!Balance(id) = Table!AsInt(Table!HeldBy(outputs, Len(outputs), {id}))
            /\ Table!Balance(id)' = Table!AsInt(Table!HeldBy(outputs', Len(outputs'), {id}))
        BY Table!BalanceIsHeld, OfTable, IntMaxAssumption
      <3> QED
        BY <2>1, <3>1, SameBalance
    <2>3. \A id : Balance(id)' = Balance(id)
      BY <2>1, <2>2 DEF Balance
    <2> QED
      BY <2>3 DEF Balances
  <1> QED
    BY <1>2, <1>3, <1>4, <1>5, LedgerSteps

PostedOK(most) == LedgerOK /\ Table!TransfersArePosted(most)

LEMMA PostedBank ==
  ASSUME NEW most, ~Table!WideRefs \/ (Table!AmountsAreModest /\ Table!Modest(most))
  PROVE  Spec => ImplementsBank
  <1>1. Init => PostedOK(most)
    <2> SUFFICES ASSUME Init PROVE Table!TransfersArePosted(most)
      BY LedgerInit DEF PostedOK
    <2>1. CASE ~Table!WideRefs
      BY <2>1 DEF Table!TransfersArePosted
    <2>2. CASE Table!AmountsAreModest /\ Table!Modest(most)
      <3>1. outputs = <<>> /\ most \in Nat
        BY <2>2 DEF Init, Utxo!Init, Table!Modest
      <3>2. Table!Solvent(most)
        BY <3>1, Table!EmptyIsSolvent, OfTable, IntMaxAssumption DEF Table!Solvent
      <3> QED
        BY <2>2, <3>2 DEF Table!TransfersArePosted
    <2> QED
      BY <2>1, <2>2
  <1>2. PostedOK(most) /\ [Next]_vars => PostedOK(most)'
    BY LedgerInEveryStep, PostedInEveryStep DEF PostedOK
  <1>3. Init => Bank!Empty
    <2> SUFFICES ASSUME Init PROVE Bank!Empty
      OBVIOUS
    <2>1. Balances = [id \in Ids |-> 0]
      <3>1. LedgerOK /\ outputs = <<>> /\ balance = [id \in Ids |-> 0]
        BY LedgerInit DEF Init, Utxo!Init
      <3>2. CASE model = "account"
        BY <3>1, <3>2, BalancesOfAccounts DEF LedgerOK
      <3>3. CASE model = "utxo"
        <4>1. Balances = Spread(Table!Book(<<>>))
          BY <3>1, <3>3, BalancesOfTable DEF LedgerOK
        <4>2. Table!Book(<<>>) = [o \in Owners |-> 0]
          BY Table!EmptyBook, SameOwners, OfTable, IntMaxAssumption
        <4> QED
          BY <4>1, <4>2 DEF Spread
      <3> QED
        BY <3>1, <3>2, <3>3 DEF LedgerOK, LedgerModels
    <2> QED
      BY <2>1 DEF Bank!Empty, Balances
  <1>4. PostedOK(most) /\ [Next]_vars
          => [Bank!Next \/ (Len(outputs') = MAX_UTXOS /\ Bank!SomeLeak)]_
               [id \in Ids |-> Balance(id)]
    BY BankInEveryStep DEF PostedOK, Balances
  <1>5. Spec => []PostedOK(most)
    BY <1>1, <1>2, PTL DEF Spec
  <1>6. Spec => [][Bank!Next \/ (Len(outputs') = MAX_UTXOS /\ Bank!SomeLeak)]_
                   [id \in Ids |-> Balance(id)]
    BY <1>4, <1>5, PTL DEF Spec
  <1> QED
    BY <1>3, <1>6, PTL DEF Spec, ImplementsBank

\* References as the code stores them: the buffer holds the digest and no more.
RefsAreCutOff == REF_SIZE <= 65

\* Whatever model is in use and however often it is changed, the balances that
\* users see are those of a token bank, at any amounts and any table sizes, with
\* references as they are built (ledger_balance, ledger_transfer,
\* ledger_transfer_with_nonce, ledger_set_model).
THEOREM LedgerIsABank == ASSUME RefsAreCutOff PROVE Spec => ImplementsBank
  <1>1. ~Table!WideRefs
    BY LedgerAssumption DEF RefsAreCutOff, Table!WideRefs, Table!HASH_DIGITS
  <1> QED
    BY <1>1, PostedBank

\* The same of references that are kept whole, where sums do not overflow.
THEOREM WideLedgerIsABank == ASSUME Table!AmountsAreModest PROVE Spec => ImplementsBank
  <1>1. PICK most : Table!Modest(most)
    BY DEF Table!AmountsAreModest
  <1> QED
    BY <1>1, PostedBank
=============================================================================
