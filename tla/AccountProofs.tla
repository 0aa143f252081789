---------------------------- MODULE AccountProofs ----------------------------
(***************************************************************************)
(* The account model: its types, its double entry, the order and           *)
(* uniqueness of its nonces, that it is a token bank, that no coin is lost *)
(* or made, and that histories explain balances and debts.                 *)
(***************************************************************************)
EXTENDS AccountLedger, NumberLemmas, SequenceTheorems

LEMMA SumType ==
  ASSUME NEW x \in MachineInts, NEW y \in MachineInts
  PROVE  AsInt(x + y) \in MachineInts /\ AsInt(x - y) \in MachineInts
  <1>1. x + y \in Int /\ x - y \in Int
    BY IntMaxAssumption DEF MachineInts, INT_MIN
  <1> QED
    BY <1>1, AsIntType

(* An amount and the fee. *)
LEMMA DebitType == ASSUME NEW x \in MachineInts PROVE AsInt(x + TX_FEE) \in MachineInts
  <1>1. x + TX_FEE \in Int
    BY IntMaxAssumption DEF MachineInts, INT_MIN, TX_FEE
  <1> QED
    BY <1>1, AsIntType

LEMMA IntsAreInts == MachineInts \subseteq Int /\ 0 \in MachineInts
  BY IntMaxAssumption DEF MachineInts, INT_MIN

(* An account more, if there is room. *)
LEMMA FindOrCreateType ==
  ASSUME NEW accounts, accounts \subseteq Ids, Cardinality(accounts) <= MAX_STUDENTS,
         NEW id \in Ids
  PROVE  LET found == FindOrCreate(accounts, id)
         IN  accounts \subseteq found /\ found \subseteq Ids
             /\ Cardinality(found) <= MAX_STUDENTS
  <1>1. IsFiniteSet(accounts)
    BY FS_Subset, AccountAssumption
  <1>2. Cardinality(accounts) \in Nat
    BY <1>1, FS_CardinalityType
  <1>3. Cardinality(accounts \cup {id}) =
          IF id \in accounts THEN Cardinality(accounts) ELSE Cardinality(accounts) + 1
    BY <1>1, FS_AddElement
  <1>4. Cardinality(accounts \cup {id}) \in Nat
    BY <1>1, FS_AddElement, FS_CardinalityType
  <1> QED
    BY <1>2, <1>3, <1>4, AccountAssumption DEF FindOrCreate

(* A new entry at the head of a history. *)
LEMMA Prepended ==
  ASSUME NEW S, NEW h \in Seq(S), NEW e \in S
  PROVE  LET t == <<e>> \o h
         IN  /\ t \in Seq(S) /\ Len(t) = Len(h) + 1 /\ t[1] = e
             /\ \A i \in 2..Len(t) : t[i] = h[i - 1]
             /\ \A i \in 1..Len(h) : t[i + 1] = h[i]
             /\ Range(t) = {e} \cup Range(h)
  <1> DEFINE t == <<e>> \o h
  <1>1. /\ t \in Seq(S) /\ Len(t) = Len(h) + 1 /\ t[1] = e
        /\ \A i \in 2..Len(t) : t[i] = h[i - 1]
        /\ \A i \in 1..Len(h) : t[i + 1] = h[i]
    OBVIOUS
  <1> HIDE DEF t
  <1>2. DOMAIN t = 1..(Len(h) + 1) /\ DOMAIN h = 1..Len(h) /\ Len(h) \in Nat
    BY <1>1
  <1>3. Range(t) = {e} \cup Range(h)
    <2>1. \A i \in DOMAIN t : t[i] \in {e} \cup Range(h)
      <3> TAKE i \in DOMAIN t
      <3>1. CASE i = 1
        BY <1>1, <3>1
      <3>2. CASE i # 1
        <4>1. i \in 2..Len(t) /\ i - 1 \in DOMAIN h
          BY <1>1, <1>2, <3>2
        <4> QED
          BY <1>1, <4>1 DEF Range
      <3> QED
        BY <3>1, <3>2
    <2>2. e \in Range(t)
      BY <1>1, <1>2 DEF Range
    <2>3. \A i \in DOMAIN h : h[i] \in Range(t)
      <3> TAKE i \in DOMAIN h
      <3>1. i + 1 \in DOMAIN t /\ t[i + 1] = h[i]
        BY <1>1, <1>2
      <3> QED
        BY <3>1 DEF Range
    <2> QED
      BY <2>1, <2>2, <2>3 DEF Range
  <1> QED
    BY <1>1, <1>3 DEF t
-----------------------------------------------------------------------------
(* Types. *)

\* What a step may be: a credit, a transfer that settles, or neither.
Settles(sender, recipient, amount, n) ==
  /\ {sender, recipient} \subseteq known' /\ n = nonce[sender]
  /\ balance' = Moved(sender, recipient, amount)
  /\ history' = Recorded(Entry(sender, recipient, amount, TX_FEE, n))
  /\ nonce' = NonceUsed(sender) /\ UNCHANGED credits

Books(id, amount, from, fee) ==
  /\ id \in known'
  /\ balance' = [balance EXCEPT ![id] = AsInt(@ + amount)]
  /\ history' = [history EXCEPT ![id] = <<Entry(from, id, amount, fee, nonce[id])>> \o @]
  /\ credits' = Append(credits, amount) /\ UNCHANGED nonce

Grows ==
  /\ known \subseteq known' /\ known' \subseteq Ids /\ Cardinality(known') <= MAX_STUDENTS

LEMMA Steps ==
  ASSUME TypeOK, [Next]_vars
  PROVE  \/ Reset
         \/ Grows /\ UNCHANGED <<balance, nonce, history, credits>>
         \/ /\ Grows
            /\ \E id \in Ids, amount \in RewardAmounts \cup MinerAmounts,
                  from \in {SYSTEM, MINER}, fee \in {0, TX_FEE} :
                 Books(id, amount, from, fee)
         \/ /\ Grows
            /\ \E s, r \in Ids, amount \in TransferAmounts \cup NonceAmounts, n \in Nat :
                 Settles(s, r, amount, n) /\ Covers(s, amount)
  <1>1. ASSUME NEW id \in Ids, NEW amount, NEW from, NEW fee,
               Credit(id, amount, from, fee)
        PROVE  /\ Grows
               /\ \/ Books(id, amount, from, fee)
                  \/ UNCHANGED <<balance, nonce, history, credits>>
    <2>1. Grows
      BY <1>1, FindOrCreateType DEF TypeOK, Grows, Credit
    <2> QED
      BY <1>1, <2>1 DEF Credit, Books
  <1>2. ASSUME NEW s \in Ids, NEW r \in Ids, NEW amount, NEW n,
               AccountTransfer(s, r, amount, n)
        PROVE  /\ Grows
               /\ \/ Settles(s, r, amount, n) /\ Covers(s, amount)
                  \/ UNCHANGED <<balance, nonce, history, credits>>
    <2>1. Grows
      <3> DEFINE first == FindOrCreate(known, s)
      <3>1. known \subseteq first /\ first \subseteq Ids /\ Cardinality(first) <= MAX_STUDENTS
        BY FindOrCreateType DEF TypeOK
      <3> HIDE DEF first
      <3>2. LET both == FindOrCreate(first, r)
            IN  first \subseteq both /\ both \subseteq Ids /\ Cardinality(both) <= MAX_STUDENTS
        BY <3>1, FindOrCreateType
      <3>3. known' = FindOrCreate(first, r)
        BY <1>2 DEF AccountTransfer, first
      <3> QED
        BY <3>1, <3>2, <3>3 DEF Grows
    <2> QED
      BY <1>2, <2>1 DEF AccountTransfer, Settles
  <1>3. CASE \E s \in Registry, a \in RewardAmounts : ApplyReward(s, a)
    BY <1>1, <1>3, AccountAssumption DEF ApplyReward
  <1>4. CASE \E m \in Miners, a \in MinerAmounts : CreditMiner(m, a)
    BY <1>1, <1>4, AccountAssumption DEF CreditMiner
  <1>5. CASE \E s, r \in Registry, a \in TransferAmounts : Transfer(s, r, a)
    <2>1. PICK s \in Ids, r \in Ids, a \in TransferAmounts :
            AccountTransfer(s, r, a, nonce[s])
      BY <1>5, AccountAssumption DEF Transfer
    <2>2. nonce[s] \in Nat
      BY DEF TypeOK
    <2> QED
      BY <1>2, <2>1, <2>2
  <1>6. CASE \E s, r \in Ids, a \in NonceAmounts, n \in 0..MaxTransfers :
               TransferWithNonce(s, r, a, n)
    <2>1. PICK s \in Ids, r \in Ids, a \in NonceAmounts, n \in 0..MaxTransfers :
            AccountTransfer(s, r, a, n)
      BY <1>6 DEF TransferWithNonce
    <2>2. n \in Nat
      BY AccountAssumption
    <2> QED
      BY <1>2, <2>1, <2>2
  <1>7. CASE UNCHANGED vars
    BY <1>7 DEF vars, TypeOK, Grows
  <1> QED
    BY <1>3, <1>4, <1>5, <1>6, <1>7 DEF Next

LEMMA EntryType ==
  ASSUME NEW sender \in Ids \cup {SYSTEM, MINER}, NEW id \in Ids,
         NEW amount \in MachineInts, NEW fee \in {0, TX_FEE}, NEW n \in Nat
  PROVE  Entry(sender, id, amount, fee, n) \in Entries
  BY DEF Entry, Entries

LEMMA AmountsAreInts ==
  RewardAmounts \cup MinerAmounts \cup TransferAmounts \cup NonceAmounts \subseteq MachineInts
  BY AccountAssumption

LEMMA TypeAtStart == Init => TypeOK
  <1> SUFFICES ASSUME Init PROVE TypeOK
    OBVIOUS
  <1>1. /\ balance \in [Ids -> MachineInts] /\ nonce \in [Ids -> Nat]
        /\ history \in [Ids -> Seq(Entries)] /\ credits \in Seq(MachineInts)
    BY IntsAreInts DEF Init
  <1> QED
    BY <1>1, AccountAssumption DEF Init, TypeOK

LEMMA TypeAfterReset == Reset => TypeOK'
  <1> SUFFICES ASSUME Reset PROVE TypeOK'
    OBVIOUS
  <1>1. /\ balance' \in [Ids -> MachineInts] /\ nonce' \in [Ids -> Nat]
        /\ history' \in [Ids -> Seq(Entries)] /\ credits' \in Seq(MachineInts)
    BY IntsAreInts DEF Reset, Cleared
  <1> QED
    BY <1>1, AccountAssumption DEF Reset, Cleared, TypeOK

LEMMA TypeAfterCredit ==
  ASSUME TypeOK, Grows, NEW id \in Ids, NEW amount \in MachineInts,
         NEW from \in {SYSTEM, MINER}, NEW fee \in {0, TX_FEE},
         Books(id, amount, from, fee)
  PROVE  TypeOK'
  <1> DEFINE e == Entry(from, id, amount, fee, nonce[id])
  <1>1. e \in Entries
    BY EntryType DEF TypeOK
  <1> HIDE DEF e
  <1>2. <<e>> \o history[id] \in Seq(Entries)
    BY <1>1, Prepended DEF TypeOK
  <1>3. history' \in [Ids -> Seq(Entries)]
    BY <1>2 DEF TypeOK, Books, e
  <1>4. balance' \in [Ids -> MachineInts]
    <2>1. AsInt(balance[id] + amount) \in MachineInts
      BY SumType DEF TypeOK
    <2> QED
      BY <2>1 DEF TypeOK, Books
  <1>5. credits' \in Seq(MachineInts)
    BY DEF TypeOK, Books
  <1>6. \A i \in Ids \ known' : balance'[i] = 0 /\ nonce'[i] = 0 /\ history'[i] = <<>>
    BY DEF TypeOK, Grows, Books
  <1> QED
    BY <1>3, <1>4, <1>5, <1>6 DEF TypeOK, Grows, Books

LEMMA TypeAfterTransfer ==
  ASSUME TypeOK, Grows, NEW sender \in Ids, NEW recipient \in Ids,
         NEW amount \in MachineInts, NEW n \in Nat,
         Settles(sender, recipient, amount, n)
  PROVE  TypeOK'
  <1> DEFINE e == Entry(sender, recipient, amount, TX_FEE, n)
             first == [history EXCEPT ![sender] = <<e>> \o @]
  <1>1. e \in Entries
    BY EntryType
  <1> HIDE DEF e
  <1>2. first \in [Ids -> Seq(Entries)]
    BY <1>1, Prepended DEF TypeOK
  <1>3. history' \in [Ids -> Seq(Entries)]
    <2>1. e.sender = sender /\ e.recipient = recipient
      BY DEF e, Entry
    <2>2. history' = [first EXCEPT ![recipient] = <<e>> \o @]
      BY <2>1 DEF Settles, Recorded, e
    <2> HIDE DEF first
    <2> QED
      BY <1>1, <1>2, <2>2, Prepended
  <1>4. balance' \in [Ids -> MachineInts]
    <2> DEFINE debit == AsInt(amount + TX_FEE)
               paid == [balance EXCEPT ![sender] = AsInt(@ - debit)]
    <2>1. debit \in MachineInts
      BY DebitType
    <2> HIDE DEF debit
    <2>2. paid \in [Ids -> MachineInts]
      BY <2>1, SumType DEF TypeOK
    <2>3. balance' = [paid EXCEPT ![recipient] = AsInt(@ + amount)]
      BY DEF Settles, Moved, debit
    <2> HIDE DEF paid
    <2> QED
      BY <2>2, <2>3, SumType
  <1>5. nonce' \in [Ids -> Nat]
    BY DEF TypeOK, Settles, NonceUsed
  <1>6. \A i \in Ids \ known' : balance'[i] = 0 /\ nonce'[i] = 0 /\ history'[i] = <<>>
    <2> SUFFICES ASSUME NEW i \in Ids, i \notin known'
                 PROVE  balance'[i] = 0 /\ nonce'[i] = 0 /\ history'[i] = <<>>
      OBVIOUS
    <2>1. i # sender /\ i # recipient /\ i \notin known
      BY DEF Settles, Grows
    <2>2. balance'[i] = balance[i] /\ nonce'[i] = nonce[i]
      BY <2>1 DEF TypeOK, Settles, Moved, NonceUsed
    <2>3. history'[i] = history[i]
      BY <2>1 DEF TypeOK, Settles, Recorded, Entry
    <2> QED
      BY <2>1, <2>2, <2>3 DEF TypeOK
  <1> QED
    BY <1>3, <1>4, <1>5, <1>6 DEF TypeOK, Grows, Settles

LEMMA TypeInEveryStep == TypeOK /\ [Next]_vars => TypeOK'
  <1> SUFFICES ASSUME TypeOK, [Next]_vars PROVE TypeOK'
    OBVIOUS
  <1>1. CASE Reset
    BY <1>1, TypeAfterReset
  <1>2. CASE Grows /\ UNCHANGED <<balance, nonce, history, credits>>
    BY <1>2 DEF TypeOK, Grows
  <1>3. CASE Grows /\ \E id \in Ids, amount \in RewardAmounts \cup MinerAmounts,
                         from \in {SYSTEM, MINER}, fee \in {0, TX_FEE} :
                        Books(id, amount, from, fee)
    BY <1>3, TypeAfterCredit, AmountsAreInts
  <1>4. CASE Grows /\ \E s, r \in Ids, amount \in TransferAmounts \cup NonceAmounts,
                         n \in Nat :
                        Settles(s, r, amount, n) /\ Covers(s, amount)
    BY <1>4, TypeAfterTransfer, AmountsAreInts
  <1> QED
    BY <1>1, <1>2, <1>3, <1>4, Steps

\* The tables of the account model keep their types and capacities, whatever is
\* credited and typed: there are never more than MAX_STUDENTS accounts, and an
\* account is there before it is used (find_or_create_account).
THEOREM AccountsAreWellFormed == Spec => []TypeOK
  BY TypeAtStart, TypeInEveryStep, PTL DEF Spec
-----------------------------------------------------------------------------
(* Double entry. *)

LEMMA BooksAtStart == (\A id \in Ids : history[id] = <<>>) => DoubleEntry
  BY DEF DoubleEntry, Range

LEMMA RecipientsAreIds ==
  ASSUME TypeOK, NEW id \in Ids, NEW x \in Range(history[id])
  PROVE  x.recipient \in Ids
  <1>1. PICK i \in DOMAIN history[id] : x = history[id][i]
    BY DEF Range
  <1>2. history[id] \in Seq(Entries)
    BY DEF TypeOK
  <1>3. x \in Entries
    BY <1>1, <1>2
  <1> QED
    BY <1>3 DEF Entries

LEMMA BooksAfterCredit ==
  ASSUME TypeOK, DoubleEntry, NEW id \in Ids, NEW amount \in MachineInts,
         NEW from \in {SYSTEM, MINER}, NEW fee \in {0, TX_FEE},
         Books(id, amount, from, fee)
  PROVE  DoubleEntry'
  <1> DEFINE e == Entry(from, id, amount, fee, nonce[id])
  <1>1. e \in Entries /\ ~IsTransfer(e)
    BY EntryType, AccountAssumption DEF TypeOK, IsTransfer, Entry
  <1> HIDE DEF e
  <1>2. history' = [history EXCEPT ![id] = <<e>> \o @]
    BY DEF Books, e
  <1>3. Range(history'[id]) = {e} \cup Range(history[id])
    BY <1>1, <1>2, Prepended DEF TypeOK
  <1>4. \A i \in Ids \ {id} : history'[i] = history[i]
    BY <1>2 DEF TypeOK
  <1>5. \A i \in Ids : Range(history[i]) \subseteq Range(history'[i])
    BY <1>3, <1>4
  <1>6. \A i \in Ids : \A x \in Range(history'[i]) : x \in Range(history[i]) \/ ~IsTransfer(x)
    BY <1>1, <1>3, <1>4
  <1>7. \A i \in Ids : \A x \in Range(history[i]) : x.recipient \in Ids
    BY RecipientsAreIds
  <1> QED
    BY <1>5, <1>6, <1>7 DEF DoubleEntry, IsTransfer

LEMMA BooksAfterTransfer ==
  ASSUME TypeOK, DoubleEntry, NEW sender \in Ids, NEW recipient \in Ids,
         NEW amount \in MachineInts, NEW n \in Nat,
         Settles(sender, recipient, amount, n)
  PROVE  DoubleEntry'
  <1> DEFINE e == Entry(sender, recipient, amount, TX_FEE, n)
             first == [history EXCEPT ![sender] = <<e>> \o @]
  <1>1. e \in Entries /\ e.sender = sender /\ e.recipient = recipient
    BY EntryType DEF Entry
  <1>2. history' = [first EXCEPT ![recipient] = <<e>> \o @]
    BY <1>1 DEF Settles, Recorded
  <1> HIDE DEF e
  <1>3. /\ first \in [Ids -> Seq(Entries)]
        /\ Range(first[sender]) = {e} \cup Range(history[sender])
        /\ \A i \in Ids \ {sender} : first[i] = history[i]
    BY <1>1, Prepended DEF TypeOK
  <1> HIDE DEF first
  <1>4. /\ Range(history'[recipient]) = {e} \cup Range(first[recipient])
        /\ \A i \in Ids \ {recipient} : history'[i] = first[i]
    BY <1>1, <1>2, <1>3, Prepended
  <1>5. e \in Range(history'[sender]) /\ e \in Range(history'[recipient])
    BY <1>3, <1>4
  <1>6. \A i \in Ids : Range(history[i]) \subseteq Range(history'[i])
    BY <1>3, <1>4
  <1>7. \A i \in Ids : \A x \in Range(history'[i]) : x \in Range(history[i]) \/ x = e
    BY <1>3, <1>4
  <1>8. \A i \in Ids : \A x \in Range(history[i]) : x.recipient \in Ids
    BY RecipientsAreIds
  <1> QED
    BY <1>1, <1>5, <1>6, <1>7, <1>8 DEF DoubleEntry, IsTransfer

LEMMA BooksInEveryStep == TypeOK /\ DoubleEntry /\ [Next]_vars => DoubleEntry'
  <1> SUFFICES ASSUME TypeOK, DoubleEntry, [Next]_vars PROVE DoubleEntry'
    OBVIOUS
  <1>1. CASE Reset
    BY <1>1 DEF Reset, Cleared, DoubleEntry, Range
  <1>2. CASE UNCHANGED history
    BY <1>2 DEF DoubleEntry
  <1>3. CASE \E id \in Ids, amount \in RewardAmounts \cup MinerAmounts,
                from \in {SYSTEM, MINER}, fee \in {0, TX_FEE} :
               Books(id, amount, from, fee)
    BY <1>3, BooksAfterCredit, AmountsAreInts
  <1>4. CASE \E s, r \in Ids, amount \in TransferAmounts \cup NonceAmounts, n \in Nat :
               Settles(s, r, amount, n)
    BY <1>4, BooksAfterTransfer, AmountsAreInts
  <1> QED
    BY <1>1, <1>2, <1>3, <1>4, Steps

\* Every transfer is in the books of both its parties, whoever they are and in
\* whatever order credits, transfers and refusals come (account_transfer).
THEOREM BooksAgree == Spec => []DoubleEntry
  <1>1. Init => DoubleEntry
    BY BooksAtStart DEF Init
  <1> QED
    BY <1>1, AccountsAreWellFormed, BooksInEveryStep, PTL DEF Spec
-----------------------------------------------------------------------------
(* Nonces. *)

\* NoncesUsedOnce, for the history h of one account and its nonce n.
SentIn(h, id) == {i \in 1..Len(h) : h[i].sender = id}

Orderly(h, id, n) ==
  /\ \A i \in SentIn(h, id) : h[i].nonce \in 0..(n - 1)
  /\ \A m \in 0..(n - 1) : \E i \in SentIn(h, id) : h[i].nonce = m
  /\ \A i, j \in SentIn(h, id) :
       i < j => \/ h[i].nonce > h[j].nonce
                \/ j = i + 1 /\ h[i] = h[j]

NoncesInOrder == \A id \in Ids : Orderly(history[id], id, nonce[id])

LEMMA OrderlyMeans == NoncesUsedOnce <=> NoncesInOrder
  <1> SUFFICES ASSUME NEW id \in Ids
               PROVE  LET h == history[id]  n == nonce[id]
                      IN  {h[i].nonce : i \in Sent(id)} = 0..(n - 1) <=>
                            /\ \A i \in SentIn(h, id) : h[i].nonce \in 0..(n - 1)
                            /\ \A m \in 0..(n - 1) : \E i \in SentIn(h, id) : h[i].nonce = m
    BY DEF NoncesUsedOnce, NoncesInOrder, Orderly, Sent, SentIn
  <1> DEFINE h == history[id]
             wanted == 0..(nonce[id] - 1)
  <1> HIDE DEF wanted
  <1>1. {h[i].nonce : i \in Sent(id)} = wanted <=>
          /\ \A i \in Sent(id) : h[i].nonce \in wanted
          /\ \A m \in wanted : \E i \in Sent(id) : h[i].nonce = m
    OBVIOUS
  <1>2. Sent(id) = SentIn(h, id)
    BY DEF Sent, SentIn
  <1> QED
    BY <1>1, <1>2 DEF wanted

(* Entries about what others sent do not matter. *)
LEMMA OthersEntry ==
  ASSUME NEW h \in Seq(Entries), NEW id, NEW n \in Nat, Orderly(h, id, n),
         NEW e \in Entries, e.sender # id
  PROVE  Orderly(<<e>> \o h, id, n)
  <1> DEFINE t == <<e>> \o h
  <1>1. /\ t \in Seq(Entries) /\ Len(t) = Len(h) + 1 /\ Len(h) \in Nat /\ t[1] = e
        /\ \A i \in 2..Len(t) : t[i] = h[i - 1]
        /\ \A i \in 1..Len(h) : t[i + 1] = h[i]
    BY Prepended
  <1> HIDE DEF t
  <1>2. \A i \in SentIn(t, id) : i \in 2..Len(t) /\ i - 1 \in SentIn(h, id) /\ t[i] = h[i - 1]
    BY <1>1 DEF SentIn
  <1>3. \A i \in SentIn(h, id) : i + 1 \in SentIn(t, id) /\ t[i + 1] = h[i]
    BY <1>1 DEF SentIn
  <1>4. \A i \in SentIn(t, id) : t[i].nonce \in 0..(n - 1)
    BY <1>2 DEF Orderly
  <1>5. ASSUME NEW m \in 0..(n - 1) PROVE \E i \in SentIn(t, id) : t[i].nonce = m
    <2>1. PICK i \in SentIn(h, id) : h[i].nonce = m
      BY DEF Orderly
    <2> QED
      BY <1>3, <2>1
  <1>6. ASSUME NEW i \in SentIn(t, id), NEW j \in SentIn(t, id), i < j
        PROVE  t[i].nonce > t[j].nonce \/ (j = i + 1 /\ t[i] = t[j])
    <2>1. i - 1 < j - 1 /\ (j - 1 = (i - 1) + 1 => j = i + 1)
      BY <1>2, <1>6
    <2> QED
      BY <1>2, <2>1 DEF Orderly
  <1> QED
    BY <1>4, <1>5, <1>6 DEF Orderly, t

(* An entry with the next nonce is one more transfer. *)
LEMMA OwnEntry ==
  ASSUME NEW h \in Seq(Entries), NEW id, NEW n \in Nat, Orderly(h, id, n),
         NEW e \in Entries, e.sender = id, e.nonce = n
  PROVE  Orderly(<<e>> \o h, id, n + 1)
  <1> DEFINE t == <<e>> \o h
  <1>1. /\ t \in Seq(Entries) /\ Len(t) = Len(h) + 1 /\ Len(h) \in Nat /\ t[1] = e
        /\ \A i \in 2..Len(t) : t[i] = h[i - 1]
        /\ \A i \in 1..Len(h) : t[i + 1] = h[i]
    BY Prepended
  <1> HIDE DEF t
  <1>2. \A i \in SentIn(t, id) :
          \/ i = 1 /\ t[i] = e
          \/ i \in 2..Len(t) /\ i - 1 \in SentIn(h, id) /\ t[i] = h[i - 1]
    BY <1>1 DEF SentIn
  <1>3. \A i \in SentIn(h, id) : i + 1 \in SentIn(t, id) /\ t[i + 1] = h[i]
    BY <1>1 DEF SentIn
  <1>a. 1 \in SentIn(t, id) /\ t[1].nonce = n
    BY <1>1 DEF SentIn
  <1>4. \A i \in SentIn(t, id) : t[i].nonce \in 0..((n + 1) - 1)
    BY <1>2 DEF Orderly
  <1>5. ASSUME NEW m \in 0..((n + 1) - 1) PROVE \E i \in SentIn(t, id) : t[i].nonce = m
    <2>1. CASE m = n
      BY <1>a, <2>1
    <2>2. CASE m # n
      <3>1. m \in 0..(n - 1)
        BY <2>2
      <3> QED
        BY <1>3, <3>1 DEF Orderly
    <2> QED
      BY <2>1, <2>2
  <1>6. ASSUME NEW i \in SentIn(t, id), NEW j \in SentIn(t, id), i < j
        PROVE  t[i].nonce > t[j].nonce \/ (j = i + 1 /\ t[i] = t[j])
    <2>0. j \in 2..Len(t) /\ j - 1 \in SentIn(h, id) /\ t[j] = h[j - 1]
      BY <1>2, <1>6 DEF SentIn
    <2>1. CASE i = 1
      BY <1>a, <2>0, <2>1 DEF Orderly
    <2>2. CASE i # 1
      <3>1. i \in 2..Len(t) /\ i - 1 \in SentIn(h, id) /\ t[i] = h[i - 1]
        BY <1>2, <2>2
      <3>2. i - 1 < j - 1 /\ (j - 1 = (i - 1) + 1 => j = i + 1)
        BY <1>6, <2>0, <3>1
      <3> QED
        BY <2>0, <3>1, <3>2 DEF Orderly
    <2> QED
      BY <2>1, <2>2
  <1> QED
    BY <1>4, <1>5, <1>6 DEF Orderly, t

(* A transfer to oneself is entered twice in a row. *)
LEMMA RepeatedEntry ==
  ASSUME NEW h \in Seq(Entries), NEW id, NEW n \in Nat, Orderly(h, id, n),
         NEW e \in Entries, e.sender = id, e.nonce = n
  PROVE  Orderly(<<e>> \o (<<e>> \o h), id, n + 1)
  <1> DEFINE s == <<e>> \o h
             t == <<e>> \o s
  <1>0. /\ s \in Seq(Entries) /\ Len(s) = Len(h) + 1 /\ Len(h) \in Nat /\ s[1] = e
        /\ \A i \in 2..Len(s) : s[i] = h[i - 1]
        /\ Orderly(s, id, n + 1)
    BY Prepended, OwnEntry
  <1>h. \A i \in 1..Len(h) : h[i].sender = id => h[i].nonce \in 0..(n - 1)
    BY DEF Orderly, SentIn
  <1> HIDE DEF s
  <1>1. /\ t \in Seq(Entries) /\ Len(t) = Len(s) + 1 /\ t[1] = e
        /\ \A i \in 2..Len(t) : t[i] = s[i - 1]
        /\ \A i \in 1..Len(s) : t[i + 1] = s[i]
    BY <1>0, Prepended
  <1> HIDE DEF t
  <1>2. \A i \in SentIn(t, id) :
          \/ i = 1 /\ t[i] = e
          \/ i \in 2..Len(t) /\ i - 1 \in SentIn(s, id) /\ t[i] = s[i - 1]
    BY <1>0, <1>1 DEF SentIn
  <1>3. \A i \in SentIn(s, id) : i + 1 \in SentIn(t, id) /\ t[i + 1] = s[i]
    BY <1>0, <1>1 DEF SentIn
  <1>4. \A i \in SentIn(t, id) : t[i].nonce \in 0..((n + 1) - 1)
    BY <1>2, <1>0, SMTT(30) DEF Orderly
  <1>5. ASSUME NEW m \in 0..((n + 1) - 1) PROVE \E i \in SentIn(t, id) : t[i].nonce = m
    <2>1. PICK i \in SentIn(s, id) : s[i].nonce = m
      BY <1>0 DEF Orderly
    <2> QED
      BY <1>3, <2>1
  <1>6. ASSUME NEW i \in SentIn(t, id), NEW j \in SentIn(t, id), i < j
        PROVE  t[i].nonce > t[j].nonce \/ (j = i + 1 /\ t[i] = t[j])
    <2>0. j \in 2..Len(t) /\ j - 1 \in SentIn(s, id) /\ t[j] = s[j - 1]
      BY <1>2, <1>6 DEF SentIn
    <2>1. CASE i = 1 /\ j = 2
      BY <1>0, <1>1, <2>0, <2>1
    <2>2. CASE i = 1 /\ j # 2
      <3>1. j - 2 \in 1..Len(h) /\ t[j] = h[j - 2]
        BY <1>0, <1>1, <2>0, <2>2
      <3>2. t[j].nonce \in 0..(n - 1)
        BY <1>h, <2>0, <3>1 DEF SentIn
      <3> QED
        BY <1>1, <2>2, <3>2
    <2>3. CASE i # 1
      <3>1. i \in 2..Len(t) /\ i - 1 \in SentIn(s, id) /\ t[i] = s[i - 1]
        BY <1>2, <2>3
      <3>2. i - 1 < j - 1 /\ (j - 1 = (i - 1) + 1 => j = i + 1)
        BY <1>6, <2>0, <3>1
      <3>3. \/ s[i - 1].nonce > s[j - 1].nonce
            \/ j - 1 = (i - 1) + 1 /\ s[i - 1] = s[j - 1]
        BY <1>0, <2>0, <3>1, <3>2, ZenonT(60) DEF Orderly
      <3> QED
        BY <2>0, <3>1, <3>2, <3>3
    <2> QED
      BY <2>1, <2>2, <2>3
  <1> QED
    BY <1>4, <1>5, <1>6 DEF Orderly, t, s

LEMMA NoEntries == ASSUME NEW id PROVE Orderly(<<>>, id, 0)
  BY DEF Orderly, SentIn

LEMMA NoncesAfterCredit ==
  ASSUME TypeOK, \A i \in Ids : Orderly(history[i], i, nonce[i]),
         NEW id \in Ids, NEW amount \in MachineInts,
         NEW from \in {SYSTEM, MINER}, NEW fee \in {0, TX_FEE},
         Books(id, amount, from, fee)
  PROVE  \A i \in Ids : Orderly(history'[i], i, nonce'[i])
  <1> DEFINE e == Entry(from, id, amount, fee, nonce[id])
  <1>1. e \in Entries /\ e.sender \notin Ids
    BY EntryType, AccountAssumption DEF TypeOK, Entry
  <1> HIDE DEF e
  <1>2. /\ history'[id] = <<e>> \o history[id] /\ nonce' = nonce
        /\ \A i \in Ids \ {id} : history'[i] = history[i]
    BY DEF TypeOK, Books, e
  <1>3. Orderly(<<e>> \o history[id], id, nonce[id])
    BY <1>1, OthersEntry DEF TypeOK
  <1> QED
    BY <1>2, <1>3

LEMMA NoncesAfterTransfer ==
  ASSUME TypeOK, \A i \in Ids : Orderly(history[i], i, nonce[i]),
         NEW sender \in Ids, NEW recipient \in Ids,
         NEW amount \in MachineInts, NEW n \in Nat,
         Settles(sender, recipient, amount, n)
  PROVE  \A i \in Ids : Orderly(history'[i], i, nonce'[i])
  <1> DEFINE e == Entry(sender, recipient, amount, TX_FEE, n)
             first == [history EXCEPT ![sender] = <<e>> \o @]
  <1>1. /\ e \in Entries /\ e.sender = sender /\ e.recipient = recipient
        /\ e.nonce = nonce[sender]
    BY EntryType DEF Entry, Settles
  <1>2. history' = [first EXCEPT ![recipient] = <<e>> \o @]
    BY <1>1 DEF Settles, Recorded
  <1> HIDE DEF e
  <1>3. /\ first[sender] = <<e>> \o history[sender] /\ DOMAIN first = Ids
        /\ \A i \in Ids \ {sender} : first[i] = history[i]
    BY DEF TypeOK
  <1> HIDE DEF first
  <1>4. /\ history'[recipient] = <<e>> \o first[recipient]
        /\ \A i \in Ids \ {recipient} : history'[i] = first[i]
    BY <1>2, <1>3
  <1>5. /\ nonce'[sender] = nonce[sender] + 1
        /\ \A i \in Ids \ {sender} : nonce'[i] = nonce[i]
    BY DEF TypeOK, Settles, NonceUsed
  <1>6. \A i \in Ids : history[i] \in Seq(Entries) /\ nonce[i] \in Nat
    BY DEF TypeOK
  <1> SUFFICES ASSUME NEW i \in Ids PROVE Orderly(history'[i], i, nonce'[i])
    OBVIOUS
  <1>7. CASE i = sender /\ i = recipient
    <2>1. Orderly(<<e>> \o (<<e>> \o history[i]), i, nonce[i] + 1)
      BY <1>1, <1>6, <1>7, RepeatedEntry
    <2>2. history'[i] = <<e>> \o first[i] /\ first[i] = <<e>> \o history[i]
      BY <1>3, <1>4, <1>7
    <2>3. nonce'[i] = nonce[i] + 1
      BY <1>5, <1>7
    <2> QED
      BY <2>1, <2>2, <2>3
  <1>8. CASE i = sender /\ i # recipient
    <2>1. Orderly(<<e>> \o history[i], i, nonce[i] + 1)
      BY <1>1, <1>6, <1>8, OwnEntry
    <2> QED
      BY <1>3, <1>4, <1>5, <1>8, <2>1
  <1>9. CASE i # sender /\ i = recipient
    <2>1. Orderly(<<e>> \o history[i], i, nonce[i])
      BY <1>1, <1>6, <1>9, OthersEntry
    <2> QED
      BY <1>3, <1>4, <1>5, <1>9, <2>1
  <1>10. CASE i # sender /\ i # recipient
    BY <1>3, <1>4, <1>5, <1>10
  <1> QED
    BY <1>7, <1>8, <1>9, <1>10

LEMMA NoncesInEveryStep ==
  TypeOK /\ NoncesUsedOnce /\ [Next]_vars => NoncesUsedOnce'
  <1> SUFFICES ASSUME TypeOK, NoncesUsedOnce, [Next]_vars PROVE NoncesUsedOnce'
    OBVIOUS
  <1>1. \A id \in Ids : Orderly(history[id], id, nonce[id])
    BY OrderlyMeans DEF NoncesInOrder
  <1>2. NoncesInOrder'
    <2> SUFFICES \A id \in Ids : Orderly(history'[id], id, nonce'[id])
      BY DEF NoncesInOrder, Orderly, SentIn
    <2>1. CASE Reset
      BY <2>1, NoEntries DEF Reset, Cleared
    <2>2. CASE UNCHANGED <<history, nonce>>
      BY <1>1, <2>2
    <2>3. CASE \E id \in Ids, amount \in RewardAmounts \cup MinerAmounts,
                  from \in {SYSTEM, MINER}, fee \in {0, TX_FEE} :
                 Books(id, amount, from, fee)
      BY <1>1, <2>3, NoncesAfterCredit, AmountsAreInts
    <2>4. CASE \E s, r \in Ids, amount \in TransferAmounts \cup NonceAmounts, n \in Nat :
                 Settles(s, r, amount, n)
      BY <1>1, <2>4, NoncesAfterTransfer, AmountsAreInts
    <2> QED
      BY <2>1, <2>2, <2>3, <2>4, Steps
  <1> QED
    BY <1>2, OrderlyMeans, PTL

\* No nonce of an account is used for two transfers and none is skipped, however
\* credits, refused transfers and transfers to oneself come in between
\* (account_transfer).
THEOREM NoncesAreUsedOnce == Spec => []NoncesUsedOnce
  <1>1. Init => NoncesUsedOnce
    <2> SUFFICES ASSUME Init PROVE NoncesUsedOnce
      OBVIOUS
    <2>1. NoncesInOrder
      BY NoEntries DEF Init, NoncesInOrder
    <2> QED
      BY <2>1, OrderlyMeans
  <1> QED
    BY <1>1, AccountsAreWellFormed, NoncesInEveryStep, PTL DEF Spec
-----------------------------------------------------------------------------
(* The bank. *)

LEMMA SameInts == ASSUME NEW x PROVE Bank!AsInt(x) = AsInt(x)
  BY DEF Bank!AsInt, Bank!INT_MIN, AsInt, INT_MIN

LEMMA BankInEveryStep == TypeOK /\ [Next]_vars => [Bank!Next]_balance
  <1> SUFFICES ASSUME TypeOK, [Next]_vars PROVE Bank!Next \/ UNCHANGED balance
    OBVIOUS
  <1>1. CASE Reset
    BY <1>1 DEF Reset, Cleared, Bank!Next, Bank!Reset
  <1>2. CASE UNCHANGED balance
    BY <1>2
  <1>3. CASE \E id \in Ids, amount \in RewardAmounts \cup MinerAmounts,
                from \in {SYSTEM, MINER}, fee \in {0, TX_FEE} :
               Books(id, amount, from, fee)
    <2>1. PICK id \in Ids, amount \in RewardAmounts \cup MinerAmounts :
            balance' = [balance EXCEPT ![id] = AsInt(@ + amount)]
      BY <1>3 DEF Books
    <2>2. Bank!Mint(id, amount)
      BY <2>1, SameInts DEF Bank!Mint
    <2> QED
      BY <2>2 DEF Bank!Next
  <1>4. CASE \E s, r \in Ids, amount \in TransferAmounts \cup NonceAmounts, n \in Nat :
               Settles(s, r, amount, n) /\ Covers(s, amount)
    <2>1. PICK s \in Ids, r \in Ids, amount \in TransferAmounts \cup NonceAmounts :
            balance' = Moved(s, r, amount) /\ Covers(s, amount)
      BY <1>4 DEF Settles
    <2>2. Bank!Move(s, r, amount)
      BY <2>1, SameInts DEF Moved, Covers, Bank!Move, Bank!Debit, Bank!Posted
    <2> QED
      BY <2>2 DEF Bank!Next
  <1> QED
    BY <1>1, <1>2, <1>3, <1>4, Steps

\* The account model implements the token bank: whatever is credited and typed,
\* balances change only as in the bank, and a transfer moves its amount and the
\* fee only from a balance that covers the two (ledger.c, account model).
THEOREM AccountsAreABank == Spec => ImplementsBank
  <1>1. Init => Bank!Empty
    BY DEF Init, Bank!Empty
  <1> QED
    BY <1>1, AccountsAreWellFormed, BankInEveryStep, PTL DEF Spec, ImplementsBank, Bank!Spec
-----------------------------------------------------------------------------
(* Conservation. *)

\* What the accounts hold together with the fees they have paid.
Holdings(b, n) == [id \in Ids |-> b[id] + TX_FEE * n[id]]

Held(b, n) == SumFunction(Holdings(b, n))

LEMMA HeldType ==
  ASSUME NEW b \in [Ids -> MachineInts], NEW n \in [Ids -> Nat]
  PROVE  /\ Held(b, n) \in Int /\ Held(b, n) = SumFunctionOnSet(Holdings(b, n), Ids)
         /\ Holdings(b, n) \in [Ids -> Int]
         /\ \A id \in Ids : Holdings(b, n)[id] = b[id] + n[id]
  <1>1. \A id \in Ids : Holdings(b, n)[id] = b[id] + n[id] /\ Holdings(b, n)[id] \in Int
    <2> TAKE id \in Ids
    <2>1. b[id] \in Int /\ n[id] \in Nat
      BY IntsAreInts
    <2>2. Holdings(b, n)[id] = b[id] + 1 * n[id]
      BY DEF Holdings, TX_FEE
    <2> QED
      BY <2>1, <2>2
  <1>2. DOMAIN Holdings(b, n) = Ids /\ Holdings(b, n) \in [Ids -> Int]
    BY <1>1 DEF Holdings
  <1>3. IsFiniteSet(Ids)
    BY AccountAssumption
  <1> QED
    BY <1>1, <1>2, <1>3, SumIsInt DEF Held, SumFunction

(* One account changes. *)
LEMMA HeldAfter ==
  ASSUME NEW b \in [Ids -> MachineInts], NEW n \in [Ids -> Nat],
         NEW c \in [Ids -> MachineInts], NEW m \in [Ids -> Nat],
         NEW id \in Ids, \A i \in Ids \ {id} : c[i] = b[i] /\ m[i] = n[i]
  PROVE  Held(c, m) = Held(b, n) + (c[id] + m[id]) - (b[id] + n[id])
  <1> DEFINE f == Holdings(b, n)
             g == Holdings(c, m)
  <1>1. /\ Held(b, n) = SumFunctionOnSet(f, Ids) /\ Held(c, m) = SumFunctionOnSet(g, Ids)
        /\ f \in [Ids -> Int] /\ g \in [Ids -> Int]
        /\ \A i \in Ids : f[i] = b[i] + n[i] /\ g[i] = c[i] + m[i]
    BY HeldType
  <1>2. \A i \in Ids \ {id} : g[i] = f[i]
    BY <1>1
  <1>3. IsFiniteSet(Ids)
    BY AccountAssumption
  <1> HIDE DEF f, g
  <1>4. SumFunctionOnSet(g, Ids) = SumFunctionOnSet(f, Ids) + g[id] - f[id]
    BY <1>1, <1>2, <1>3, SumWithOneChanged
  <1> QED
    BY <1>1, <1>4

LEMMA ConservationMeans == Conservation <=> AsInt(Held(balance, nonce)) = AsInt(SumFunction(credits))
  BY DEF Conservation, Held, Holdings

(* The sum of the credits, with one more. *)
LEMMA CreditedSum ==
  ASSUME NEW c \in Seq(MachineInts), NEW amount \in MachineInts
  PROVE  /\ SumFunction(c) \in Int
         /\ SumFunction(Append(c, amount)) = SumFunction(c) + amount
  <1>1. c \in Seq(Int) /\ amount \in Int
    BY IntIsNumber, IntsAreNumbers
  <1> QED
    BY <1>1, SumOfAppended

LEMMA ConservedByCredit ==
  ASSUME TypeOK, TypeOK', Conservation, NEW id \in Ids, NEW amount \in MachineInts,
         NEW from, NEW fee, Books(id, amount, from, fee)
  PROVE  Conservation'
  <1> DEFINE held == Held(balance, nonce)
             minted == SumFunction(credits)
             b == balance[id]
             n == nonce[id]
  <1>1. /\ held \in Int /\ minted \in Int /\ b \in Int /\ n \in Int /\ amount \in Int
        /\ AsInt(held) = AsInt(minted)
    <2>1. b \in MachineInts /\ n \in Nat
      BY DEF TypeOK
    <2>2. held \in Int /\ minted \in Int
      BY HeldType, CreditedSum DEF TypeOK
    <2>3. b \in Int /\ n \in Int /\ amount \in Int
      BY <2>1, IntIsNumber
    <2> QED
      BY <2>2, <2>3, ConservationMeans
  <1>2. SumFunction(credits)' = minted + amount
    BY CreditedSum DEF TypeOK, Books
  <1>3. Held(balance, nonce)' = held + (AsInt(b + amount) + n) - (b + n)
    <2>1. /\ balance'[id] = AsInt(b + amount) /\ nonce'[id] = n
          /\ \A i \in Ids \ {id} : balance'[i] = balance[i] /\ nonce'[i] = nonce[i]
      BY DEF TypeOK, Books
    <2>2. /\ balance \in [Ids -> MachineInts] /\ balance' \in [Ids -> MachineInts]
          /\ nonce \in [Ids -> Nat] /\ nonce' \in [Ids -> Nat]
      BY DEF TypeOK
    <2>3. Held(balance', nonce') =
            Held(balance, nonce) + (balance'[id] + nonce'[id]) - (balance[id] + nonce[id])
      BY <2>1, <2>2, HeldAfter
    <2> QED
      BY <2>1, <2>3 DEF Held, Holdings
  <1> HIDE DEF held, minted, b, n
  <1>4. AsInt(b + amount) \in Int
    <2>1. AsInt(b + amount) \in MachineInts
      BY <1>1, AsIntType
    <2> QED
      BY <2>1, IntsAreInts
  <1>5. Held(balance, nonce)' = AsInt(b + amount) + (held - b)
    BY <1>1, <1>3, <1>4
  <1>6. AsInt(AsInt(b + amount) + (held - b)) = AsInt((b + amount) + (held - b))
    BY <1>1, AsIntAbsorbs
  <1>7. (b + amount) + (held - b) = held + amount
    BY <1>1
  <1>8. AsInt(held + amount) = AsInt(minted + amount)
    BY <1>1, AsIntOfSums
  <1> QED
    BY <1>2, <1>5, <1>6, <1>7, <1>8, ConservationMeans DEF Conservation, Held, Holdings

LEMMA ConservedByTransfer ==
  ASSUME TypeOK, TypeOK', Conservation, NEW sender \in Ids, NEW recipient \in Ids,
         NEW amount \in MachineInts, NEW n \in Nat,
         Settles(sender, recipient, amount, n)
  PROVE  Conservation'
  <1> DEFINE held == Held(balance, nonce)
             debit == AsInt(amount + TX_FEE)
             b == balance[sender]
             m == nonce[sender]
             paid == [balance EXCEPT ![sender] = AsInt(b - debit)]
             first == Held(paid, nonce')
             p == paid[recipient]
             k == nonce'[recipient]
             last == Held(balance', nonce')
  <1>1. b \in MachineInts /\ debit \in MachineInts /\ m \in Nat
    BY DebitType DEF TypeOK
  <1>2. b \in Int /\ debit \in Int /\ amount \in Int /\ m \in Int
    BY <1>1, IntIsNumber
  <1>3. AsInt(b - debit) \in MachineInts
    BY <1>2, AsIntType
  <1> HIDE DEF debit
  <1>4. /\ paid \in [Ids -> MachineInts] /\ nonce' \in [Ids -> Nat]
        /\ paid[sender] = AsInt(b - debit) /\ nonce'[sender] = m + 1
        /\ \A i \in Ids \ {sender} : paid[i] = balance[i] /\ nonce'[i] = nonce[i]
    BY <1>3 DEF TypeOK, Settles, NonceUsed
  <1>5. /\ balance' = [paid EXCEPT ![recipient] = AsInt(p + amount)]
    BY DEF Settles, Moved, debit
  <1> HIDE DEF paid
  <1>6. p \in MachineInts /\ k \in Nat /\ p \in Int /\ AsInt(p + amount) \in MachineInts
    BY <1>4, SumType, IntIsNumber
  <1>7. /\ balance' \in [Ids -> MachineInts] /\ balance'[recipient] = AsInt(p + amount)
        /\ \A i \in Ids \ {recipient} : balance'[i] = paid[i]
    BY <1>4, <1>5, <1>6
  <1>8. /\ held \in Int /\ first \in Int /\ last \in Int
        /\ first = held + (AsInt(b - debit) + (m + 1)) - (b + m)
        /\ last = first + (AsInt(p + amount) + k) - (p + k)
    <2>1. balance \in [Ids -> MachineInts] /\ nonce \in [Ids -> Nat]
      BY DEF TypeOK
    <2>2. held \in Int /\ first \in Int /\ last \in Int
      BY <1>4, <1>7, <2>1, HeldType
    <2>3. first = held + (paid[sender] + nonce'[sender]) - (b + m)
      BY <1>4, <2>1, HeldAfter
    <2>4. last = first + (balance'[recipient] + k) - (p + k)
      BY <1>4, <1>7, HeldAfter
    <2> QED
      BY <1>4, <1>7, <2>2, <2>3, <2>4
  <1> HIDE DEF held, first, last, b, m, p, k
  <1>9. AsInt(first) = AsInt(held + (1 - debit))
    <2>1. AsInt(b - debit) \in Int
      BY <1>3, IntIsNumber
    <2>2. first = AsInt(b - debit) + (held + 1 - b)
      BY <1>2, <1>8, <2>1
    <2>3. AsInt(AsInt(b - debit) + (held + 1 - b)) = AsInt((b - debit) + (held + 1 - b))
      BY <1>2, <1>8, AsIntAbsorbs
    <2>4. (b - debit) + (held + 1 - b) = held + (1 - debit)
      BY <1>2, <1>8
    <2> QED
      BY <2>2, <2>3, <2>4
  <1>10. AsInt(last) = AsInt(first + amount)
    <2>1. AsInt(p + amount) \in Int
      BY <1>6, IntIsNumber
    <2>2. last = AsInt(p + amount) + (first - p)
      BY <1>6, <1>8, <2>1
    <2>3. AsInt(AsInt(p + amount) + (first - p)) = AsInt((p + amount) + (first - p))
      BY <1>2, <1>6, <1>8, AsIntAbsorbs, SMTT(30)
    <2>4. (p + amount) + (first - p) = first + amount
      BY <1>2, <1>6, <1>8
    <2> QED
      BY <2>2, <2>3, <2>4
  <1>11. AsInt(first + amount) = AsInt((held + 1 + amount) - debit)
    <2>1. AsInt(first + amount) = AsInt((held + (1 - debit)) + amount)
      BY <1>2, <1>8, <1>9, AsIntOfSums
    <2>2. (held + (1 - debit)) + amount = (held + 1 + amount) - debit
      BY <1>2, <1>8
    <2> QED
      BY <2>1, <2>2
  <1>12. AsInt((held + 1 + amount) - debit) = AsInt(held)
    <2>1. debit = AsInt(amount + 1)
      BY DEF debit, TX_FEE
    <2>2. AsInt((held + 1 + amount) - AsInt(amount + 1)) = AsInt((held + 1 + amount) - (amount + 1))
      BY <1>2, <1>8, AsIntAbsorbs
    <2>3. (held + 1 + amount) - (amount + 1) = held
      BY <1>2, <1>8
    <2> QED
      BY <2>1, <2>2, <2>3
  <1>13. AsInt(last) = AsInt(SumFunction(credits'))
    BY <1>10, <1>11, <1>12, ConservationMeans DEF Settles, held
  <1> QED
    BY <1>13 DEF Conservation, last, Held, Holdings

LEMMA NothingHeld ==
  ASSUME NEW b, NEW n, b = [id \in Ids |-> 0], n = [id \in Ids |-> 0]
  PROVE  Held(b, n) = 0
  <1> DEFINE f == Holdings(b, n)
             same == {T \in SUBSET Ids : SumFunctionOnSet(f, T) = 0}
  <1>1. DOMAIN f = Ids /\ \A id \in Ids : f[id] = 0
    BY DEF Holdings, TX_FEE
  <1>2. {} \in same
    BY SumOfNone
  <1> HIDE DEF f
  <1>3. ASSUME NEW T \in SUBSET Ids, NEW x \in Ids \ T, T \in same PROVE T \cup {x} \in same
    <2>1. IsFiniteSet(T) /\ T \cup {x} \in SUBSET Ids
      BY FS_Subset, AccountAssumption
    <2>2. \A y \in T \cup {x} : f[y] \in Int
      BY <1>1
    <2>3. SumFunctionOnSet(f, T \cup {x}) = SumFunctionOnSet(f, T) + f[x]
      BY <2>1, <2>2, SumWithOneMore
    <2> QED
      BY <1>1, <1>3, <2>1, <2>3
  <1>4. Ids \in same
    <2> HIDE DEF same
    <2> QED
      BY <1>2, <1>3, SetInduction, AccountAssumption
  <1> QED
    BY <1>1, <1>4 DEF Held, SumFunction, f

LEMMA ConservedInEveryStep == TypeOK /\ TypeOK' /\ Conservation /\ [Next]_vars => Conservation'
  <1> SUFFICES ASSUME TypeOK, TypeOK', Conservation, [Next]_vars PROVE Conservation'
    OBVIOUS
  <1>1. CASE Reset
    <2>1. Held(balance', nonce') = 0 /\ SumFunction(credits') = 0
      BY <1>1, NothingHeld, SumOfEmptySequence DEF Reset, Cleared
    <2> QED
      BY <2>1 DEF Conservation, Held, Holdings
  <1>2. CASE UNCHANGED <<balance, nonce, history, credits>>
    BY <1>2 DEF Conservation
  <1>3. CASE \E id \in Ids, amount \in RewardAmounts \cup MinerAmounts,
                from \in {SYSTEM, MINER}, fee \in {0, TX_FEE} :
               Books(id, amount, from, fee)
    BY <1>3, ConservedByCredit, AmountsAreInts
  <1>4. CASE \E s, r \in Ids, amount \in TransferAmounts \cup NonceAmounts, n \in Nat :
               Settles(s, r, amount, n)
    BY <1>4, ConservedByTransfer, AmountsAreInts
  <1> QED
    BY <1>1, <1>2, <1>3, <1>4, Steps

\* Coins neither appear nor disappear: what the accounts hold and the fees of
\* their transfers add up to what was credited, whatever overflows, is refused
\* or goes to oneself (account_transfer, account_apply_reward).
THEOREM CoinsAreConserved == Spec => []Conservation
  <1>1. Init => Conservation
    BY NothingHeld, SumOfEmptySequence DEF Init, Conservation, Held, Holdings
  <1> QED
    BY <1>1, AccountsAreWellFormed, ConservedInEveryStep, PTL DEF Spec
-----------------------------------------------------------------------------
(* Histories and balances. *)

EffectsIn(h, id) == [i \in DOMAIN h |-> Effect(id, h[i])]

TurnoverIn(h) == SumFunction([i \in DOMAIN h |-> h[i].amount + TX_FEE])

LEMMA EntryFields ==
  ASSUME NEW e \in Entries, NEW id
  PROVE  /\ e.amount \in MachineInts /\ e.amount \in Int /\ e.amount + TX_FEE \in Int
         /\ Effect(id, e) \in Int
  <1>1. e.amount \in MachineInts
    BY DEF Entries
  <1>2. e.amount \in Int
    BY <1>1, IntIsNumber
  <1>3. /\ e.amount + TX_FEE \in Int
        /\ (IF e.recipient = id THEN e.amount ELSE 0) \in Int
        /\ (IF e.sender = id THEN e.amount + TX_FEE ELSE 0) \in Int
    BY <1>2 DEF TX_FEE
  <1> QED
    BY <1>1, <1>2, <1>3 DEF Effect

(* The sums over a history with one more entry. *)
LEMMA EffectsAfterEntry ==
  ASSUME NEW h \in Seq(Entries), NEW e \in Entries, NEW id
  PROVE  /\ SumFunction(EffectsIn(h, id)) \in Int
         /\ SumFunction(EffectsIn(<<e>> \o h, id)) = Effect(id, e) + SumFunction(EffectsIn(h, id))
  <1> DEFINE n == Len(h)
             t == <<e>> \o h
             f == EffectsIn(h, id)
             g == EffectsIn(t, id)
  <1>1. n \in Nat /\ DOMAIN h = 1..n /\ \A i \in 1..n : h[i] \in Entries
    OBVIOUS
  <1>2. /\ t \in Seq(Entries) /\ Len(t) = n + 1 /\ DOMAIN t = 1..(n + 1) /\ t[1] = e
        /\ \A i \in 1..n : t[i + 1] = h[i]
    BY Prepended
  <1>3. \A i \in 1..(n + 1) : t[i] \in Entries
    BY <1>2
  <1> HIDE DEF n, t
  <1>4. f \in [1..n -> Int] /\ g \in [1..(n + 1) -> Int]
    BY <1>1, <1>2, <1>3, EntryFields DEF EffectsIn
  <1>5. g[1] = Effect(id, e) /\ \A i \in 1..n : g[i + 1] = f[i]
    BY <1>1, <1>2 DEF EffectsIn
  <1> HIDE DEF f, g
  <1>6. SumFunction(g) = g[1] + SumFunction(f)
    BY <1>1, <1>4, <1>5, SumWithFirst
  <1>7. SumFunction(f) \in Int
    BY <1>1, <1>4, SequenceSumIsInt
  <1> QED
    BY <1>5, <1>6, <1>7 DEF f, g, t

LEMMA TurnoverAfterEntry ==
  ASSUME NEW h \in Seq(Entries), NEW e \in Entries
  PROVE  /\ TurnoverIn(h) \in Int
         /\ TurnoverIn(<<e>> \o h) = (e.amount + TX_FEE) + TurnoverIn(h)
  <1> DEFINE n == Len(h)
             t == <<e>> \o h
             f == [i \in DOMAIN h |-> h[i].amount + TX_FEE]
             g == [i \in DOMAIN t |-> t[i].amount + TX_FEE]
  <1>1. n \in Nat /\ DOMAIN h = 1..n /\ \A i \in 1..n : h[i] \in Entries
    OBVIOUS
  <1>2. /\ t \in Seq(Entries) /\ Len(t) = n + 1 /\ DOMAIN t = 1..(n + 1) /\ t[1] = e
        /\ \A i \in 1..n : t[i + 1] = h[i]
    BY Prepended
  <1>3. \A i \in 1..(n + 1) : t[i] \in Entries
    BY <1>2
  <1>4. TurnoverIn(h) = SumFunction(f) /\ TurnoverIn(t) = SumFunction(g)
    BY DEF TurnoverIn
  <1> HIDE DEF n, t
  <1>5. f \in [1..n -> Int] /\ g \in [1..(n + 1) -> Int]
    BY <1>1, <1>2, <1>3, EntryFields
  <1>6. g[1] = e.amount + TX_FEE /\ \A i \in 1..n : g[i + 1] = f[i]
    BY <1>1, <1>2
  <1> HIDE DEF f, g
  <1>7. SumFunction(g) = g[1] + SumFunction(f)
    BY <1>1, <1>5, <1>6, SumWithFirst
  <1>8. SumFunction(f) \in Int
    BY <1>1, <1>5, SequenceSumIsInt
  <1> QED
    BY <1>4, <1>6, <1>7, <1>8 DEF t

LEMMA EmptyHistory ==
  ASSUME NEW id
  PROVE  Range(<<>>) = {} /\ SumFunction(EffectsIn(<<>>, id)) = 0 /\ TurnoverIn(<<>>) = 0
  <1>1. /\ EffectsIn(<<>>, id) = <<>>
        /\ [i \in DOMAIN <<>> |-> <<>>[i].amount + TX_FEE] = <<>>
    BY DEF EffectsIn
  <1>2. TurnoverIn(<<>>) = SumFunction([i \in DOMAIN <<>> |-> <<>>[i].amount + TX_FEE])
    BY DEF TurnoverIn
  <1>3. Range(<<>>) = {}
    BY DEF Range
  <1> QED
    BY <1>1, <1>2, <1>3, SumOfEmptySequence

(* HistoryExplainsBalance for the history h and the balance b of one account. *)
Explains(h, b, id) ==
  (\A e \in Range(h) : e.sender # e.recipient) => b = AsInt(SumFunction(EffectsIn(h, id)))

(* DebtHasCause: the turnover covers what the account has. *)
Covered(h, b) ==
  (\A e \in Range(h) : e.amount >= 0) /\ TurnoverIn(h) <= INT_MAX
    => 0 <= b /\ b <= TurnoverIn(h)

BalancesExplained == \A id \in Ids : Explains(history[id], balance[id], id)

BalancesCovered == \A id \in Ids : Covered(history[id], balance[id])

LEMMA ExplainedMeans == HistoryExplainsBalance <=> BalancesExplained
  <1>1. \A id \in Ids : EffectsIn(history[id], id) = Effects(id)
    BY DEF EffectsIn, Effects
  <1> QED
    BY <1>1 DEF HistoryExplainsBalance, BalancesExplained, Explains

LEMMA CoveredMeans == TypeOK /\ BalancesCovered => DebtHasCause
  <1> SUFFICES ASSUME TypeOK, BalancesCovered, NEW id \in Ids, balance[id] < 0,
                      \A e \in Range(history[id]) : ~(e.amount < 0)
               PROVE  Turnover(id) > INT_MAX
    BY DEF DebtHasCause
  <1>1. Turnover(id) = TurnoverIn(history[id])
    BY DEF Turnover, TurnoverIn
  <1>2. \A i \in DOMAIN history[id] : history[id][i] \in Entries
    BY DEF TypeOK
  <1>3. \A e \in Range(history[id]) : e.amount >= 0
    <2> TAKE e \in Range(history[id])
    <2>1. e \in Entries
      BY <1>2 DEF Range
    <2>2. e.amount \in Int
      BY <2>1, EntryFields
    <2> QED
      BY <2>2
  <1>4. balance[id] \in Int
    BY IntIsNumber DEF TypeOK
  <1>5. TurnoverIn(history[id]) \in Int
    <2>1. history[id] \in Seq(Entries)
      BY DEF TypeOK
    <2>2. IsFiniteSet(DOMAIN history[id])
      BY <2>1, FS_Interval
    <2> DEFINE f == [i \in DOMAIN history[id] |-> history[id][i].amount + TX_FEE]
    <2>3. DOMAIN f = DOMAIN history[id] /\ \A i \in DOMAIN history[id] : f[i] \in Int
      BY <1>2, EntryFields
    <2>4. TurnoverIn(history[id]) = SumFunction(f)
      BY DEF TurnoverIn
    <2> HIDE DEF f
    <2> QED
      BY <2>2, <2>3, <2>4, SumIsInt DEF SumFunction
  <1>6. INT_MAX \in Int
    BY IntMaxAssumption
  <1> QED
    BY <1>1, <1>3, <1>4, <1>5, <1>6 DEF BalancesCovered, Covered

(* An entry and what it does to the balance: of who receives it ... *)
LEMMA ExplainedByReceipt ==
  ASSUME NEW h \in Seq(Entries), NEW e \in Entries, NEW b \in MachineInts, NEW id,
         Explains(h, b, id), e.recipient = id, e.sender # id
  PROVE  Explains(<<e>> \o h, AsInt(b + e.amount), id)
  <1> SUFFICES ASSUME \A x \in Range(<<e>> \o h) : x.sender # x.recipient
               PROVE  AsInt(b + e.amount) = AsInt(SumFunction(EffectsIn(<<e>> \o h, id)))
    BY DEF Explains
  <1> DEFINE sum == SumFunction(EffectsIn(h, id))
  <1>1. Range(<<e>> \o h) = {e} \cup Range(h)
    BY Prepended
  <1>2. b = AsInt(sum)
    BY <1>1 DEF Explains
  <1>3. sum \in Int /\ e.amount \in Int
    BY EffectsAfterEntry, EntryFields
  <1>4. SumFunction(EffectsIn(<<e>> \o h, id)) = Effect(id, e) + sum
    BY EffectsAfterEntry
  <1> HIDE DEF sum
  <1>5. Effect(id, e) + sum = sum + e.amount
    BY <1>3 DEF Effect
  <1>6. AsInt(AsInt(sum) + e.amount) = AsInt(sum + e.amount)
    BY <1>3, AsIntAbsorbs
  <1> QED
    BY <1>2, <1>4, <1>5, <1>6

(* ... and of who pays. *)
LEMMA ExplainedByPayment ==
  ASSUME NEW h \in Seq(Entries), NEW e \in Entries, NEW b \in MachineInts, NEW id,
         Explains(h, b, id), e.sender = id, e.recipient # id
  PROVE  Explains(<<e>> \o h, AsInt(b - AsInt(e.amount + TX_FEE)), id)
  <1> SUFFICES ASSUME \A x \in Range(<<e>> \o h) : x.sender # x.recipient
               PROVE  AsInt(b - AsInt(e.amount + TX_FEE))
                        = AsInt(SumFunction(EffectsIn(<<e>> \o h, id)))
    BY DEF Explains
  <1> DEFINE sum == SumFunction(EffectsIn(h, id))
             d == e.amount + TX_FEE
  <1>1. Range(<<e>> \o h) = {e} \cup Range(h)
    BY Prepended
  <1>2. b = AsInt(sum) /\ b \in Int
    BY <1>1, IntIsNumber DEF Explains
  <1>3. sum \in Int /\ d \in Int
    BY EffectsAfterEntry, EntryFields
  <1>4. SumFunction(EffectsIn(<<e>> \o h, id)) = Effect(id, e) + sum
    BY EffectsAfterEntry
  <1>5. Effect(id, e) = 0 - d
    BY DEF Effect
  <1> HIDE DEF sum, d
  <1>6. AsInt(b - AsInt(d)) = AsInt(b - d)
    BY <1>2, <1>3, AsIntAbsorbs
  <1>7. (0 - d) \in Int /\ b - d = AsInt(sum) + (0 - d) /\ (0 - d) + sum = sum + (0 - d)
    BY <1>2, <1>3
  <1>8. AsInt(AsInt(sum) + (0 - d)) = AsInt(sum + (0 - d))
    BY <1>3, <1>7, AsIntAbsorbs
  <1> QED
    BY <1>4, <1>5, <1>6, <1>7, <1>8 DEF d

LEMMA CoveredAfterReceipt ==
  ASSUME NEW h \in Seq(Entries), NEW e \in Entries, NEW b \in MachineInts, Covered(h, b)
  PROVE  Covered(<<e>> \o h, AsInt(b + e.amount))
  <1> DEFINE t == <<e>> \o h
             turn == TurnoverIn(h)
             a == e.amount
  <1> SUFFICES ASSUME \A x \in Range(t) : x.amount >= 0, TurnoverIn(t) <= INT_MAX
               PROVE  0 <= AsInt(b + a) /\ AsInt(b + a) <= TurnoverIn(t)
    BY DEF Covered
  <1>1. Range(t) = {e} \cup Range(h)
    BY Prepended
  <1>2. TurnoverIn(t) = (a + 1) + turn /\ turn \in Int
    BY TurnoverAfterEntry DEF TX_FEE
  <1>3. a >= 0 /\ a \in Int /\ b \in Int /\ INT_MAX \in Int /\ INT_MIN \in Int /\ INT_MIN < 0
    BY <1>1, EntryFields, IntIsNumber, IntMaxAssumption DEF INT_MIN
  <1> HIDE DEF turn, a, t
  <1>4. turn <= INT_MAX
    BY <1>2, <1>3
  <1>5. 0 <= b /\ b <= turn
    BY <1>1, <1>4 DEF Covered, turn
  <1>6. b + a \in MachineInts /\ 0 <= b + a /\ b + a <= TurnoverIn(t)
    BY <1>2, <1>3, <1>5 DEF MachineInts
  <1> QED
    BY <1>6, AsIntOfInt

LEMMA CoveredAfterPayment ==
  ASSUME NEW h \in Seq(Entries), NEW e \in Entries, NEW b \in MachineInts, Covered(h, b),
         b >= AsInt(e.amount + TX_FEE)
  PROVE  Covered(<<e>> \o h, AsInt(b - AsInt(e.amount + TX_FEE)))
  <1> DEFINE t == <<e>> \o h
             turn == TurnoverIn(h)
             a == e.amount
             debit == a + TX_FEE
  <1> SUFFICES ASSUME \A x \in Range(t) : x.amount >= 0, TurnoverIn(t) <= INT_MAX
               PROVE  /\ 0 <= AsInt(b - AsInt(debit))
                      /\ AsInt(b - AsInt(debit)) <= TurnoverIn(t)
    BY DEF Covered
  <1>1. Range(t) = {e} \cup Range(h)
    BY Prepended
  <1>2. TurnoverIn(t) = debit + turn /\ turn \in Int /\ debit = a + 1
    BY TurnoverAfterEntry DEF TX_FEE
  <1>3. a >= 0 /\ a \in Int /\ b \in Int /\ INT_MAX \in Int /\ INT_MIN \in Int /\ INT_MIN < 0
    BY <1>1, EntryFields, IntIsNumber, IntMaxAssumption DEF INT_MIN
  <1>4. b >= AsInt(debit)
    OBVIOUS
  <1> HIDE DEF turn, a, t, debit
  <1>5. turn <= INT_MAX
    BY <1>2, <1>3
  <1>6. 0 <= b /\ b <= turn
    BY <1>1, <1>5 DEF Covered, turn
  <1>7. debit \in MachineInts /\ debit \in Int
    BY <1>2, <1>3, <1>6 DEF MachineInts
  <1>8. AsInt(debit) = debit
    BY <1>7, AsIntOfInt
  <1>9. b - debit \in MachineInts /\ 0 <= b - debit /\ b - debit <= TurnoverIn(t)
    BY <1>2, <1>3, <1>4, <1>5, <1>6, <1>7, <1>8 DEF MachineInts
  <1> QED
    BY <1>8, <1>9, AsIntOfInt

LEMMA ExplainedByCredit ==
  ASSUME TypeOK, BalancesExplained, BalancesCovered, NEW id \in Ids,
         NEW amount \in MachineInts, NEW from \in {SYSTEM, MINER},
         NEW fee \in {0, TX_FEE}, Books(id, amount, from, fee)
  PROVE  (BalancesExplained /\ BalancesCovered)'
  <1> DEFINE e == Entry(from, id, amount, fee, nonce[id])
  <1>1. e \in Entries /\ e.recipient = id /\ e.sender # id /\ e.amount = amount
    BY EntryType, AccountAssumption DEF TypeOK, Entry
  <1> HIDE DEF e
  <1>2. /\ history'[id] = <<e>> \o history[id] /\ balance'[id] = AsInt(balance[id] + e.amount)
        /\ \A i \in Ids \ {id} : history'[i] = history[i] /\ balance'[i] = balance[i]
    BY <1>1 DEF TypeOK, Books, e
  <1>3. history[id] \in Seq(Entries) /\ balance[id] \in MachineInts
    BY DEF TypeOK
  <1>4. /\ Explains(<<e>> \o history[id], AsInt(balance[id] + e.amount), id)
        /\ Covered(<<e>> \o history[id], AsInt(balance[id] + e.amount))
    BY <1>1, <1>3, ExplainedByReceipt, CoveredAfterReceipt DEF BalancesExplained, BalancesCovered
  <1> QED
    BY <1>2, <1>4 DEF BalancesExplained, BalancesCovered

LEMMA ExplainedByTransfer ==
  ASSUME TypeOK, BalancesExplained, BalancesCovered,
         NEW sender \in Ids, NEW recipient \in Ids,
         NEW amount \in MachineInts, NEW n \in Nat,
         Settles(sender, recipient, amount, n), Covers(sender, amount)
  PROVE  (BalancesExplained /\ BalancesCovered)'
  <1> DEFINE e == Entry(sender, recipient, amount, TX_FEE, n)
             sent == [history EXCEPT ![sender] = <<e>> \o @]
             paid == [balance EXCEPT ![sender] = AsInt(@ - AsInt(e.amount + TX_FEE))]
  <1>1. e \in Entries /\ e.recipient = recipient /\ e.sender = sender /\ e.amount = amount
    BY EntryType DEF Entry
  <1>2. /\ history' = [sent EXCEPT ![recipient] = <<e>> \o @]
        /\ balance' = [paid EXCEPT ![recipient] = AsInt(@ + e.amount)]
    BY <1>1 DEF Settles, Recorded, Moved
  <1> HIDE DEF e
  <1>3. history[sender] \in Seq(Entries) /\ balance[sender] \in MachineInts
    BY DEF TypeOK
  <1>4. /\ <<e>> \o history[sender] \in Seq(Entries)
        /\ AsInt(balance[sender] - AsInt(e.amount + TX_FEE)) \in MachineInts
    BY <1>1, <1>3, Prepended, DebitType, SumType
  <1>5. /\ sent \in [Ids -> Seq(Entries)] /\ paid \in [Ids -> MachineInts]
        /\ sent[sender] = <<e>> \o history[sender]
        /\ paid[sender] = AsInt(balance[sender] - AsInt(e.amount + TX_FEE))
        /\ \A i \in Ids \ {sender} : sent[i] = history[i] /\ paid[i] = balance[i]
    BY <1>4 DEF TypeOK
  <1>6. Covered(sent[sender], paid[sender])
    <2>1. balance[sender] >= AsInt(e.amount + TX_FEE)
      BY <1>1 DEF Covers
    <2> QED
      BY <1>1, <1>3, <1>5, <2>1, CoveredAfterPayment DEF BalancesCovered
  <1>7. sender # recipient => Explains(sent[sender], paid[sender], sender)
    BY <1>1, <1>3, <1>5, ExplainedByPayment DEF BalancesExplained
  <1> HIDE DEF sent, paid
  <1>8. sent[recipient] \in Seq(Entries) /\ paid[recipient] \in MachineInts
    BY <1>5
  <1>9. Covered(sent[recipient], paid[recipient])
    BY <1>5, <1>6 DEF BalancesCovered
  <1>10. /\ history'[recipient] = <<e>> \o sent[recipient]
         /\ balance'[recipient] = AsInt(paid[recipient] + e.amount)
         /\ \A i \in Ids \ {recipient} : history'[i] = sent[i] /\ balance'[i] = paid[i]
    BY <1>2, <1>5
  <1>11. Covered(history'[recipient], balance'[recipient])
    BY <1>1, <1>8, <1>9, <1>10, CoveredAfterReceipt
  <1>12. Explains(history'[recipient], balance'[recipient], recipient)
    <2>1. CASE sender # recipient
      <3>1. Explains(sent[recipient], paid[recipient], recipient)
        BY <1>5, <2>1 DEF BalancesExplained
      <3> QED
        BY <1>1, <1>8, <1>10, <2>1, <3>1, ExplainedByReceipt
    <2>2. CASE sender = recipient
      <3>1. e \in Range(history'[recipient])
        BY <1>1, <1>8, <1>10, Prepended
      <3> QED
        BY <1>1, <2>2, <3>1 DEF Explains
    <2> QED
      BY <2>1, <2>2
  <1>13. ASSUME NEW i \in Ids
         PROVE  Covered(history'[i], balance'[i]) /\ Explains(history'[i], balance'[i], i)
    <2>1. CASE i = recipient
      BY <1>11, <1>12, <2>1
    <2>2. CASE i # recipient /\ i = sender
      BY <1>6, <1>7, <1>10, <2>2
    <2>3. CASE i # recipient /\ i # sender
      BY <1>5, <1>10, <2>3 DEF BalancesExplained, BalancesCovered
    <2> QED
      BY <2>1, <2>2, <2>3
  <1> QED
    BY <1>13 DEF BalancesExplained, BalancesCovered

LEMMA NothingToExplain == ASSUME NEW id PROVE Explains(<<>>, 0, id) /\ Covered(<<>>, 0)
  <1>1. 0 = AsInt(0)
    BY IntsAreInts, AsIntOfInt
  <1> QED
    BY <1>1, EmptyHistory, IntMaxAssumption DEF Explains, Covered

LEMMA ExplainedInEveryStep ==
  TypeOK /\ BalancesExplained /\ BalancesCovered /\ [Next]_vars
    => (BalancesExplained /\ BalancesCovered)'
  <1> SUFFICES ASSUME TypeOK, BalancesExplained, BalancesCovered, [Next]_vars
               PROVE  (BalancesExplained /\ BalancesCovered)'
    OBVIOUS
  <1>1. CASE Reset
    <2>1. \A id \in Ids : balance'[id] = 0 /\ history'[id] = <<>>
      BY <1>1 DEF Reset, Cleared
    <2> QED
      BY <2>1, NothingToExplain DEF BalancesExplained, BalancesCovered
  <1>2. CASE UNCHANGED <<balance, nonce, history, credits>>
    BY <1>2 DEF BalancesExplained, BalancesCovered
  <1>3. CASE \E id \in Ids, amount \in RewardAmounts \cup MinerAmounts,
                from \in {SYSTEM, MINER}, fee \in {0, TX_FEE} :
               Books(id, amount, from, fee)
    BY <1>3, ExplainedByCredit, AmountsAreInts
  <1>4. CASE \E s, r \in Ids, amount \in TransferAmounts \cup NonceAmounts, n \in Nat :
               Settles(s, r, amount, n) /\ Covers(s, amount)
    BY <1>4, ExplainedByTransfer, AmountsAreInts
  <1> QED
    BY <1>1, <1>2, <1>3, <1>4, Steps

LEMMA AlwaysExplained == Spec => [](BalancesExplained /\ BalancesCovered)
  <1>1. Init => BalancesExplained /\ BalancesCovered
    BY NothingToExplain DEF Init, BalancesExplained, BalancesCovered
  <1> QED
    BY <1>1, AccountsAreWellFormed, ExplainedInEveryStep, PTL DEF Spec

\* The history of an account accounts for its balance to the coin, across
\* overflows and refusals, as long as it has not transferred to itself
\* (record_history at each credit and twice at each transfer).
THEOREM HistoriesExplainBalances == Spec => []HistoryExplainsBalance
  BY AlwaysExplained, ExplainedMeans, PTL

\* An account that is in debt has a negative amount in its history, or has had
\* more coins pass through it than an int can count: the check of
\* account_transfer leaves no other way below zero.
THEOREM DebtsHaveCauses == Spec => []DebtHasCause
  BY AlwaysExplained, AccountsAreWellFormed, CoveredMeans, PTL
=============================================================================
