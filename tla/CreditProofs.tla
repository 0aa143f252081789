----------------------------- MODULE CreditProofs -----------------------------
(***************************************************************************)
(* What Mining pays: students receive the net rewards of their confirmed   *)
(* blocks, the solo miner the mining reward of each block it confirmed.    *)
(***************************************************************************)
EXTENDS RegisterProofs, NumberLemmas

\* No student is registered under the name of a miner.
NamesApart == Students \cap Miners = {}

\* The blocks that have been paid for, or never will be: all but one that is
\* still to be saved or credited.
Due == IF phase = "crediting" \/ (phase = "saving" /\ mode \in MiningModes)
       THEN Len(chain) - 1 ELSE Len(chain)

NetRewards(blocks) == [i \in 1..Len(blocks) |-> blocks[i].token_reward - TX_FEE]

Rewarded(blocks, first, last, s) ==
  {i \in first..last : blocks[i].student_id = s /\ blocks[i].token_reward > 0}

Earned(blocks, first, last, s) ==
  SumFunctionOnSet(NetRewards(blocks), Rewarded(blocks, first, last, s))

\* Student s has e coins, or fewer because the table of outputs is full.
PaidFor(l, s, e) ==
  \/ l.credit[s] = e
  \/ l.model = "utxo" /\ l.outputs = MAX_UTXOS /\ l.credit[s] < e

\* Tables are within bounds, and every student has an account to be paid into.
TablesOK(l) ==
  /\ l.model = "utxo" => l.outputs <= MAX_UTXOS
  /\ l.model = "account" => Students \subseteq l.accounts

\* The inductive invariant behind CreditsMatchChain.
StudentsPaid ==
  phase # "down" =>
    /\ base <= Due /\ TablesOK(ledger)
    /\ \A s \in Students : PaidFor(ledger, s, Earned(chain, base + 1, Due, s))

\* A mining command that is running is one of those in use.
ModeInUse == mode \in MiningModes => mode \in Modes

\* The inductive invariant behind SoloMinerPaid: it holds between any two steps,
\* for the blocks of which the payment is settled.
SoloPaid ==
  phase # "down" =>
    /\ ledger.credit[SOLO_MINER] <= MINING_REWARD * (Due - base)
    /\ Modes = {"solo"} /\ HasRoom(ledger, SOLO_MINER)
         => ledger.credit[SOLO_MINER] = MINING_REWARD * (Due - base)
-----------------------------------------------------------------------------
(* What a student has earned. *)

LEMMA RewardedFacts ==
  ASSUME NEW blocks, Len(blocks) \in Nat, \A i \in 1..Len(blocks) : IsBlock(blocks[i]),
         NEW first \in Nat \ {0}, NEW last \in 0..Len(blocks), NEW s
  PROVE  /\ IsFiniteSet(Rewarded(blocks, first, last, s))
         /\ \A i \in Rewarded(blocks, first, last, s) :
              /\ i \in 1..Len(blocks) /\ NetRewards(blocks)[i] \in Nat
              /\ NetRewards(blocks)[i] = NetReward(blocks[i].token_reward)
  <1>1. IsFiniteSet(Rewarded(blocks, first, last, s))
    <2>1. Rewarded(blocks, first, last, s) \subseteq first..last
      BY DEF Rewarded
    <2>2. IsFiniteSet(first..last)
      BY FS_Interval
    <2> QED
      BY <2>1, <2>2, FS_Subset
  <1>2. ASSUME NEW i \in Rewarded(blocks, first, last, s)
        PROVE  /\ i \in 1..Len(blocks) /\ NetRewards(blocks)[i] \in Nat
               /\ NetRewards(blocks)[i] = NetReward(blocks[i].token_reward)
    <2>1. i \in 1..Len(blocks) /\ blocks[i].token_reward > 0
      BY DEF Rewarded
    <2>2. NetRewards(blocks)[i] = blocks[i].token_reward - TX_FEE
      BY <2>1 DEF NetRewards
    <2>3. blocks[i].token_reward \in Nat
      BY <2>1 DEF IsBlock
    <2> QED
      BY <2>1, <2>2, <2>3 DEF TX_FEE, NetReward
  <1> QED
    BY <1>1, <1>2

LEMMA EarnedNothing ==
  ASSUME NEW blocks, NEW last \in Int, NEW s
  PROVE  Earned(blocks, last + 1, last, s) = 0
  <1>1. Rewarded(blocks, last + 1, last, s) = {}
    BY DEF Rewarded
  <1> QED
    BY <1>1, SumOfNone DEF Earned

\* What was earned depends on the students and rewards of the blocks only.
LEMMA EarnedTheSame ==
  ASSUME NEW blocks, Len(blocks) \in Nat, \A i \in 1..Len(blocks) : IsBlock(blocks[i]),
         NEW others, Len(others) \in Nat, \A i \in 1..Len(others) : IsBlock(others[i]),
         NEW first \in Nat \ {0}, NEW last \in Nat, last <= Len(blocks), last <= Len(others),
         \A i \in 1..last : /\ others[i].student_id = blocks[i].student_id
                            /\ others[i].token_reward = blocks[i].token_reward,
         NEW s
  PROVE  /\ Earned(blocks, first, last, s) = Earned(others, first, last, s)
         /\ Earned(blocks, first, last, s) \in Nat
  <1> DEFINE R == Rewarded(blocks, first, last, s)
  <1>1. Rewarded(others, first, last, s) = R
    BY DEF Rewarded
  <1>2. IsFiniteSet(R)
    BY RewardedFacts
  <1>3. \A i \in R : NetRewards(blocks)[i] \in Nat /\ i \in 1..last
    <2>1. \A i \in R : i \in 1..last
      BY DEF Rewarded
    <2>2. last \in 0..Len(blocks)
      OBVIOUS
    <2> QED
      BY <2>1, <2>2, RewardedFacts
  <1>4. \A i \in R : NetRewards(others)[i] = NetRewards(blocks)[i]
    <2> SUFFICES ASSUME NEW i \in R PROVE NetRewards(others)[i] = NetRewards(blocks)[i]
      OBVIOUS
    <2>1. i \in 1..last /\ i \in 1..Len(blocks) /\ i \in 1..Len(others)
      BY <1>3
    <2> QED
      BY <2>1 DEF NetRewards
  <1> HIDE DEF R
  <1>5. /\ SumFunctionOnSet(NetRewards(blocks), R) = SumFunctionOnSet(NetRewards(others), R)
        /\ SumFunctionOnSet(NetRewards(blocks), R) \in Nat
    <2>1. \A i \in R : NetRewards(blocks)[i] \in Int
      BY <1>3
    <2> QED
      BY <1>2, <1>3, <1>4, <2>1, SameSum, SumOfNaturals
  <1> QED
    BY <1>1, <1>5 DEF Earned, R

LEMMA EarnedMore ==
  ASSUME NEW blocks, Len(blocks) \in Nat, \A i \in 1..Len(blocks) : IsBlock(blocks[i]),
         NEW first \in Nat \ {0}, NEW last \in Nat, first <= last, last <= Len(blocks), NEW s
  PROVE  /\ Earned(blocks, first, last - 1, s) \in Nat
         /\ Earned(blocks, first, last, s) =
              IF blocks[last].student_id = s /\ blocks[last].token_reward > 0
              THEN Earned(blocks, first, last - 1, s) + NetReward(blocks[last].token_reward)
              ELSE Earned(blocks, first, last - 1, s)
  <1> DEFINE R == Rewarded(blocks, first, last - 1, s)
             T == Rewarded(blocks, first, last, s)
  <1>1. last - 1 \in 0..Len(blocks) /\ last \in 0..Len(blocks) /\ last - 1 \in Nat
    OBVIOUS
  <1>2. /\ IsFiniteSet(R) /\ last \notin R
        /\ \A i \in T : /\ NetRewards(blocks)[i] \in Nat
                        /\ NetRewards(blocks)[i] = NetReward(blocks[i].token_reward)
    <2>1. last \notin R
      BY DEF Rewarded
    <2>2. IsFiniteSet(R)
      BY <1>1, RewardedFacts
    <2>3. \A i \in T : /\ NetRewards(blocks)[i] \in Nat
                      /\ NetRewards(blocks)[i] = NetReward(blocks[i].token_reward)
      BY <1>1, RewardedFacts
    <2> QED
      BY <2>1, <2>2, <2>3
  <1>3. T = IF blocks[last].student_id = s /\ blocks[last].token_reward > 0
            THEN R \cup {last} ELSE R
    <2>1. \A i \in Int : i \in first..last <=> i \in first..last - 1 \/ i = last
      OBVIOUS
    <2> QED
      BY <2>1 DEF Rewarded
  <1>4. R \subseteq T
    BY <1>3
  <1>5. last \in T => /\ NetRewards(blocks)[last] \in Nat
                      /\ NetRewards(blocks)[last] = NetReward(blocks[last].token_reward)
    BY <1>2
  <1> HIDE DEF R, T
  <1>6. SumFunctionOnSet(NetRewards(blocks), R) \in Nat
    BY <1>2, <1>4, SumOfNaturals
  <1>7. CASE T = R \cup {last}
    <2>1. \A i \in R \cup {last} : NetRewards(blocks)[i] \in Int
      BY <1>2, <1>7
    <2>2. SumFunctionOnSet(NetRewards(blocks), R \cup {last})
            = SumFunctionOnSet(NetRewards(blocks), R) + NetRewards(blocks)[last]
      BY <1>2, <2>1, SumWithOneMore
    <2>3. blocks[last].student_id = s /\ blocks[last].token_reward > 0
      BY <1>2, <1>3, <1>7
    <2> QED
      BY <1>5, <1>6, <1>7, <2>2, <2>3 DEF Earned, R, T
  <1>8. CASE T = R
    <2>1. ~(blocks[last].student_id = s /\ blocks[last].token_reward > 0)
      BY <1>2, <1>3, <1>8
    <2> QED
      BY <1>6, <1>8, <2>1 DEF Earned, R, T
  <1> QED
    BY <1>3, <1>7, <1>8
-----------------------------------------------------------------------------
(* Credits and tables. *)

\* From l to t students lose and gain nothing, and the tables only fill up.
SameForStudents(l, t) ==
  /\ t \in Ledgers /\ TablesOK(t) /\ t.model = l.model /\ l.outputs <= t.outputs
  /\ \A s \in Students : t.credit[s] = l.credit[s]

LEMMA PaidStays ==
  ASSUME NEW l \in Ledgers, NEW t, SameForStudents(l, t), NEW s \in Students, NEW e,
         PaidFor(l, s, e)
  PROVE  PaidFor(t, s, e)
  BY MiningAssumption DEF SameForStudents, PaidFor, Ledgers, TablesOK

LEMMA NoRoom ==
  ASSUME NEW l \in Ledgers, TablesOK(l), NEW s \in Students, ~HasRoom(l, s)
  PROVE  l.model = "utxo" /\ l.outputs = MAX_UTXOS
  BY MiningAssumption DEF Ledgers, LedgerModels, TablesOK, HasRoom

LEMMA CreditedTables ==
  ASSUME NEW l \in Ledgers, TablesOK(l), NEW o \in Owners, HasRoom(l, o), NEW a \in Int
  PROVE  /\ Credited(l, o, a) \in Ledgers /\ TablesOK(Credited(l, o, a))
         /\ Credited(l, o, a).model = l.model /\ l.outputs <= Credited(l, o, a).outputs
         /\ \A s \in Owners :
              Credited(l, o, a).credit[s] =
                IF s = o THEN l.credit[s] + a ELSE l.credit[s]
  <1> DEFINE t == Credited(l, o, a)
  <1>1. t \in Ledgers
    BY CreditType
  <1>2. \A s \in Owners : t.credit[s] = IF s = o THEN l.credit[s] + a ELSE l.credit[s]
    <2>1. l.credit \in [Owners -> Int]
      BY DEF Ledgers
    <2>2. t.credit = [l.credit EXCEPT ![o] = @ + a]
      BY DEF Credited
    <2> HIDE DEF t
    <2> QED
      BY <2>1, <2>2
  <1>3. /\ t.model = l.model
        /\ t.outputs = IF l.model = "utxo" THEN l.outputs + 1 ELSE l.outputs
        /\ t.accounts = IF l.model = "utxo" THEN l.accounts ELSE l.accounts \cup {o}
    BY DEF Credited
  <1>4. l.outputs \in Nat /\ MAX_UTXOS \in Nat
    BY MiningAssumption DEF Ledgers
  <1> HIDE DEF t
  <1>5. TablesOK(t) /\ l.outputs <= t.outputs
    BY <1>3, <1>4 DEF TablesOK, HasRoom
  <1> QED
    BY <1>1, <1>2, <1>3, <1>5 DEF t

LEMMA MinerCredited ==
  ASSUME NamesApart, NEW l \in Ledgers, TablesOK(l), NEW m \in Miners, NEW a \in Int
  PROVE  SameForStudents(l, TryCredit(l, m, a))
  <1>1. m \in Owners /\ Students \subseteq Owners /\ m \notin Students
    BY DEF Owners, NamesApart
  <1>2. CASE HasRoom(l, m)
    <2> DEFINE t == Credited(l, m, a)
    <2>1. /\ t \in Ledgers /\ TablesOK(t) /\ t.model = l.model /\ l.outputs <= t.outputs
          /\ \A s \in Owners : t.credit[s] = IF s = m THEN l.credit[s] + a ELSE l.credit[s]
      BY <1>1, <1>2, CreditedTables
    <2> HIDE DEF t
    <2>2. TryCredit(l, m, a) = t
      BY <1>2 DEF TryCredit, t
    <2> QED
      BY <1>1, <2>1, <2>2 DEF SameForStudents
  <1>3. CASE ~HasRoom(l, m)
    BY <1>3 DEF TryCredit, SameForStudents, Ledgers
  <1> QED
    BY <1>2, <1>3

LEMMA StudentCredited ==
  ASSUME NEW l \in Ledgers, TablesOK(l), NEW s \in Students, NEW a \in Nat
  PROVE  LET t == TryCredit(l, s, a)
         IN  /\ t \in Ledgers /\ TablesOK(t)
             /\ \A e \in Int : PaidFor(l, s, e) => PaidFor(t, s, e + a)
             /\ \A o \in Students \ {s} : \A e \in Int :
                  PaidFor(l, o, e) => PaidFor(t, o, e)
  <1>1. s \in Owners /\ Students \subseteq Owners /\ l.credit \in [Owners -> Int]
    BY DEF Owners, Ledgers
  <1>2. CASE HasRoom(l, s)
    <2> DEFINE t == Credited(l, s, a)
    <2>1. /\ t \in Ledgers /\ TablesOK(t) /\ t.model = l.model /\ l.outputs <= t.outputs
          /\ \A o \in Owners : t.credit[o] = IF o = s THEN l.credit[o] + a ELSE l.credit[o]
      BY <1>1, <1>2, CreditedTables
    <2> HIDE DEF t
    <2>2. TryCredit(l, s, a) = t
      BY <1>2 DEF TryCredit, t
    <2>3. l.outputs = MAX_UTXOS /\ l.model = "utxo" => t.outputs = MAX_UTXOS
      BY <2>1, MiningAssumption DEF TablesOK, Ledgers
    <2>4. \A e \in Int : PaidFor(l, s, e) => PaidFor(t, s, e + a)
      BY <1>1, <2>1, <2>3 DEF PaidFor
    <2>5. \A o \in Students \ {s} : \A e \in Int : PaidFor(l, o, e) => PaidFor(t, o, e)
      BY <1>1, <2>1, <2>3 DEF PaidFor
    <2> QED
      BY <2>1, <2>2, <2>4, <2>5
  <1>3. CASE ~HasRoom(l, s)
    <2>1. TryCredit(l, s, a) = l /\ l.model = "utxo" /\ l.outputs = MAX_UTXOS
      BY <1>3, NoRoom DEF TryCredit
    <2> QED
      BY <1>1, <2>1 DEF PaidFor
  <1> QED
    BY <1>2, <1>3

LEMMA OpenedTables ==
  ASSUME NEW l \in Ledgers, TablesOK(l), NEW id \in Owners \cup TypedIds
  PROVE  SameForStudents(l, Opened(l, id))
  BY DEF Opened, SameForStudents, Ledgers, TablesOK

LEMMA TransferTables ==
  ASSUME NEW l \in Ledgers, TablesOK(l), NEW s \in TypedIds, NEW r \in TypedIds,
         NEW t \in Transferred(l, s, r)
  PROVE  SameForStudents(l, t)
  <1>1. CASE l.model = "account"
    <2>1. t = Opened(Opened(l, s), r)
      BY <1>1 DEF Transferred
    <2>2. SameForStudents(l, Opened(l, s))
      BY OpenedTables
    <2>3. SameForStudents(Opened(l, s), Opened(Opened(l, s), r))
      BY <2>2, OpenedTables DEF SameForStudents
    <2> QED
      BY <2>1, <2>2, <2>3 DEF SameForStudents, Ledgers
  <1>2. CASE /\ l.model = "utxo" /\ {s, r} \subseteq Students /\ s # r
    <2>1. PICK n \in l.outputs..(l.outputs + 2) : n <= MAX_UTXOS /\ t = WithOutputs(l, n)
      BY <1>2 DEF Transferred
    <2>2. n \in Nat /\ l.outputs <= n
      BY <2>1 DEF Ledgers
    <2> QED
      BY <1>2, <2>1, <2>2 DEF WithOutputs, SameForStudents, Ledgers, TablesOK
  <1>3. CASE l.model # "account" /\ ~(l.model = "utxo" /\ {s, r} \subseteq Students /\ s # r)
    <2>1. t = l
      BY <1>3 DEF Transferred
    <2> QED
      BY <2>1 DEF SameForStudents, Ledgers
  <1> QED
    BY <1>1, <1>2, <1>3

LEMMA FreshTables ==
  ASSUME NEW m \in Models
  PROVE  /\ LedgerInit(m) \in Ledgers /\ TablesOK(LedgerInit(m))
         /\ \A o \in Owners : LedgerInit(m).credit[o] = 0
  <1>1. m \in LedgerModels
    BY MiningAssumption
  <1> QED
    BY <1>1, LedgerInitType, MiningAssumption DEF LedgerInit, TablesOK
-----------------------------------------------------------------------------
(* Steps. *)

LEMMA LedgerSteps ==
  ASSUME [Next]_vars
  PROVE  \/ BootFromFile \/ BootFresh \/ Halt \/ MineFront \/ SaveSucceeds \/ SaveFails
         \/ \E i \in 2..Len(chain) : Tamper(i)
         \/ \E m \in Models : SwitchModel(m)
         \/ \E s, r \in TypedIds : Transfer(s, r)
         \/ PayPoolMiner \/ CreditSolo \/ CreditShared \/ FinishMining
         \/ /\ UNCHANGED <<chain, ledger, base>>
            /\ \/ UNCHANGED <<phase, mode>>
               \/ {phase, phase'} \cap {"down", "saving", "crediting"} = {}
  <1> DEFINE Quiet == /\ UNCHANGED <<chain, ledger, base>>
                      /\ \/ UNCHANGED <<phase, mode>>
                         \/ {phase, phase'} \cap {"down", "saving", "crediting"} = {}
  <1>1. ASSUME NEW rate \in HashRates, DrawHashRate(rate) PROVE Quiet
    BY <1>1 DEF DrawHashRate, memory
  <1>2. ASSUME NEW s, NEW status, MarkAttendance(s, status) PROVE Quiet
    BY <1>2 DEF MarkAttendance
  <1>3. ASSUME NEW d, SetDifficulty(d) PROVE Quiet
    BY <1>3 DEF SetDifficulty
  <1>4. StartSolo => Quiet
    BY DEF StartSolo, BeginMining, memory
  <1>5. ASSUME NEW count, StartPool(count) PROVE Quiet
    BY <1>5 DEF StartPool, BeginMining, memory
  <1>6. ASSUME NEW rounds, NEW fees, StartCloud(rounds, fees) PROVE Quiet
    BY <1>6 DEF StartCloud, BeginMining, memory
  <1>7. UNCHANGED vars => Quiet
    BY DEF vars
  <1> HIDE DEF Quiet
  <1>8. CASE Internal
    BY <1>1, <1>8 DEF Internal, Quiet
  <1>9. CASE Command
    BY <1>2, <1>3, <1>4, <1>5, <1>6, <1>9, TamperInRange DEF Command, Quit, Quiet
  <1>10. CASE BootFromFile \/ BootFresh \/ Crash
    BY <1>10 DEF Crash
  <1> QED
    BY <1>7, <1>8, <1>9, <1>10 DEF Next, Quiet

LEMMA DueFacts ==
  ASSUME TypeOK, phase # "down"
  PROVE  /\ IsBlockSeq(chain) /\ Len(chain) \in Nat \ {0} /\ base \in Nat
         /\ Due \in Nat /\ Due <= Len(chain) /\ ledger \in Ledgers
         /\ phase = "crediting" \/ (phase = "saving" /\ mode \in MiningModes)
              => Due + 1 = Len(chain)
  <1>1. IsBlockSeq(chain) /\ base \in Nat /\ ledger \in Ledgers /\ chain # <<>>
    BY DEF TypeOK, IsChain, CountersOK, PhaseOK
  <1>2. Len(chain) \in Nat \ {0}
    BY <1>1 DEF IsBlockSeq
  <1> QED
    BY <1>1, <1>2 DEF Due

\* The blocks of which the students' claims speak stay what they are.
Agree(blocks, others, last) ==
  /\ last <= Len(blocks) /\ last <= Len(others)
  /\ \A i \in 1..last : /\ others[i].student_id = blocks[i].student_id
                        /\ others[i].token_reward = blocks[i].token_reward

LEMMA StudentsStayPaid ==
  ASSUME TypeOK, TypeOK', StudentsPaid, phase # "down", phase' # "down",
         SameForStudents(ledger, ledger'), base' = base, Due' = Due,
         Agree(chain, chain', Due)
  PROVE  StudentsPaid'
  <1>1. /\ Len(chain) \in Nat /\ Len(chain') \in Nat /\ base \in Nat /\ Due \in Nat
        /\ \A i \in 1..Len(chain) : IsBlock(chain[i])
        /\ \A i \in 1..Len(chain') : IsBlock(chain'[i])
        /\ ledger \in Ledgers
    BY DueFacts DEF IsBlockSeq, TypeOK, IsChain
  <1>2. \A s \in Students :
          Earned(chain', base + 1, Due, s) = Earned(chain, base + 1, Due, s)
    BY <1>1, EarnedTheSame, SMTT(30) DEF Agree
  <1>3. base <= Due /\ \A s \in Students : PaidFor(ledger, s, Earned(chain, base + 1, Due, s))
    BY DEF StudentsPaid
  <1>4. \A s \in Students : PaidFor(ledger', s, Earned(chain, base + 1, Due, s))
    BY <1>1, <1>3, PaidStays
  <1> QED
    BY <1>2, <1>3, <1>4 DEF StudentsPaid, SameForStudents

LEMMA SameLedger ==
  ASSUME TypeOK, StudentsPaid, phase # "down" PROVE SameForStudents(ledger, ledger)
  BY DEF SameForStudents, StudentsPaid, TypeOK, Ledgers

\* With a new ledger nobody has anything and no block counts.
LEMMA NewLedgerPays ==
  ASSUME TypeOK', NEW m \in Models, ledger' = LedgerInit(m), base' = Due', phase' # "down"
  PROVE  StudentsPaid'
  <1>1. base' \in Int
    BY DEF TypeOK, CountersOK
  <1>2. \A s \in Students : Earned(chain', base' + 1, base', s) = 0
    BY <1>1, EarnedNothing
  <1>3. TablesOK(ledger') /\ \A s \in Students : ledger'.credit[s] = 0
    BY FreshTables DEF Owners
  <1> QED
    BY <1>1, <1>2, <1>3 DEF StudentsPaid, PaidFor

LEMMA StudentsBoot ==
  ASSUME TypeOK, TypeOK', BootFromFile \/ BootFresh PROVE StudentsPaid'
  <1>1. PICK m \in Models : ledger' = LedgerInit(m)
    BY DEF BootFromFile, BootFresh, Start
  <1>2. phase' # "down" /\ base' = Len(chain')
    <2>1. CASE BootFromFile
      BY <2>1 DEF BootFromFile
    <2>2. CASE BootFresh
      BY <2>2 DEF BootFresh
    <2> QED
      BY <2>1, <2>2
  <1>3. Due' = Len(chain')
    BY DEF BootFromFile, BootFresh, Due, MiningModes
  <1> QED
    BY <1>1, <1>2, <1>3, NewLedgerPays

LEMMA StudentsMineFront ==
  ASSUME TypeOK, TypeOK', StudentsPaid, MineFront PROVE StudentsPaid'
  <1>1. /\ IsBlockSeq(chain) /\ Len(chain) \in Nat \ {0} /\ phase = "mining"
        /\ \/ UNCHANGED chain /\ phase' = "idle"
           \/ /\ phase' = "saving" /\ mode' = mode /\ mode \in MiningModes
              /\ \E b : IsBlock(b) /\ chain' = Append(chain, b)
    <2>1. phase = "mining" => mode \in MiningModes
      BY DEF TypeOK, PhaseOK
    <2> QED
      BY <2>1, MineFrontStep
  <1>2. UNCHANGED <<ledger, base>> /\ Due = Len(chain)
    BY <1>1 DEF MineFront, Due
  <1>3. CASE UNCHANGED chain /\ phase' = "idle"
    BY <1>1, <1>2, <1>3, SameLedger, StudentsStayPaid DEF Due, Agree
  <1>4. CASE phase' = "saving" /\ mode' = mode /\ mode \in MiningModes
             /\ \E b : IsBlock(b) /\ chain' = Append(chain, b)
    <2>1. PICK b : IsBlock(b) /\ chain' = Append(chain, b)
      BY <1>4
    <2>2. /\ Len(chain') = Len(chain) + 1
          /\ \A i \in 1..Len(chain) : chain'[i] = chain[i]
      BY <1>1, <2>1, AppendBlockSeq
    <2>3. Due' = Due /\ Agree(chain, chain', Due)
      BY <1>1, <1>2, <1>4, <2>2 DEF Due, Agree
    <2> QED
      BY <1>1, <1>2, <1>4, <2>3, SameLedger, StudentsStayPaid
  <1> QED
    BY <1>1, <1>3, <1>4

LEMMA StudentsTamper ==
  ASSUME TypeOK, TypeOK', StudentsPaid, NEW i \in 2..Len(chain), Tamper(i)
  PROVE  StudentsPaid'
  <1>1. /\ Len(chain') = Len(chain) /\ IsBlockSeq(chain) /\ phase = "idle"
        /\ \A j \in 1..Len(chain) :
             chain'[j] = IF j = i THEN Tampered(chain[j]) ELSE chain[j]
        /\ UNCHANGED <<ledger, base>>
        /\ \/ phase' = "saving" /\ mode' = "tamper"
           \/ phase' = "idle"
    BY TamperStep DEF Tamper
  <1>2. \A b : IsBlock(b) => /\ Tampered(b).student_id = b.student_id
                             /\ Tampered(b).token_reward = b.token_reward
    BY DEF IsBlock, Tampered
  <1>3. \A j \in 1..Len(chain) : /\ chain'[j].student_id = chain[j].student_id
                                 /\ chain'[j].token_reward = chain[j].token_reward
    BY <1>1, <1>2 DEF IsBlockSeq
  <1>4. Due = Len(chain) /\ Due' = Len(chain) /\ Agree(chain, chain', Due)
    BY <1>1, <1>3 DEF Due, Agree, MiningModes, IsBlockSeq
  <1> QED
    BY <1>1, <1>4, SameLedger, StudentsStayPaid

LEMMA StudentsSave ==
  ASSUME TypeOK, TypeOK', StudentsPaid, SaveSucceeds \/ SaveFails, phase' # "down"
  PROVE  StudentsPaid'
  <1>1. /\ phase = "saving" /\ IsBlockSeq(chain) /\ Len(chain) \in Nat \ {0}
        /\ mode \in MiningModes \cup {"boot", "tamper"}
        /\ Due = IF mode \in MiningModes THEN Len(chain) - 1 ELSE Len(chain)
    <2>1. phase = "saving"
      BY DEF SaveSucceeds, SaveFails
    <2> QED
      BY <2>1, DueFacts DEF Due, TypeOK, PhaseOK
  <1>2. "boot" \notin MiningModes /\ "tamper" \notin MiningModes
    BY DEF MiningModes
  <1>3. CASE SaveSucceeds
    <2>1. UNCHANGED <<chain, ledger, base>> /\ Due' = Due
      BY <1>1, <1>2, <1>3 DEF SaveSucceeds, memory, Done, Due
    <2> QED
      BY <1>1, <2>1, SameLedger, StudentsStayPaid DEF Agree
  <1>4. CASE SaveFails
    <2>1. /\ UNCHANGED <<ledger, base>> /\ phase' = "idle" /\ Due' = Len(chain')
          /\ mode # "boot"
      BY <1>4 DEF SaveFails, Halt, Done, Due
    <2>2. \/ mode = "tamper" /\ UNCHANGED chain
          \/ /\ mode \in MiningModes /\ Len(chain') = Len(chain) - 1
             /\ \A j \in 1..Len(chain') : chain'[j] = chain[j]
      <3>1. chain' # <<>>
        BY <2>1 DEF TypeOK, PhaseOK
      <3> QED
        BY <1>1, <1>4, <2>1, <3>1, SaveFailsStep
    <2>3. Due' = Due /\ Agree(chain, chain', Due)
      BY <1>1, <1>2, <2>1, <2>2 DEF Agree
    <2> QED
      BY <1>1, <2>1, <2>3, SameLedger, StudentsStayPaid
  <1> QED
    BY <1>3, <1>4

\* The ledger after the student of the tip was credited, by any command.
AfterStudent ==
  LET b == Tip(chain)
  IN  IF b.token_reward > 0
      THEN TryCredit(ledger, b.student_id, NetReward(b.token_reward)) ELSE ledger

LEMMA StudentOfTip ==
  ASSUME TypeOK, StudentsPaid, phase = "crediting"
  PROVE  /\ AfterStudent \in Ledgers /\ TablesOK(AfterStudent)
         /\ base <= Len(chain)
         /\ \A s \in Students :
              PaidFor(AfterStudent, s, Earned(chain, base + 1, Len(chain), s))
  <1> DEFINE b == Tip(chain)
             n == Len(chain)
             t == AfterStudent
             before(s) == Earned(chain, base + 1, n - 1, s)
             after(s) == Earned(chain, base + 1, n, s)
  <1>1. /\ n \in Nat /\ Due = n - 1 /\ base \in Nat /\ base <= Due /\ base + 1 <= n
        /\ \A i \in 1..n : IsBlock(chain[i])
        /\ n \in 1..n /\ n >= 2 /\ b = chain[n]
        /\ ledger \in Ledgers /\ TablesOK(ledger)
        /\ \A s \in Students : PaidFor(ledger, s, before(s))
    BY DueFacts DEF StudentsPaid, Due, TypeOK, PhaseOK, IsBlockSeq, Tip
  <1>2. b.student_id \in Students /\ b.token_reward \in Nat
    <2>1. n \in 2..Len(chain)
      BY <1>1
    <2>2. chain[n].student_id \in Students /\ IsBlock(chain[n])
      BY <1>1, <2>1 DEF TypeOK, IsChain
    <2> QED
      BY <1>1, <2>2 DEF IsBlock
  <1>3. \A s \in Students :
          /\ before(s) \in Nat
          /\ after(s) = IF b.student_id = s /\ b.token_reward > 0
                        THEN before(s) + NetReward(b.token_reward) ELSE before(s)
    <2>1. base + 1 \in Nat \ {0} /\ n \in Nat /\ n <= Len(chain) /\ Len(chain) \in Nat
      BY <1>1
    <2>2. \A i \in 1..Len(chain) : IsBlock(chain[i])
      BY <1>1
    <2>3. b = chain[n]
      BY <1>1
    <2>4. base + 1 <= n
      BY <1>1
    <2> HIDE DEF n, b
    <2>5. ASSUME NEW s
          PROVE  /\ Earned(chain, base + 1, n - 1, s) \in Nat
                 /\ Earned(chain, base + 1, n, s) =
                      IF chain[n].student_id = s /\ chain[n].token_reward > 0
                      THEN Earned(chain, base + 1, n - 1, s)
                             + NetReward(chain[n].token_reward)
                      ELSE Earned(chain, base + 1, n - 1, s)
      BY <2>1, <2>2, <2>4, EarnedMore
    <2> QED
      BY <2>3, <2>5
  <1>4. b.token_reward > 0 => NetReward(b.token_reward) \in Nat
    BY <1>2 DEF NetReward, TX_FEE
  <1>5. t = IF b.token_reward > 0
            THEN TryCredit(ledger, b.student_id, NetReward(b.token_reward)) ELSE ledger
    BY DEF AfterStudent
  <1> HIDE DEF b, n, t, before, after
  <1>6. CASE b.token_reward > 0
    <2>1. /\ t \in Ledgers /\ TablesOK(t)
          /\ \A e \in Int : PaidFor(ledger, b.student_id, e)
               => PaidFor(t, b.student_id, e + NetReward(b.token_reward))
          /\ \A o \in Students \ {b.student_id} : \A e \in Int :
               PaidFor(ledger, o, e) => PaidFor(t, o, e)
      <3> DEFINE a == NetReward(b.token_reward)
      <3>1. a \in Nat /\ t = TryCredit(ledger, b.student_id, a)
        BY <1>4, <1>5, <1>6
      <3> HIDE DEF a
      <3>2. /\ t \in Ledgers /\ TablesOK(t)
            /\ \A e \in Int : PaidFor(ledger, b.student_id, e)
                 => PaidFor(t, b.student_id, e + a)
            /\ \A o \in Students \ {b.student_id} : \A e \in Int :
                 PaidFor(ledger, o, e) => PaidFor(t, o, e)
        BY <1>1, <1>2, <3>1, StudentCredited
      <3> QED
        BY <3>2 DEF a
    <2>2. ASSUME NEW s \in Students PROVE PaidFor(t, s, after(s))
      <3>0. before(s) \in Int
        BY <1>3
      <3>1. CASE s = b.student_id
        BY <1>1, <1>3, <1>6, <2>1, <3>0, <3>1
      <3>2. CASE s # b.student_id
        BY <1>1, <1>3, <2>1, <3>0, <3>2
      <3> QED
        BY <3>1, <3>2
    <2> QED
      BY <1>1, <2>1, <2>2 DEF t, n, after
  <1>7. CASE ~(b.token_reward > 0)
    <2>1. t = ledger /\ \A s \in Students : after(s) = before(s)
      BY <1>3, <1>5, <1>7
    <2> QED
      BY <1>1, <2>1 DEF t, n, after
  <1> QED
    BY <1>6, <1>7

\* Solo mining pays the student, where there is room, and then the miner.
LEMMA SoloCredits ==
  ASSUME TypeOK, StudentsPaid, CreditSolo
  PROVE  /\ UNCHANGED <<chain, base, pool>> /\ phase = "crediting" /\ mode = "solo"
         /\ phase' \in {"mining", "idle"}
         /\ \/ ledger' = AfterStudent /\ ~HasRoom(ledger', SOLO_MINER)
            \/ /\ HasRoom(AfterStudent, SOLO_MINER)
               /\ ledger' = TryCredit(AfterStudent, SOLO_MINER, MINING_REWARD)
  <1> DEFINE b == Tip(chain)
             rewarded == Credited(ledger, b.student_id, NetReward(b.token_reward))
             afterStudent == IF b.token_reward > 0 THEN rewarded ELSE ledger
             full == b.token_reward > 0 /\ ~HasRoom(ledger, b.student_id)
  <1>1. /\ UNCHANGED <<chain, base, pool>> /\ phase = "crediting" /\ mode = "solo"
        /\ \/ full /\ Done /\ UNCHANGED ledger
           \/ ~full /\ Done /\ ledger' = afterStudent /\ ~HasRoom(afterStudent, SOLO_MINER)
           \/ /\ ~full /\ HasRoom(afterStudent, SOLO_MINER)
              /\ ledger' = Credited(afterStudent, SOLO_MINER, MINING_REWARD)
              /\ phase' = "mining" /\ mode' = mode
    BY DEF CreditSolo
  <1>2. full => AfterStudent = ledger
    BY DEF AfterStudent, TryCredit
  <1>3. ~full => AfterStudent = afterStudent
    BY DEF AfterStudent, TryCredit
  <1>4. Done => phase' = "idle"
    BY DEF Done
  <1>5. full => ~HasRoom(ledger, SOLO_MINER)
    <2>1. b.student_id \in Students
      <3>1. Len(chain) \in 2..Len(chain) /\ b = chain[Len(chain)]
        BY <1>1, DueFacts DEF TypeOK, PhaseOK, Tip
      <3> QED
        BY <3>1 DEF TypeOK, IsChain
    <2>2. ledger \in Ledgers /\ TablesOK(ledger)
      BY <1>1 DEF TypeOK, StudentsPaid
    <2>3. full => ledger.model = "utxo" /\ ledger.outputs = MAX_UTXOS
      BY <2>1, <2>2, NoRoom
    <2> QED
      BY <2>3, MiningAssumption DEF HasRoom
  <1> HIDE DEF full, afterStudent
  <1> QED
    BY <1>1, <1>2, <1>3, <1>4, <1>5 DEF TryCredit

LEMMA StudentsCredit ==
  ASSUME NamesApart, TypeOK, TypeOK', StudentsPaid, CreditSolo \/ CreditShared
  PROVE  StudentsPaid'
  <1>1. /\ UNCHANGED <<chain, base>> /\ phase = "crediting" /\ phase' \in {"mining", "idle"}
        /\ \/ ledger' = AfterStudent
           \/ ledger' = TryCredit(AfterStudent, SOLO_MINER, MINING_REWARD)
    <2>1. CASE CreditSolo
      BY <2>1, SoloCredits
    <2>2. CASE CreditShared
      BY <2>2 DEF CreditShared, AfterStudent
    <2> QED
      BY <2>1, <2>2
  <1>2. /\ AfterStudent \in Ledgers /\ TablesOK(AfterStudent) /\ base <= Len(chain)
        /\ \A s \in Students :
             PaidFor(AfterStudent, s, Earned(chain, base + 1, Len(chain), s))
    BY <1>1, StudentOfTip
  <1>3. SOLO_MINER \in Miners /\ MINING_REWARD \in Int
    BY MiningAssumption DEF MINING_REWARD
  <1>4. SameForStudents(AfterStudent, ledger')
    <2>1. SameForStudents(AfterStudent, AfterStudent)
      BY <1>2 DEF SameForStudents, Ledgers
    <2>2. SameForStudents(AfterStudent, TryCredit(AfterStudent, SOLO_MINER, MINING_REWARD))
      BY <1>2, <1>3, MinerCredited
    <2> QED
      BY <1>1, <2>1, <2>2
  <1>5. \A s \in Students : PaidFor(ledger', s, Earned(chain, base + 1, Len(chain), s))
    BY <1>2, <1>4, PaidStays
  <1>6. Due' = Len(chain)
    BY <1>1 DEF Due
  <1> QED
    BY <1>1, <1>2, <1>4, <1>5, <1>6 DEF StudentsPaid, SameForStudents

LEMMA StudentsOthers ==
  ASSUME NamesApart, TypeOK, TypeOK', StudentsPaid,
         \/ \E s, r \in TypedIds : Transfer(s, r)
         \/ PayPoolMiner \/ FinishMining
  PROVE  StudentsPaid'
  <1>1. /\ UNCHANGED <<chain, base>>
        /\ {phase, phase'} \cap {"down", "saving", "crediting"} = {}
    BY DEF Transfer, PayPoolMiner, FinishMining, Done
  <1>2. ledger \in Ledgers /\ TablesOK(ledger) /\ IsBlockSeq(chain)
    BY <1>1, DueFacts DEF StudentsPaid
  <1>3. SameForStudents(ledger, ledger')
    <2>1. CASE \E s, r \in TypedIds : Transfer(s, r)
      BY <1>2, <2>1, TransferTables DEF Transfer
    <2>2. CASE PayPoolMiner
      <3> DEFINE miner == PoolMiner[miners - Len(attempts) + 1]
                 share == (Head(attempts) * earnings) \div total
      <3>1. ledger' \in {ledger, TryCredit(ledger, miner, share)}
        BY <2>2 DEF PayPoolMiner
      <3>2. miner \in Miners /\ share \in Int
        <4>1. /\ attempts \in Seq(HashRates) /\ attempts # <<>> /\ total \in Nat \ {0}
              /\ Len(attempts) \in 1..miners /\ miners \in 1..MAX_POOL_MINERS
          BY <2>2, MiningAssumption DEF PayPoolMiner, TypeOK, PoolJobOK
        <4>2. miners - Len(attempts) + 1 \in 1..MAX_POOL_MINERS
          BY <4>1, MiningAssumption
        <4>3. Head(attempts) \in Int /\ earnings \in Int
          <5>1. Head(attempts) \in HashRates
            BY <4>1, TailFacts
          <5>2. HashRates \subseteq Int /\ earnings \in Int
            BY MiningAssumption DEF TypeOK, PoolJobOK
          <5> QED
            BY <5>1, <5>2
        <4> QED
          BY <4>1, <4>2, <4>3, MiningAssumption
      <3> HIDE DEF miner, share
      <3>3. SameForStudents(ledger, TryCredit(ledger, miner, share))
        BY <1>2, <3>2, MinerCredited
      <3> QED
        BY <1>1, <3>1, <3>3, SameLedger
    <2>3. CASE FinishMining
      <3>1. ledger' \in {ledger, TryCredit(ledger, CLOUD_USER, earnings)}
        BY <2>3 DEF FinishMining
      <3>2. SameForStudents(ledger, TryCredit(ledger, CLOUD_USER, earnings))
        BY <1>2, MinerCredited, MiningAssumption DEF TypeOK, PoolJobOK
      <3> QED
        BY <1>1, <3>1, <3>2, SameLedger
    <2> QED
      BY <2>1, <2>2, <2>3
  <1>4. Due' = Due /\ Agree(chain, chain', Due)
    BY <1>1, DueFacts DEF Due, Agree
  <1> QED
    BY <1>1, <1>3, <1>4, StudentsStayPaid

LEMMA StudentsInEveryStep ==
  ASSUME NamesApart, TypeOK, TypeOK', StudentsPaid, [Next]_vars PROVE StudentsPaid'
  <1>1. CASE BootFromFile \/ BootFresh
    BY <1>1, StudentsBoot
  <1>2. CASE Halt
    BY <1>2 DEF Halt, StudentsPaid
  <1>3. CASE MineFront
    BY <1>3, StudentsMineFront
  <1>4. CASE SaveSucceeds \/ SaveFails
    BY <1>4, StudentsSave DEF StudentsPaid
  <1>5. CASE \E i \in 2..Len(chain) : Tamper(i)
    BY <1>5, StudentsTamper
  <1>6. CASE \E m \in Models : SwitchModel(m)
    <2>1. PICK m \in Models : SwitchModel(m)
      BY <1>6
    <2>2. /\ ledger' = LedgerInit(m) /\ base' = Len(chain) /\ phase' = "idle"
          /\ UNCHANGED chain
      BY <2>1 DEF SwitchModel
    <2>3. Due' = Len(chain)
      BY <2>2 DEF Due
    <2> QED
      BY <2>2, <2>3, NewLedgerPays
  <1>7. CASE \/ \E s, r \in TypedIds : Transfer(s, r)
             \/ PayPoolMiner \/ FinishMining
    BY <1>7, StudentsOthers
  <1>8. CASE CreditSolo \/ CreditShared
    BY <1>8, StudentsCredit
  <1>9. CASE /\ UNCHANGED <<chain, ledger, base>>
             /\ \/ UNCHANGED <<phase, mode>>
                \/ {phase, phase'} \cap {"down", "saving", "crediting"} = {}
    <2>1. CASE phase = "down"
      BY <1>9, <2>1 DEF StudentsPaid
    <2>2. CASE phase # "down"
      <3>1. phase' # "down" /\ Due' = Due /\ Agree(chain, chain', Due)
        BY <1>9, <2>2, DueFacts DEF Due, Agree
      <3> QED
        BY <1>9, <2>2, <3>1, SameLedger, StudentsStayPaid
    <2> QED
      BY <2>1, <2>2
  <1> QED
    BY <1>1, <1>2, <1>3, <1>4, <1>5, <1>6, <1>7, <1>8, <1>9, LedgerSteps

LEMMA PaidMatchesChain == StudentsPaid => CreditsMatchChain
  BY DEF StudentsPaid, CreditsMatchChain, Due, PaidFor, Earned, EarnedInChain, NetRewards,
    Rewarded

\* At the prompt every student has exactly the net rewards of the blocks that
\* were confirmed since the ledger was reset, or fewer if the table of outputs
\* is full, whichever commands mined them and whatever failed in between:
\* saves, opens, kills, full chains and full tables (mining.c, ledger_credit).
THEOREM StudentsArePaid == ASSUME NamesApart PROVE Spec => []CreditsMatchChain
  <1>1. Init => StudentsPaid
    BY DEF Init, StudentsPaid
  <1>2. TypeOK /\ TypeOK' /\ StudentsPaid /\ [Next]_vars => StudentsPaid'
    BY StudentsInEveryStep
  <1> QED
    BY <1>1, <1>2, TypeCorrect, PaidMatchesChain, PTL DEF Spec
-----------------------------------------------------------------------------
(* What the solo miner has. *)

\* From l to t the solo miner loses and gains nothing, and no room is made.
SameForSolo(l, t) ==
  /\ t.credit[SOLO_MINER] = l.credit[SOLO_MINER]
  /\ HasRoom(t, SOLO_MINER) => HasRoom(l, SOLO_MINER)

\* Tables only fill up, but for whoever gets an account there was room for.
LEMMA RoomShrinks ==
  ASSUME NEW l \in Ledgers, NEW t \in Ledgers, t.model = l.model, l.outputs <= t.outputs,
         l.accounts \subseteq t.accounts, NEW id, HasRoom(t, id),
         id \in t.accounts \ l.accounts => HasRoom(l, id)
  PROVE  HasRoom(l, id)
  <1>1. CASE l.model = "utxo"
    <2>1. t.outputs < MAX_UTXOS
      BY <1>1 DEF HasRoom
    <2> QED
      BY <1>1, <2>1, MiningAssumption DEF HasRoom, Ledgers
  <1>2. CASE l.model = "account" /\ id \in t.accounts
    BY <1>2 DEF HasRoom
  <1>3. CASE l.model = "account" /\ id \notin t.accounts
    <2>1. Cardinality(t.accounts) < MAX_STUDENTS
      BY <1>3 DEF HasRoom
    <2>2. IsFiniteSet(t.accounts)
      <3>1. t.accounts \subseteq Owners \cup TypedIds
        BY DEF Ledgers
      <3> QED
        BY <3>1, FS_Subset, MiningAssumption
    <2>3. /\ Cardinality(l.accounts) \in Nat /\ Cardinality(t.accounts) \in Nat
          /\ Cardinality(l.accounts) <= Cardinality(t.accounts)
      BY <2>2, FS_Subset, FS_CardinalityType
    <2>4. Cardinality(l.accounts) < MAX_STUDENTS
      BY <2>1, <2>3, MiningAssumption
    <2> QED
      BY <1>3, <2>4 DEF HasRoom
  <1>4. l.model \in {"utxo", "account"}
    BY <1>1, <1>2, <1>3 DEF Ledgers, LedgerModels
  <1> QED
    BY <1>1, <1>2, <1>3, <1>4

LEMMA OtherCredited ==
  ASSUME NEW l \in Ledgers, TablesOK(l), NEW o \in Owners, o # SOLO_MINER, NEW a \in Int
  PROVE  SameForSolo(l, TryCredit(l, o, a))
  <1>1. SOLO_MINER \in Owners
    BY MiningAssumption DEF Owners
  <1>2. CASE HasRoom(l, o)
    <2> DEFINE t == Credited(l, o, a)
    <2>1. /\ t \in Ledgers /\ t.model = l.model /\ l.outputs <= t.outputs
          /\ t.credit[SOLO_MINER] = l.credit[SOLO_MINER]
      BY <1>1, <1>2, CreditedTables
    <2>2. l.accounts \subseteq t.accounts /\ t.accounts \subseteq l.accounts \cup {o}
      BY DEF Credited
    <2>3. TryCredit(l, o, a) = t
      BY <1>2 DEF TryCredit
    <2> HIDE DEF t
    <2>4. HasRoom(t, SOLO_MINER) => HasRoom(l, SOLO_MINER)
      BY <2>1, <2>2, RoomShrinks
    <2> QED
      BY <2>1, <2>3, <2>4 DEF SameForSolo
  <1>3. CASE ~HasRoom(l, o)
    BY <1>3 DEF TryCredit, SameForSolo
  <1> QED
    BY <1>2, <1>3

LEMMA SoloCredited ==
  ASSUME NEW l \in Ledgers, TablesOK(l), HasRoom(l, SOLO_MINER)
  PROVE  LET t == TryCredit(l, SOLO_MINER, MINING_REWARD)
         IN  t.credit[SOLO_MINER] = l.credit[SOLO_MINER] + MINING_REWARD
  <1>1. SOLO_MINER \in Owners /\ MINING_REWARD \in Int
    BY MiningAssumption DEF Owners, MINING_REWARD
  <1> QED
    BY <1>1, CreditedTables DEF TryCredit

LEMMA OpenedForSolo ==
  ASSUME NEW l \in Ledgers, NEW id \in Owners \cup TypedIds
  PROVE  SameForSolo(l, Opened(l, id)) /\ Opened(l, id) \in Ledgers
  <1> DEFINE t == Opened(l, id)
  <1>1. /\ t \in Ledgers /\ t.model = l.model /\ t.outputs = l.outputs
        /\ t.credit = l.credit
    BY DEF Opened, Ledgers
  <1>2. /\ l.accounts \subseteq t.accounts
        /\ id \in t.accounts \ l.accounts => HasRoom(l, id)
        /\ t.accounts \subseteq l.accounts \cup {id}
    BY DEF Opened
  <1> HIDE DEF t
  <1>3. l.outputs <= t.outputs
    BY <1>1 DEF Ledgers
  <1>4. HasRoom(t, SOLO_MINER) => HasRoom(l, SOLO_MINER)
    BY <1>1, <1>2, <1>3, RoomShrinks
  <1> QED
    BY <1>1, <1>4 DEF SameForSolo, t

LEMMA TransferForSolo ==
  ASSUME NEW l \in Ledgers, NEW s \in TypedIds, NEW r \in TypedIds,
         NEW t \in Transferred(l, s, r)
  PROVE  SameForSolo(l, t)
  <1>1. CASE l.model = "account"
    <2>1. t = Opened(Opened(l, s), r)
      BY <1>1 DEF Transferred
    <2>2. SameForSolo(l, Opened(l, s)) /\ Opened(l, s) \in Ledgers
      BY OpenedForSolo
    <2>3. SameForSolo(Opened(l, s), Opened(Opened(l, s), r))
      BY <2>2, OpenedForSolo
    <2> QED
      BY <2>1, <2>2, <2>3 DEF SameForSolo
  <1>2. CASE l.model = "utxo" /\ {s, r} \subseteq Students /\ s # r
    <2>1. PICK n \in l.outputs..(l.outputs + 2) : t = WithOutputs(l, n)
      BY <1>2 DEF Transferred
    <2>2. n \in Nat /\ l.outputs <= n /\ l.outputs \in Nat
      BY <2>1 DEF Ledgers
    <2>3. /\ t.credit = l.credit /\ t.model = l.model /\ t.outputs = n
          /\ t.accounts = l.accounts
      BY <2>1 DEF WithOutputs
    <2> QED
      BY <1>2, <2>2, <2>3, MiningAssumption DEF SameForSolo, HasRoom
  <1>3. CASE l.model # "account" /\ ~(l.model = "utxo" /\ {s, r} \subseteq Students /\ s # r)
    <2>1. t = l
      BY <1>3 DEF Transferred
    <2> QED
      BY <2>1 DEF SameForSolo
  <1> QED
    BY <1>1, <1>2, <1>3
-----------------------------------------------------------------------------
(* Steps that pay nobody, and steps that settle a block. *)

\* But for credits, transfers and resets, a step leaves the ledger alone and
\* settles no block: one that is mined is due when it has been credited.
LEMMA NothingSettled ==
  ASSUME TypeOK, TypeOK', [Next]_vars, phase # "down", phase' # "down"
  PROVE  \/ UNCHANGED <<ledger, base>> /\ Due' = Due
         \/ \E m \in Models : SwitchModel(m)
         \/ \E s, r \in TypedIds : Transfer(s, r)
         \/ PayPoolMiner \/ CreditSolo \/ CreditShared \/ FinishMining
  <1>1. ~Halt /\ ~BootFromFile /\ ~BootFresh
    BY DEF Halt, BootFromFile, BootFresh, Start
  <1>2. CASE MineFront
    <2>1. /\ IsBlockSeq(chain) /\ Len(chain) \in Nat \ {0} /\ phase = "mining"
          /\ \/ UNCHANGED chain /\ phase' = "idle"
             \/ /\ phase' = "saving" /\ mode' = mode /\ mode \in MiningModes
                /\ \E b : IsBlock(b) /\ chain' = Append(chain, b)
      <3>1. phase = "mining" => mode \in MiningModes
        BY DEF TypeOK, PhaseOK
      <3> QED
        BY <1>2, <3>1, MineFrontStep
    <2>2. UNCHANGED <<ledger, base>> /\ Due = Len(chain)
      BY <1>2, <2>1 DEF MineFront, Due
    <2>3. CASE UNCHANGED chain /\ phase' = "idle"
      BY <2>2, <2>3 DEF Due
    <2>4. CASE phase' = "saving" /\ mode' = mode /\ mode \in MiningModes
               /\ \E b : IsBlock(b) /\ chain' = Append(chain, b)
      <3>1. PICK b : IsBlock(b) /\ chain' = Append(chain, b)
        BY <2>4
      <3>2. Len(chain') = Len(chain) + 1
        BY <2>1, <3>1, AppendBlockSeq
      <3> QED
        BY <2>1, <2>2, <2>4, <3>2 DEF Due
    <2> QED
      BY <2>1, <2>3, <2>4
  <1>3. CASE SaveSucceeds \/ SaveFails
    <2>1. /\ phase = "saving" /\ IsBlockSeq(chain) /\ Len(chain) \in Nat \ {0}
          /\ mode \in MiningModes \cup {"boot", "tamper"}
          /\ Due = IF mode \in MiningModes THEN Len(chain) - 1 ELSE Len(chain)
      <3>1. phase = "saving"
        BY <1>3 DEF SaveSucceeds, SaveFails
      <3> QED
        BY <3>1, DueFacts DEF Due, TypeOK, PhaseOK
    <2>2. "boot" \notin MiningModes /\ "tamper" \notin MiningModes
      BY DEF MiningModes
    <2>3. CASE SaveSucceeds
      BY <2>1, <2>2, <2>3 DEF SaveSucceeds, memory, Done, Due
    <2>4. CASE SaveFails
      <3>1. /\ UNCHANGED <<ledger, base>> /\ phase' = "idle" /\ Due' = Len(chain')
            /\ mode # "boot"
        BY <1>1, <2>4 DEF SaveFails, Done, Due
      <3>2. \/ mode = "tamper" /\ UNCHANGED chain
            \/ mode \in MiningModes /\ Len(chain') = Len(chain) - 1
        <4>1. chain' # <<>>
          BY <3>1 DEF TypeOK, PhaseOK
        <4> QED
          BY <2>1, <2>4, <3>1, <4>1, SaveFailsStep
      <3> QED
        BY <2>1, <2>2, <3>1, <3>2
    <2> QED
      BY <1>3, <2>3, <2>4
  <1>4. CASE \E i \in 2..Len(chain) : Tamper(i)
    <2>1. PICK i \in 2..Len(chain) : Tamper(i)
      BY <1>4
    <2>2. /\ Len(chain') = Len(chain) /\ phase = "idle" /\ UNCHANGED <<ledger, base>>
          /\ \/ phase' = "saving" /\ mode' = "tamper"
             \/ phase' = "idle"
      BY <2>1, TamperStep DEF Tamper
    <2> QED
      BY <2>2 DEF Due, MiningModes
  <1>5. CASE /\ UNCHANGED <<chain, ledger, base>>
             /\ \/ UNCHANGED <<phase, mode>>
                \/ {phase, phase'} \cap {"down", "saving", "crediting"} = {}
    BY <1>5 DEF Due
  <1> QED
    BY <1>1, <1>2, <1>3, <1>4, <1>5, LedgerSteps

LEMMA ModeStaysInUse == TypeOK /\ ModeInUse /\ [Next]_vars => ModeInUse'
  <1> SUFFICES ASSUME TypeOK, ModeInUse, [Next]_vars PROVE ModeInUse'
    OBVIOUS
  <1> USE DEF ModeInUse
  <1>1. {"none", "boot", "tamper"} \cap MiningModes = {}
    BY DEF MiningModes
  <1>2. mode' = mode \/ mode' \in {"none", "boot", "tamper"} => ModeInUse'
    BY <1>1
  <1>3. CASE BootFromFile \/ BootFresh \/ Crash
    BY <1>2, <1>3 DEF BootFromFile, BootFresh, Crash, Halt
  <1>4. CASE Internal
    BY <1>2, <1>4 DEF Internal, DrawHashRate, PayPoolMiner, MineFront, SaveSucceeds,
      SaveFails, CreditSolo, CreditShared, FinishMining, Done, Halt
  <1>5. CASE Command
    <2>1. CASE \/ \E s \in Students, status \in ValidStatus : MarkAttendance(s, status)
               \/ \E d \in DifficultyInputs : SetDifficulty(d)
               \/ \E m \in Models : SwitchModel(m)
               \/ \E s, r \in TypedIds : Transfer(s, r)
               \/ \E i \in TamperInputs : Tamper(i)
               \/ Quit
      BY <1>2, <2>1 DEF MarkAttendance, SetDifficulty, SwitchModel, Transfer, Tamper,
        Quit, Halt
    <2>2. CASE \/ StartSolo
               \/ \E count \in MinerCounts : StartPool(count)
               \/ \E rounds \in CloudRounds, fees \in CloudFees : StartCloud(rounds, fees)
      BY <2>2 DEF StartSolo, StartPool, StartCloud, BeginMining
    <2> QED
      BY <1>5, <2>1, <2>2 DEF Command
  <1>6. CASE UNCHANGED vars
    BY <1>2, <1>6 DEF vars
  <1> QED
    BY <1>3, <1>4, <1>5, <1>6 DEF Next
-----------------------------------------------------------------------------
(* The solo miner, step by step. *)

LEMMA SoloStaysPaid ==
  ASSUME SoloPaid, phase # "down", SameForSolo(ledger, ledger'), base' = base, Due' = Due
  PROVE  SoloPaid'
  BY DEF SoloPaid, SameForSolo

LEMMA SoloNewLedger ==
  ASSUME TypeOK', NEW m \in Models, ledger' = LedgerInit(m), base' = Due'
  PROVE  SoloPaid'
  <1>1. ledger'.credit[SOLO_MINER] = 0
    BY FreshTables, MiningAssumption DEF Owners
  <1>2. MINING_REWARD * (Due' - base') = 0
    <2>1. base' \in Int
      BY DEF TypeOK, CountersOK
    <2>2. PICK b \in Int : b = base'
      BY <2>1
    <2>3. Due' - base' = b - b
      BY <2>2
    <2>4. b - b = 0
      OBVIOUS
    <2> QED
      BY <2>3, <2>4 DEF MINING_REWARD
  <1> QED
    BY <1>1, <1>2 DEF SoloPaid

\* The reward of a student is not the miner's, and takes room at most.
LEMMA StudentForSolo ==
  ASSUME NamesApart, TypeOK, StudentsPaid, phase = "crediting"
  PROVE  SameForSolo(ledger, AfterStudent)
  <1> DEFINE b == Tip(chain)
             a == NetReward(b.token_reward)
  <1>1. b.student_id \in Students /\ IsBlock(b)
    <2>1. Len(chain) \in 2..Len(chain) /\ b = chain[Len(chain)]
      BY DueFacts DEF TypeOK, PhaseOK, Tip
    <2>2. Len(chain) \in 1..Len(chain)
      BY <2>1
    <2> QED
      BY <2>1, <2>2 DEF TypeOK, IsChain, IsBlockSeq
  <1>2. b.student_id \in Owners /\ b.student_id # SOLO_MINER /\ b.token_reward \in Int
    BY <1>1, MiningAssumption DEF Owners, NamesApart, IsBlock
  <1>3. a \in Int
    BY <1>2 DEF NetReward, TX_FEE
  <1>4. AfterStudent \in {ledger, TryCredit(ledger, b.student_id, a)}
    BY DEF AfterStudent
  <1>5. ledger \in Ledgers /\ TablesOK(ledger)
    BY DEF TypeOK, StudentsPaid
  <1> HIDE DEF b, a
  <1>6. SameForSolo(ledger, TryCredit(ledger, b.student_id, a))
    BY <1>2, <1>3, <1>5, OtherCredited
  <1> QED
    BY <1>4, <1>6 DEF SameForSolo

LEMMA OneMoreReward ==
  ASSUME NEW n \in Int, NEW k \in Int
  PROVE  MINING_REWARD * (n - k) = MINING_REWARD * (n - 1 - k) + MINING_REWARD
  BY DEF MINING_REWARD

LEMMA SoloCreditsSolo ==
  ASSUME NamesApart, TypeOK, TypeOK', StudentsPaid, SoloPaid, CreditSolo
  PROVE  SoloPaid'
  <1> DEFINE c == ledger.credit[SOLO_MINER]
             n == Len(chain)
  <1>1. /\ UNCHANGED <<chain, base>> /\ phase = "crediting" /\ phase' \in {"mining", "idle"}
        /\ \/ ledger' = AfterStudent /\ ~HasRoom(ledger', SOLO_MINER)
           \/ /\ HasRoom(AfterStudent, SOLO_MINER)
              /\ ledger' = TryCredit(AfterStudent, SOLO_MINER, MINING_REWARD)
    BY SoloCredits
  <1>2. /\ AfterStudent \in Ledgers /\ TablesOK(AfterStudent)
        /\ SameForSolo(ledger, AfterStudent)
    BY <1>1, StudentOfTip, StudentForSolo
  <1>3. /\ Due = n - 1 /\ Due' = n /\ n \in Int /\ base \in Int /\ c \in Int
    <2>1. SOLO_MINER \in Owners /\ ledger \in Ledgers /\ base \in Int
      BY MiningAssumption DEF Owners, TypeOK, CountersOK
    <2>2. n \in Int
      BY <1>1, DueFacts
    <2> QED
      BY <1>1, <2>1, <2>2 DEF Due, Ledgers
  <1>4. /\ c <= MINING_REWARD * (n - 1 - base)
        /\ Modes = {"solo"} /\ HasRoom(ledger, SOLO_MINER)
             => c = MINING_REWARD * (n - 1 - base)
    BY <1>1, <1>3 DEF SoloPaid
  <1>5. MINING_REWARD * (n - base) = MINING_REWARD * (n - 1 - base) + MINING_REWARD
    BY <1>3, OneMoreReward
  <1> DEFINE before == MINING_REWARD * (n - 1 - base)
             after == MINING_REWARD * (n - base)
  <1>6. before \in Int /\ after = before + 20 /\ MINING_REWARD = 20
    BY <1>3, <1>5 DEF MINING_REWARD
  <1>7. CASE ledger' = AfterStudent /\ ~HasRoom(ledger', SOLO_MINER)
    <2>1. ledger'.credit[SOLO_MINER] = c
      BY <1>2, <1>7 DEF SameForSolo
    <2>2. c <= before
      BY <1>4
    <2> HIDE DEF c, before, after
    <2>3. c <= after
      BY <1>3, <1>6, <2>2
    <2> QED
      BY <1>1, <1>3, <1>7, <2>1, <2>3 DEF SoloPaid, after
  <1>8. CASE /\ HasRoom(AfterStudent, SOLO_MINER)
             /\ ledger' = TryCredit(AfterStudent, SOLO_MINER, MINING_REWARD)
    <2>1. ledger'.credit[SOLO_MINER] = c + MINING_REWARD
      BY <1>2, <1>8, SoloCredited DEF SameForSolo
    <2>2. c <= before /\ (Modes = {"solo"} => c = before)
      BY <1>2, <1>4, <1>8 DEF SameForSolo
    <2> HIDE DEF c, before, after
    <2>3. c + MINING_REWARD <= after /\ (Modes = {"solo"} => c + MINING_REWARD = after)
      BY <1>3, <1>6, <2>2
    <2> QED
      BY <1>1, <1>3, <2>1, <2>3 DEF SoloPaid, after
  <1> QED
    BY <1>1, <1>7, <1>8

\* Pool and cloud mining settle blocks for which the solo miner gets nothing.
LEMMA SoloCreditsShared ==
  ASSUME NamesApart, TypeOK, TypeOK', StudentsPaid, ModeInUse, SoloPaid, CreditShared
  PROVE  SoloPaid'
  <1> DEFINE c == ledger.credit[SOLO_MINER]
             n == Len(chain)
  <1>1. /\ phase = "crediting" /\ phase' = "mining" /\ ledger' = AfterStudent
        /\ mode \in {"pool", "cloud"} /\ UNCHANGED <<chain, base>>
    BY DEF CreditShared, AfterStudent
  <1>2. ledger'.credit[SOLO_MINER] = c
    BY <1>1, StudentForSolo DEF SameForSolo
  <1>3. Modes # {"solo"}
    BY <1>1 DEF ModeInUse, MiningModes
  <1>4. /\ Due = n - 1 /\ Due' = n /\ n \in Int /\ base \in Int /\ c \in Int
    <2>1. SOLO_MINER \in Owners /\ ledger \in Ledgers /\ base \in Int
      BY MiningAssumption DEF Owners, TypeOK, CountersOK
    <2>2. n \in Int
      BY <1>1, DueFacts
    <2> QED
      BY <1>1, <2>1, <2>2 DEF Due, Ledgers
  <1>5. c <= MINING_REWARD * (n - 1 - base)
    BY <1>1, <1>4 DEF SoloPaid
  <1> HIDE DEF c, n
  <1>6. c <= MINING_REWARD * (n - base)
    BY <1>4, <1>5 DEF MINING_REWARD
  <1> QED
    BY <1>1, <1>2, <1>3, <1>4, <1>6 DEF SoloPaid

LEMMA SoloOthers ==
  ASSUME NamesApart, TypeOK, TypeOK', StudentsPaid, SoloPaid,
         \/ \E s, r \in TypedIds : Transfer(s, r)
         \/ PayPoolMiner \/ FinishMining
  PROVE  SoloPaid'
  <1>1. /\ UNCHANGED <<chain, base>>
        /\ {phase, phase'} \cap {"down", "saving", "crediting"} = {}
    BY DEF Transfer, PayPoolMiner, FinishMining, Done
  <1>2. ledger \in Ledgers /\ TablesOK(ledger)
    BY <1>1, DueFacts DEF StudentsPaid
  <1>3. SameForSolo(ledger, ledger)
    BY DEF SameForSolo
  <1>4. SameForSolo(ledger, ledger')
    <2>1. CASE \E s, r \in TypedIds : Transfer(s, r)
      BY <1>2, <2>1, TransferForSolo DEF Transfer
    <2>2. CASE PayPoolMiner
      <3> DEFINE miner == PoolMiner[miners - Len(attempts) + 1]
                 share == (Head(attempts) * earnings) \div total
      <3>1. ledger' \in {ledger, TryCredit(ledger, miner, share)}
        BY <2>2 DEF PayPoolMiner
      <3>2. miner \in Owners /\ miner # SOLO_MINER /\ share \in Int
        <4>1. /\ attempts \in Seq(HashRates) /\ attempts # <<>> /\ total \in Nat \ {0}
              /\ Len(attempts) \in 1..miners /\ miners \in 1..MAX_POOL_MINERS
          BY <2>2, MiningAssumption DEF PayPoolMiner, TypeOK, PoolJobOK
        <4>2. miners - Len(attempts) + 1 \in 1..MAX_POOL_MINERS
          BY <4>1, MiningAssumption
        <4>3. Head(attempts) \in Int /\ earnings \in Int
          <5>1. Head(attempts) \in HashRates
            BY <4>1, TailFacts
          <5>2. HashRates \subseteq Int /\ earnings \in Int
            BY MiningAssumption DEF TypeOK, PoolJobOK
          <5> QED
            BY <5>1, <5>2
        <4>4. miner \in Miners \ {SOLO_MINER, CLOUD_USER}
          BY <4>2, MiningAssumption
        <4> QED
          BY <4>1, <4>3, <4>4 DEF Owners
      <3> HIDE DEF miner, share
      <3>3. SameForSolo(ledger, TryCredit(ledger, miner, share))
        BY <1>2, <3>2, OtherCredited
      <3> QED
        BY <1>3, <3>1, <3>3
    <2>3. CASE FinishMining
      <3>1. ledger' \in {ledger, TryCredit(ledger, CLOUD_USER, earnings)}
        BY <2>3 DEF FinishMining
      <3>2. CLOUD_USER \in Owners /\ CLOUD_USER # SOLO_MINER /\ earnings \in Int
        BY MiningAssumption DEF Owners, TypeOK, PoolJobOK
      <3>3. SameForSolo(ledger, TryCredit(ledger, CLOUD_USER, earnings))
        BY <1>2, <3>2, OtherCredited
      <3> QED
        BY <1>3, <3>1, <3>3
    <2> QED
      BY <2>1, <2>2, <2>3
  <1>5. Due' = Due /\ phase # "down"
    BY <1>1 DEF Due
  <1> QED
    BY <1>1, <1>4, <1>5, SoloStaysPaid

LEMMA SoloInEveryStep ==
  ASSUME NamesApart, TypeOK, TypeOK', StudentsPaid, ModeInUse, SoloPaid, [Next]_vars
  PROVE  SoloPaid'
  <1>1. CASE phase' = "down"
    BY <1>1 DEF SoloPaid
  <1>2. CASE phase = "down" /\ phase' # "down"
    <2>1. BootFromFile \/ BootFresh
      <3>1. phase' # "down" /\ phase = "down"
        BY <1>2
      <3>2. ~Halt
        BY <3>1 DEF Halt
      <3> QED
        BY <3>1, <3>2, LedgerSteps DEF MineFront, SaveSucceeds, SaveFails, Tamper,
          SwitchModel, Transfer, PayPoolMiner, CreditSolo, CreditShared, FinishMining
    <2>2. PICK m \in Models : ledger' = LedgerInit(m)
      BY <2>1 DEF BootFromFile, BootFresh, Start
    <2>3. base' = Due'
      <3>1. CASE BootFromFile
        BY <3>1 DEF BootFromFile, Due
      <3>2. CASE BootFresh
        BY <3>2 DEF BootFresh, Due, MiningModes
      <3> QED
        BY <2>1, <3>1, <3>2
    <2> QED
      BY <2>2, <2>3, SoloNewLedger
  <1>3. CASE phase # "down" /\ phase' # "down"
    <2>1. CASE UNCHANGED <<ledger, base>> /\ Due' = Due
      <3>1. SameForSolo(ledger, ledger')
        BY <2>1 DEF SameForSolo
      <3> QED
        BY <1>3, <2>1, <3>1, SoloStaysPaid
    <2>2. CASE \E m \in Models : SwitchModel(m)
      <3>1. PICK m \in Models : SwitchModel(m)
        BY <2>2
      <3>2. /\ ledger' = LedgerInit(m) /\ base' = Len(chain) /\ phase' = "idle"
            /\ UNCHANGED chain
        BY <3>1 DEF SwitchModel
      <3>3. Due' = Len(chain)
        BY <3>2 DEF Due
      <3> QED
        BY <3>2, <3>3, SoloNewLedger
    <2>3. CASE \/ \E s, r \in TypedIds : Transfer(s, r)
               \/ PayPoolMiner \/ FinishMining
      BY <2>3, SoloOthers
    <2>4. CASE CreditSolo
      BY <2>4, SoloCreditsSolo
    <2>5. CASE CreditShared
      BY <2>5, SoloCreditsShared
    <2> QED
      BY <1>3, <2>1, <2>2, <2>3, <2>4, <2>5, NothingSettled
  <1> QED
    BY <1>1, <1>2, <1>3

LEMMA SoloPaidAtPrompt == SoloPaid => SoloMinerPaid
  BY DEF SoloPaid, SoloMinerPaid, RewardOfChain, Due

\* The solo miner never has more than 20 coins for each block confirmed since
\* the ledger was reset, and exactly that if all mining is solo and the ledger
\* has room for the next credit: no crash, failed save, full chain, full table
\* or refused difficulty pays it twice or not at all (mining.c 68-123).
THEOREM SoloMinerIsPaid == ASSUME NamesApart PROVE Spec => []SoloMinerPaid
  <1>1. Init => StudentsPaid /\ ModeInUse /\ SoloPaid
    BY DEF Init, StudentsPaid, ModeInUse, SoloPaid, MiningModes
  <1>2. /\ TypeOK /\ TypeOK' /\ StudentsPaid /\ ModeInUse /\ SoloPaid /\ [Next]_vars
          => StudentsPaid' /\ ModeInUse' /\ SoloPaid'
    BY StudentsInEveryStep, ModeStaysInUse, SoloInEveryStep
  <1> QED
    BY <1>1, <1>2, TypeCorrect, SoloPaidAtPrompt, PTL DEF Spec
=============================================================================
