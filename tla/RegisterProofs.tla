---------------------------- MODULE RegisterProofs ----------------------------
(***************************************************************************)
(* Mining as a register of attendance: marks keep their order, the file    *)
(* holds what the program works on, confirmed blocks stay, no mark is      *)
(* lost, and so the program implements AttendanceRegister.  Each result    *)
(* names the faults that have to be excluded for it.                       *)
(***************************************************************************)
EXTENDS ChainProofs


Ascending(s) == \A i, j \in 1..Len(s) : i < j => s[i].timestamp < s[j].timestamp

Before(s, t) == \A i \in 1..Len(s), j \in 1..Len(t) : s[i].timestamp < t[j].timestamp

Past(s, time) == \A i \in 1..Len(s) : s[i].timestamp < time

\* The inductive invariant: every step works on the chain and the pool apart.
Ordered ==
  /\ Ascending(chain) /\ Ascending(pool) /\ Before(chain, pool)
  /\ Ascending(file.blocks)
  /\ Past(chain, clock) /\ Past(pool, clock) /\ Past(file.blocks, clock)

Stamped(s) == \A i \in 1..Len(s) : s[i].timestamp \in Nat

LEMMA EmptyOrdered ==
  /\ Ascending(<<>>)
  /\ \A s : Before(s, <<>>)
  /\ \A time : Past(<<>>, time)
  BY DEF Ascending, Before, Past
-----------------------------------------------------------------------------
(* Timestamps of blocks. *)

LEMMA MinedFromMark ==
  ASSUME NEW s, IsBlockSeq(s), s # <<>>, NEW b, IsBlock(b),
         NEW clipped \in BOOLEAN, NEW zeros \in Nat
  PROVE  LET m == Mined(PrepareForMining(b, s, clipped), zeros)
         IN  m.timestamp = b.timestamp /\ m.token_reward = b.token_reward
  <1> DEFINE linked == [b EXCEPT !.index = Tip(s).index + 1,
                                 !.previous_hash = Tip(s).hash, !.nonce = 0]
             signed == SignBlock(linked, clipped)
             solved == [signed EXCEPT !.nonce = zeros]
             Same(c) == c.timestamp = b.timestamp /\ c.token_reward = b.token_reward
  <1>1. Tip(s).index + 1 \in Nat
    BY DEF IsBlockSeq, IsBlock, Tip
  <1>2. IsBlock(linked) /\ Same(linked)
    <2>1. IsBlock(linked)
      BY <1>1, RelinkType, Zenon
    <2> QED
      BY <2>1 DEF IsBlock
  <1> HIDE DEF linked
  <1>3. IsBlock(signed) /\ Same(signed)
    <2>1. IsBlock(signed)
      BY <1>2, SignBlockType
    <2> QED
      BY <1>2, <2>1 DEF SignBlock, IsBlock
  <1> HIDE DEF signed
  <1>4. IsBlock(solved) /\ Same(solved)
    BY <1>3 DEF IsBlock
  <1> HIDE DEF solved
  <1>5. Same([solved EXCEPT !.hash = ComputeBlockHash(solved)])
    BY <1>4 DEF IsBlock
  <1>6. PrepareForMining(b, s, clipped) = signed
    BY DEF PrepareForMining, signed, linked
  <1> QED
    BY <1>5, <1>6 DEF Mined, solved

LEMMA TimeOfGenesis ==
  ASSUME NEW time \in Nat, NEW clipped \in BOOLEAN
  PROVE  GenesisBlock(time, clipped).timestamp = time
  <1> DEFINE new == NewBlock(0, time, GENESIS, "PRESENT", 0, GENESIS_PREV_HASH)
             signed == SignBlock(new, clipped)
  <1>1. IsBlock(new) /\ new.timestamp = time
    BY NewBlockType DEF ValidStatus, NewBlock
  <1> HIDE DEF new
  <1>2. IsBlock(signed) /\ signed.timestamp = time
    <2>1. IsBlock(signed)
      BY <1>1, SignBlockType
    <2> QED
      BY <1>1, <2>1 DEF SignBlock, IsBlock
  <1> HIDE DEF signed
  <1>3. [signed EXCEPT !.hash = ComputeBlockHash(signed)].timestamp = time
    BY <1>2 DEF IsBlock
  <1> QED
    BY <1>3 DEF GenesisBlock, signed, new

LEMMA TimeOfTampered ==
  ASSUME NEW b, IsBlock(b) PROVE Tampered(b).timestamp = b.timestamp
  BY DEF Tampered, IsBlock
-----------------------------------------------------------------------------
(* Steps. *)

LEMMA OrderSteps ==
  ASSUME [Next]_vars
  PROVE  \/ BootFromFile \/ BootFresh \/ Halt \/ MineFront \/ SaveSucceeds
         \/ SaveFails \/ \E i \in 2..Len(chain) : Tamper(i)
         \/ \E s \in Students, status \in ValidStatus : MarkAttendance(s, status)
         \/ /\ UNCHANGED <<chain, pool, file, clock, session>>
            /\ difficulty' \in {difficulty} \cup DifficultyInputs
            /\ \/ UNCHANGED <<phase, mode>>
               \/ phase # "saving" /\ phase' # "saving"
  <1> DEFINE Quiet == /\ UNCHANGED <<chain, pool, file, clock, session>>
                      /\ difficulty' \in {difficulty} \cup DifficultyInputs
                      /\ \/ UNCHANGED <<phase, mode>>
                         \/ phase # "saving" /\ phase' # "saving"
  <1>1. ASSUME NEW rate \in HashRates, DrawHashRate(rate) PROVE Quiet
    BY <1>1 DEF DrawHashRate, memory
  <1>2. PayPoolMiner \/ CreditSolo \/ CreditShared \/ FinishMining => Quiet
    BY DEF PayPoolMiner, CreditSolo, CreditShared, FinishMining, Done
  <1>3. ASSUME NEW s, NEW r, Transfer(s, r) PROVE Quiet
    BY <1>3 DEF Transfer
  <1>4. ASSUME NEW d \in DifficultyInputs, SetDifficulty(d) PROVE Quiet
    BY <1>4 DEF SetDifficulty
  <1>5. ASSUME NEW m, SwitchModel(m) PROVE Quiet
    BY <1>5 DEF SwitchModel
  <1>6. StartSolo => Quiet
    BY DEF StartSolo, BeginMining, memory
  <1>7. ASSUME NEW count, StartPool(count) PROVE Quiet
    BY <1>7 DEF StartPool, BeginMining, memory
  <1>8. ASSUME NEW rounds, NEW fees, StartCloud(rounds, fees) PROVE Quiet
    BY <1>8 DEF StartCloud, BeginMining, memory
  <1>9. UNCHANGED vars => Quiet
    BY DEF vars
  <1> HIDE DEF Quiet
  <1>10. CASE Internal
    BY <1>1, <1>2, <1>10 DEF Internal, Quiet
  <1>11. CASE Command
    BY <1>3, <1>4, <1>5, <1>6, <1>7, <1>8, <1>11, TamperInRange DEF Command, Quit, Quiet
  <1>12. CASE BootFromFile \/ BootFresh \/ Crash
    BY <1>12 DEF Crash
  <1> QED
    BY <1>9, <1>10, <1>11, <1>12 DEF Next, Quiet

LEMMA OrderMineFront == ASSUME TypeOK, Ordered, MineFront PROVE Ordered'
  <1>1. /\ IsBlockSeq(pool) /\ pool # <<>> /\ IsBlockSeq(chain) /\ chain # <<>>
        /\ Len(chain) \in Nat /\ clock' = clock /\ pool' = Tail(pool)
    BY DEF TypeOK, PoolOK, PhaseOK, IsChain, IsBlockSeq, MineFront, PendingRemoveFront
  <1>2. /\ Len(pool) \in Nat \ {0} /\ Len(pool') = Len(pool) - 1
        /\ \A i \in 1..Len(pool') : pool'[i] = pool[i + 1]
        /\ Head(pool) = pool[1] /\ IsBlock(Head(pool))
    BY <1>1, TailBlockSeq
  <1>3. /\ Ascending(pool') /\ Past(pool', clock) /\ Before(chain, pool')
        /\ \A j \in 1..Len(pool') : Head(pool).timestamp < pool'[j].timestamp
    <2>1. \A i \in 1..Len(pool') : i + 1 \in 1..Len(pool) /\ pool'[i] = pool[i + 1]
      BY <1>2
    <2>2. ASSUME NEW i \in 1..Len(pool'), NEW j \in 1..Len(pool'), i < j
          PROVE  pool'[i].timestamp < pool'[j].timestamp
      <3>1. i + 1 < j + 1
        BY <2>2
      <3> QED
        BY <2>1, <3>1 DEF Ordered, Ascending
    <2>3. Past(pool', clock) /\ Before(chain, pool')
      BY <2>1 DEF Ordered, Past, Before
    <2>4. ASSUME NEW j \in 1..Len(pool')
          PROVE  Head(pool).timestamp < pool'[j].timestamp
      <3>1. 1 \in 1..Len(pool) /\ 1 < j + 1
        BY <1>2
      <3> QED
        BY <1>2, <2>1, <3>1 DEF Ordered, Ascending
    <2> QED
      BY <2>2, <2>3, <2>4 DEF Ascending
  <1>4. file' \in {file, TornFile}
    BY DEF MineFront, Done
  <1>5. Ascending(file'.blocks) /\ Past(file'.blocks, clock)
    BY <1>4, EmptyOrdered DEF Ordered, TornFile
  <1>6. CASE chain' = chain
    BY <1>1, <1>3, <1>5, <1>6 DEF Ordered
  <1>7. CASE chain' # chain
    <2>1. PICK clipped \in Clippings, zeros \in difficulty..MaxZeros :
            chain' = Append(chain,
              Mined(PrepareForMining(Head(pool), chain, clipped), zeros))
      BY <1>7 DEF MineFront, Done
    <2>2. clipped \in BOOLEAN /\ zeros \in Nat
      BY <1>7, MiningAssumption DEF MineFront, MIN_DIFFICULTY, MAX_DIFFICULTY
    <2> DEFINE b == Mined(PrepareForMining(Head(pool), chain, clipped), zeros)
    <2>3. b.timestamp = Head(pool).timestamp
      BY <1>1, <1>2, <2>2, MinedFromMark
    <2>4. chain' = Append(chain, b)
      BY <2>1
    <2> HIDE DEF b
    <2>5. /\ Len(chain') = Len(chain) + 1 /\ chain'[Len(chain) + 1] = b
          /\ \A i \in 1..Len(chain) : chain'[i] = chain[i]
      BY <1>1, <2>4 DEF IsBlockSeq
    <2>6. /\ Past(chain, b.timestamp) /\ b.timestamp < clock
      BY <1>2, <2>3 DEF Ordered, Before, Past
    <2>7. Ascending(chain') /\ Past(chain', clock) /\ Before(chain', pool')
      <3>1. \A i \in 1..Len(chain') : i \in 1..Len(chain) \/ i = Len(chain) + 1
        BY <1>1, <2>5
      <3>2. Ascending(chain')
        <4> SUFFICES ASSUME NEW i \in 1..Len(chain'), NEW j \in 1..Len(chain'), i < j
                     PROVE  chain'[i].timestamp < chain'[j].timestamp
          BY DEF Ascending
        <4>1. i \in 1..Len(chain)
          BY <1>1, <2>5
        <4> QED
          BY <2>5, <2>6, <3>1, <4>1 DEF Ordered, Ascending, Past
      <3>3. Past(chain', clock) /\ Before(chain', pool')
        BY <1>3, <2>3, <2>5, <2>6, <3>1 DEF Ordered, Past, Before
      <3> QED
        BY <3>2, <3>3
    <2> QED
      BY <1>1, <1>3, <1>5, <2>7 DEF Ordered
  <1> QED
    BY <1>6, <1>7

LEMMA OrderMark ==
  ASSUME TypeOK, Ordered, NEW s \in Students, NEW status \in ValidStatus,
         MarkAttendance(s, status)
  PROVE  Ordered'
  <1> DEFINE b == SignBlock(NewBlock(Tip(chain).index + 1 + Len(pool), clock, s, status,
                              TokenRewardForStatus(status), Tip(chain).hash), FALSE)
  <1>1. /\ pool' = Append(pool, b) /\ clock' = clock + 1
        /\ UNCHANGED <<chain, file>> /\ clock \in Nat
    BY DEF MarkAttendance, PendingAdd, TypeOK, CountersOK
  <1>2. b.timestamp = clock
    BY DEF SignBlock, NewBlock
  <1> HIDE DEF b
  <1>3. IsBlockSeq(pool) /\ Len(pool) \in Nat
    BY DEF TypeOK, PoolOK, IsBlockSeq
  <1>4. /\ Len(pool') = Len(pool) + 1 /\ pool'[Len(pool) + 1] = b
        /\ \A i \in 1..Len(pool) : pool'[i] = pool[i]
    BY <1>1, <1>3 DEF IsBlockSeq
  <1>5. \A i \in 1..Len(pool') : i \in 1..Len(pool) \/ i = Len(pool) + 1
    BY <1>3, <1>4
  <1>6. Ascending(pool')
    <2> SUFFICES ASSUME NEW i \in 1..Len(pool'), NEW j \in 1..Len(pool'), i < j
                 PROVE  pool'[i].timestamp < pool'[j].timestamp
      BY DEF Ascending
    <2>1. i \in 1..Len(pool)
      BY <1>3, <1>4
    <2> QED
      BY <1>2, <1>4, <1>5, <2>1 DEF Ordered, Ascending, Past
  <1>7. Before(chain, pool')
    BY <1>2, <1>4, <1>5 DEF Ordered, Before, Past
  <1>8. Stamped(chain) /\ Stamped(pool) /\ Stamped(file.blocks)
    BY DEF TypeOK, IsChain, PoolOK, FileOK, Stamped, IsBlockSeq, IsBlock
  <1>9. Past(chain, clock + 1) /\ Past(pool', clock + 1) /\ Past(file.blocks, clock + 1)
    BY <1>1, <1>2, <1>4, <1>5, <1>8 DEF Ordered, Past, Stamped
  <1> QED
    BY <1>1, <1>6, <1>7, <1>9 DEF Ordered

LEMMA OrderTamper ==
  ASSUME TypeOK, Ordered, NEW i \in 2..Len(chain), Tamper(i) PROVE Ordered'
  <1>1. /\ Len(chain') = Len(chain) /\ IsBlockSeq(chain)
        /\ \A j \in 1..Len(chain) :
             chain'[j] = IF j = i THEN Tampered(chain[j]) ELSE chain[j]
        /\ file' \in {TornFile, file} /\ UNCHANGED <<pool, clock>>
    BY TamperStep DEF Tamper
  <1>2. \A j \in 1..Len(chain) : chain'[j].timestamp = chain[j].timestamp
    BY <1>1, TimeOfTampered DEF IsBlockSeq
  <1>3. Ascending(file'.blocks) /\ Past(file'.blocks, clock)
    BY <1>1, EmptyOrdered DEF Ordered, TornFile
  <1> QED
    BY <1>1, <1>2, <1>3 DEF Ordered, Ascending, Before, Past

LEMMA OrderSaveFails == ASSUME TypeOK, Ordered, SaveFails PROVE Ordered'
  <1>1. CASE Halt
    BY <1>1, EmptyOrdered DEF Ordered, Halt
  <1>2. CASE UNCHANGED <<pool, clock>>
    <2>1. /\ file' = file
          /\ \/ chain' = <<>> \/ chain' = chain
             \/ /\ Len(chain) \in Nat \ {0} /\ Len(chain') = Len(chain) - 1
                /\ \A j \in 1..Len(chain') : chain'[j] = chain[j]
      BY SaveFailsStep
    <2>2. CASE chain' = chain
      BY <1>2, <2>1, <2>2 DEF Ordered
    <2>a. CASE chain' = <<>>
      BY <1>2, <2>1, <2>a DEF Ordered, Ascending, Before, Past
    <2>3. CASE /\ Len(chain) \in Nat \ {0} /\ Len(chain') = Len(chain) - 1
               /\ \A j \in 1..Len(chain') : chain'[j] = chain[j]
      BY <1>2, <2>1, <2>3 DEF Ordered, Ascending, Before, Past
    <2> QED
      BY <2>1, <2>2, <2>a, <2>3
  <1> QED
    BY <1>1, <1>2 DEF SaveFails

LEMMA OrderBootFresh == ASSUME TypeOK, Ordered, BootFresh PROVE Ordered'
  <1>1. PICK clipped \in Clippings : chain' = <<GenesisBlock(clock, clipped)>>
    BY DEF BootFresh
  <1>2. /\ pool' = <<>> /\ clock' = clock + 1 /\ file' = TornFile /\ clock \in Nat
        /\ clipped \in BOOLEAN
    BY MiningAssumption DEF BootFresh, Start, TypeOK, CountersOK
  <1>3. GenesisBlock(clock, clipped).timestamp = clock
    BY <1>2, TimeOfGenesis
  <1>4. Ascending(chain') /\ Past(chain', clock + 1)
    BY <1>1, <1>2, <1>3 DEF Ascending, Past
  <1> QED
    BY <1>2, <1>4, EmptyOrdered DEF Ordered, TornFile

LEMMA OrderInEveryStep == TypeOK /\ Ordered /\ [Next]_vars => Ordered'
  <1> SUFFICES ASSUME TypeOK, Ordered, [Next]_vars PROVE Ordered'
    OBVIOUS
  <1>1. CASE BootFromFile
    BY <1>1, EmptyOrdered DEF Ordered, BootFromFile, Start
  <1>2. CASE BootFresh
    BY <1>2, OrderBootFresh
  <1>3. CASE Halt
    BY <1>3, EmptyOrdered DEF Ordered, Halt
  <1>4. CASE MineFront
    BY <1>4, OrderMineFront
  <1>5. CASE SaveSucceeds
    BY <1>5, EmptyOrdered DEF Ordered, SaveSucceeds, memory, WholeFile, TornFile
  <1>6. CASE SaveFails
    BY <1>6, OrderSaveFails
  <1>7. CASE \E i \in 2..Len(chain) : Tamper(i)
    BY <1>7, OrderTamper
  <1>8. CASE \E s \in Students, status \in ValidStatus : MarkAttendance(s, status)
    BY <1>8, OrderMark
  <1>9. CASE UNCHANGED <<chain, pool, file, clock>>
    BY <1>9 DEF Ordered
  <1> QED
    BY <1>1, <1>2, <1>3, <1>4, <1>5, <1>6, <1>7, <1>8, <1>9, OrderSteps
-----------------------------------------------------------------------------
LEMMA OrderedMeans == TypeOK /\ Ordered => InMarkOrder
  <1> SUFFICES ASSUME TypeOK, Ordered PROVE InMarkOrder
    OBVIOUS
  <1> DEFINE both == chain \o pool
  <1>1. /\ chain \in Seq(Range(chain)) /\ pool \in Seq(Range(pool))
        /\ file.blocks \in Seq(Range(file.blocks))
    BY DEF TypeOK, IsChain, PoolOK, FileOK, IsBlockSeq
  <1>2. /\ Len(both) = Len(chain) + Len(pool) /\ DOMAIN both = 1..Len(both)
        /\ \A i \in 1..Len(both) :
             both[i] = IF i <= Len(chain) THEN chain[i] ELSE pool[i - Len(chain)]
    <2>1. /\ chain \in Seq(Range(chain) \cup Range(pool))
          /\ pool \in Seq(Range(chain) \cup Range(pool))
      BY <1>1
    <2> QED
      BY <2>1
  <1> HIDE DEF both
  <1>3. Len(chain) \in Nat /\ Len(pool) \in Nat
    BY <1>1
  <1>4. \A i \in 1..Len(both) :
          \/ i \in 1..Len(chain) /\ both[i] = chain[i]
          \/ /\ i - Len(chain) \in 1..Len(pool) /\ i > Len(chain)
             /\ both[i] = pool[i - Len(chain)]
    BY <1>2, <1>3
  <1>5. StampsAscend(both)
    <2> SUFFICES ASSUME NEW i \in 1..Len(both), NEW j \in 1..Len(both), i < j
                 PROVE  both[i].timestamp < both[j].timestamp
      BY DEF StampsAscend
    <2>1. CASE i \in 1..Len(chain) /\ j \in 1..Len(chain)
      BY <1>3, <1>4, <2>1, SMTT(30) DEF Ordered, Ascending
    <2>2. CASE i \in 1..Len(chain) /\ j \notin 1..Len(chain)
      BY <1>3, <1>4, <2>2 DEF Ordered, Before
    <2>3. CASE i \notin 1..Len(chain)
      <3>1. /\ i - Len(chain) \in 1..Len(pool) /\ both[i] = pool[i - Len(chain)]
            /\ j - Len(chain) \in 1..Len(pool) /\ both[j] = pool[j - Len(chain)]
            /\ i - Len(chain) < j - Len(chain)
        BY <1>3, <1>4, <2>3
      <3> QED
        BY <3>1 DEF Ordered, Ascending
    <2> QED
      BY <2>1, <2>2, <2>3
  <1>6. \A b \in Range(both) : b.timestamp < clock
    <2>1. \A i \in 1..Len(both) : both[i].timestamp < clock
      BY <1>4 DEF Ordered, Past
    <2> QED
      BY <1>2, <2>1 DEF Range
  <1>7. \A b \in Range(file.blocks) : b.timestamp < clock
    <2>1. DOMAIN file.blocks = 1..Len(file.blocks)
      BY <1>1
    <2> QED
      BY <2>1 DEF Range, Ordered, Past
  <1>8. StampsAscend(file.blocks)
    BY DEF Ordered, Ascending, StampsAscend
  <1> QED
    BY <1>5, <1>6, <1>7, <1>8 DEF InMarkOrder, both

\* Marks are confirmed at most once and in the order they were made, across any
\* mix of mining commands, failures, crashes and restarts (pending.c, mining.c,
\* blockchain_append_mined_block).
THEOREM MarksStayInOrder == Spec => []InMarkOrder
  <1>1. Init => Ordered
    BY EmptyOrdered DEF Init, Ordered, TornFile
  <1> QED
    BY <1>1, TypeCorrect, OrderInEveryStep, OrderedMeans, PTL DEF Spec
-----------------------------------------------------------------------------
(* The file. *)


\* Every write reaches the file, and every open succeeds.
FileWorks == Faults \cap {"open", "write", "flush"} = {}

\* A save that is begun ends with the file written.
SavesComplete == Faults \cap {"write", "flush", "crash_in_save"} = {}

LEMMA SavingSteps ==
  ASSUME Next, phase = "saving"
  PROVE  SaveSucceeds \/ SaveFails \/ Crash
  <1>1. ~Command
    BY DEF Command, MarkAttendance, SetDifficulty, SwitchModel, Transfer, Tamper,
      StartSolo, StartPool, StartCloud, BeginMining, Quit
  <1>2. ~BootFromFile /\ ~BootFresh
    BY DEF BootFromFile, BootFresh, Start
  <1>3. Internal => SaveSucceeds \/ SaveFails
    BY DEF Internal, DrawHashRate, PayPoolMiner, MineFront, CreditSolo, CreditShared,
      FinishMining
  <1> QED
    BY <1>1, <1>2, <1>3 DEF Next

LEMMA SaveStep ==
  ASSUME TypeOK, SaveSucceeds, "flush" \notin Faults
  PROVE  /\ phase = "saving" /\ phase' # "saving" /\ chain' = chain
         /\ file'.whole /\ file'.blocks = chain
         /\ confirmed' \subseteq confirmed \cup {Tip(chain)}
         /\ Len(chain) \in Nat \ {0}
  <1>1. IsBlockSeq(chain) /\ chain # <<>>
    BY DEF SaveSucceeds, TypeOK, PhaseOK, IsChain
  <1>2. Len(chain) \in Nat \ {0}
    BY <1>1 DEF IsBlockSeq
  <1>3. file'.whole /\ file'.blocks = chain
    BY DEF SaveSucceeds, WholeFile
  <1> QED
    BY <1>2, <1>3 DEF SaveSucceeds, Done, memory
-----------------------------------------------------------------------------
(* The file and the chain. *)

LEMMA MatchInEveryStep ==
  ASSUME FileWorks, TypeOK, TypeOK', FileMatchesChain, [Next]_vars
  PROVE  FileMatchesChain'
  <1> SUFFICES ASSUME phase' \notin {"down", "saving"}
               PROVE  file'.whole /\ file'.blocks = chain'
    BY DEF FileMatchesChain
  <1>1. CASE SaveSucceeds
    BY <1>1, SaveStep DEF FileWorks
  <1>2. CASE phase = "saving" /\ ~SaveSucceeds
    <2>1. CASE Next
      BY <1>2, <2>1, SavingSteps DEF SaveFails, Crash, Halt, FileWorks
    <2>2. CASE UNCHANGED vars
      BY <1>2, <2>2 DEF vars
    <2> QED
      BY <2>1, <2>2
  <1>3. CASE BootFromFile \/ BootFresh \/ Halt
    BY <1>3 DEF BootFromFile, BootFresh, Halt
  <1>4. CASE MineFront
    BY <1>4, MineFrontStep DEF FileMatchesChain
  <1>5. CASE \E i \in 2..Len(chain) : Tamper(i)
    BY <1>5 DEF Tamper, FileWorks
  <1>6. CASE /\ phase # "saving" /\ UNCHANGED <<chain, file, confirmed>>
    <2>1. (phase' = "down" <=> chain' = <<>>) /\ (phase = "down" <=> chain = <<>>)
      BY DEF TypeOK, PhaseOK
    <2> QED
      BY <1>6, <2>1 DEF FileMatchesChain
  <1> QED
    BY <1>1, <1>2, <1>3, <1>4, <1>5, <1>6, QuietSteps DEF SaveFails

\* Between commands a restart would resume with exactly the chain in memory, at
\* whatever point the program may be killed, provided that no open, write or
\* flush fails (blockchain_save, blockchain_append_mined_block).
THEOREM FileIsChain == ASSUME FileWorks PROVE Spec => []FileMatchesChain
  <1>1. Init => FileMatchesChain
    BY DEF Init, FileMatchesChain
  <1>2. TypeOK /\ TypeOK' /\ FileMatchesChain /\ [Next]_vars => FileMatchesChain'
    BY MatchInEveryStep
  <1> QED
    BY <1>1, <1>2, TypeCorrect, PTL DEF Spec
-----------------------------------------------------------------------------
(* Immutability. *)

Has(blocks, c) == \E i \in 1..Len(blocks) : blocks[i].hash = c.hash

\* The digest of every confirmed block is in memory when the program runs, and
\* on disk unless the file is just being written.
HashesKept ==
  /\ phase # "down" => \A c \in confirmed : Has(chain, c)
  /\ phase # "saving" => \A c \in confirmed : Has(file.blocks, c)

LEMMA HashesInEveryStep ==
  ASSUME SavesComplete, TypeOK, TypeOK', HashesKept, [Next]_vars
  PROVE  HashesKept'
  <1>1. CASE SaveSucceeds
    <2>1. /\ phase = "saving" /\ chain' = chain /\ file'.blocks = chain
          /\ confirmed' \subseteq confirmed \cup {Tip(chain)} /\ Len(chain) \in Nat \ {0}
      BY <1>1, SaveStep DEF SavesComplete
    <2>2. Has(chain, Tip(chain))
      BY <2>1 DEF Has, Tip
    <2>3. \A c \in confirmed' : Has(chain, c)
      BY <2>1, <2>2 DEF HashesKept
    <2> QED
      BY <2>1, <2>3 DEF HashesKept, Has
  <1>2. CASE phase = "saving" /\ ~SaveSucceeds
    <2>1. CASE Next
      BY <1>2, <2>1, SavingSteps DEF SaveFails, Crash, SavesComplete
    <2>2. CASE UNCHANGED vars
      BY <1>2, <2>2 DEF vars, HashesKept, Has
    <2> QED
      BY <2>1, <2>2
  <1>3. CASE BootFromFile
    <2>1. phase = "down" /\ chain' = file.blocks /\ UNCHANGED <<file, confirmed>>
      BY <1>3 DEF BootFromFile, Start
    <2> QED
      BY <2>1 DEF HashesKept, Has
  <1>4. CASE BootFresh
    <2>1. /\ phase = "down" /\ phase' = "saving" /\ file.blocks = <<>>
          /\ confirmed' = confirmed
      BY <1>4 DEF BootFresh, Start, TypeOK, FileOK
    <2>2. confirmed = {}
      BY <2>1 DEF HashesKept, Has
    <2> QED
      BY <2>1, <2>2 DEF HashesKept
  <1>5. CASE Halt /\ phase # "saving"
    BY <1>5 DEF Halt, HashesKept, Has
  <1>6. CASE MineFront
    <2>1. /\ phase = "mining" /\ confirmed' = confirmed /\ IsBlockSeq(chain)
          /\ Len(chain) \in Nat \ {0}
      BY <1>6, MineFrontStep
    <2>2. CASE UNCHANGED <<chain, file>> /\ phase' = "idle"
      BY <2>1, <2>2 DEF HashesKept, Has
    <2>3. CASE phase' = "saving" /\ \E b : IsBlock(b) /\ chain' = Append(chain, b)
      <3>1. PICK b : IsBlock(b) /\ chain' = Append(chain, b)
        BY <2>3
      <3>2. /\ Len(chain') = Len(chain) + 1
            /\ \A i \in 1..Len(chain) : chain'[i] = chain[i]
        BY <2>1, <3>1 DEF IsBlockSeq
      <3>3. \A c : Has(chain, c) => Has(chain', c)
        BY <2>1, <3>2 DEF Has
      <3> QED
        BY <2>1, <2>3, <3>3 DEF HashesKept, Has
    <2> QED
      BY <1>6, <2>2, <2>3, MineFrontStep
  <1>7. CASE \E i \in 2..Len(chain) : Tamper(i)
    <2>1. PICK i \in 2..Len(chain) : Tamper(i)
      BY <1>7
    <2>2. /\ Len(chain') = Len(chain) /\ phase = "idle" /\ confirmed' = confirmed
          /\ IsBlockSeq(chain)
          /\ \A j \in 1..Len(chain) :
               chain'[j] = IF j = i THEN Tampered(chain[j]) ELSE chain[j]
      BY <2>1, TamperStep
    <2>3. \A j \in 1..Len(chain) : chain'[j].hash = chain[j].hash
      BY <2>2, TamperedIsBlock DEF IsBlockSeq
    <2>4. \A c : Has(chain, c) => Has(chain', c)
      BY <2>2, <2>3 DEF Has
    <2>5. phase' = "saving" \/ file' = file
      BY <2>1 DEF Tamper
    <2> QED
      BY <2>2, <2>4, <2>5 DEF HashesKept, Has
  <1>8. CASE /\ UNCHANGED <<chain, file, confirmed>>
             /\ UNCHANGED phase \/ phase # "saving"
    <2>1. (phase' = "down" <=> chain' = <<>>) /\ (phase = "down" <=> chain = <<>>)
      BY DEF TypeOK, PhaseOK
    <2> QED
      BY <1>8, <2>1 DEF HashesKept, Has
  <1> QED
    BY <1>1, <1>2, <1>3, <1>4, <1>5, <1>6, <1>7, <1>8, QuietSteps DEF SaveFails

LEMMA KeptIsImmutable == TypeOK /\ HashesKept => ImmutableLedger
  <1> SUFFICES ASSUME TypeOK, HashesKept, phase = "idle", NEW c \in confirmed
               PROVE  c.hash \in {b.hash : b \in Range(chain)}
    BY DEF ImmutableLedger
  <1>1. PICK i \in 1..Len(chain) : chain[i].hash = c.hash
    BY DEF HashesKept, Has
  <1>2. DOMAIN chain = 1..Len(chain)
    BY DEF TypeOK, IsChain, IsBlockSeq
  <1> QED
    BY <1>1, <1>2 DEF Range

\* No block that was reported confirmed is ever missing from the chain at the
\* prompt, across commands, tampering and restarts, provided that the program
\* is not killed within a save and no write or flush fails (blockchain_save).
THEOREM LedgerIsImmutable == ASSUME SavesComplete PROVE Spec => []ImmutableLedger
  <1>1. Init => HashesKept
    BY DEF Init, HashesKept
  <1>2. TypeOK /\ TypeOK' /\ HashesKept /\ [Next]_vars => HashesKept'
    BY HashesInEveryStep
  <1> QED
    BY <1>1, <1>2, TypeCorrect, KeptIsImmutable, PTL DEF Spec
-----------------------------------------------------------------------------
(* No mark is lost. *)

\* Mining is only ever asked for at difficulties it accepts, and no more blocks
\* are made than the chain has room for.
NothingRefused ==
  /\ DifficultyInputs \subseteq MIN_DIFFICULTY..MAX_DIFFICULTY
  /\ MaxClock \in 0..MAX_BLOCKS

\* Of the faults only those remain that a mark survives: a kill at any point,
\* and a flush that fails, which nobody notices.
NothingDropped == NothingRefused /\ Faults \cap {"open", "write"} = {}

\* Why the chain never fills up: every block took a tick of the clock.
Fits ==
  /\ difficulty \in MIN_DIFFICULTY..MAX_DIFFICULTY
  /\ clock <= MaxClock
  /\ Len(chain) + Len(pool) <= clock /\ Len(file.blocks) <= clock

Noted(time) ==
  \/ \E i \in 1..Len(chain) : chain[i].timestamp = time
  \/ \E i \in 1..Len(pool) : pool[i].timestamp = time

\* The inductive invariant: at no point between two steps is a mark of this
\* session in neither the chain nor the pool.
Kept == phase # "down" => \A time \in session..(clock - 1) : Noted(time)

LEMMA Lengths ==
  ASSUME TypeOK
  PROVE  /\ IsBlockSeq(chain) /\ IsBlockSeq(pool) /\ IsBlockSeq(file.blocks)
         /\ Len(chain) \in Nat /\ Len(pool) \in Nat /\ Len(file.blocks) \in Nat
         /\ clock \in Nat /\ session \in Nat /\ difficulty \in Int
         /\ phase = "down" <=> chain = <<>>
  BY DEF TypeOK, IsChain, PoolOK, FileOK, IsBlockSeq, CountersOK, PhaseOK

\* With nothing refused and files that open, a turn of the mining loop moves
\* the front of the pool to the tip of the chain.
LEMMA MinedForward ==
  ASSUME NothingRefused, "open" \notin Faults, TypeOK, Fits, MineFront
  PROVE  /\ phase = "mining" /\ phase' = "saving" /\ file' = TornFile
         /\ mode' = mode /\ mode \in MiningModes
         /\ pool # <<>> /\ pool' = Tail(pool)
         /\ UNCHANGED <<difficulty, clock, session>>
         /\ \E b : /\ IsBlock(b) /\ MarkOf(b) = MarkOf(Head(pool))
                   /\ b.timestamp = Head(pool).timestamp
                   /\ chain' = Append(chain, b)
  <1>1. /\ phase = "mining" /\ pool # <<>> /\ pool' = Tail(pool) /\ chain # <<>>
        /\ mode \in MiningModes
        /\ UNCHANGED <<difficulty, clock, session>>
    BY DEF MineFront, PendingRemoveFront, TypeOK, PhaseOK
  <1>2. Len(chain) < MAX_BLOCKS
    <2>1. Len(pool) > 0
      BY <1>1, Lengths, EmptySeq DEF IsBlockSeq
    <2> QED
      BY <2>1, Lengths, MiningAssumption DEF Fits, NothingRefused
  <1>3. /\ phase' = "saving" /\ file' = TornFile /\ mode' = mode
        /\ \E clipped \in Clippings, zeros \in difficulty..MaxZeros :
             chain' = Append(chain,
               Mined(PrepareForMining(Head(pool), chain, clipped), zeros))
    <2>1. /\ ~(Len(chain) >= MAX_BLOCKS)
          /\ difficulty \in MIN_DIFFICULTY..MAX_DIFFICULTY
      BY <1>2, Lengths, MiningAssumption DEF Fits
    <2> QED
      BY <2>1 DEF MineFront
  <1>4. PICK clipped \in Clippings, zeros \in difficulty..MaxZeros :
          chain' = Append(chain,
            Mined(PrepareForMining(Head(pool), chain, clipped), zeros))
    BY <1>3
  <1>5. clipped \in BOOLEAN /\ zeros \in Nat
    BY MiningAssumption DEF Fits, MIN_DIFFICULTY, MAX_DIFFICULTY
  <1> DEFINE b == Mined(PrepareForMining(Head(pool), chain, clipped), zeros)
  <1>6. IsBlock(Head(pool))
    BY <1>1, Lengths, TailBlockSeq
  <1>7. /\ IsBlock(b) /\ b.student_id = Head(pool).student_id
        /\ b.timestamp = Head(pool).timestamp
        /\ b.token_reward = Head(pool).token_reward
    <2>1. IsBlockSeq(chain) /\ chain # <<>>
      BY <1>1, Lengths
    <2>2. /\ IsBlock(b) /\ b.student_id = Head(pool).student_id
          /\ b.timestamp = Head(pool).timestamp
      BY <1>5, <1>6, <2>1, MinedBlockType
    <2>3. b.token_reward = Head(pool).token_reward
      BY <1>5, <1>6, <2>1, MinedFromMark
    <2> QED
      BY <2>2, <2>3
  <1>8. chain' = Append(chain, b)
    BY <1>4
  <1> HIDE DEF b
  <1> QED
    BY <1>1, <1>3, <1>7, <1>8 DEF MarkOf

\* A mark enters the pool with the next tick of the clock.
LEMMA MarkedNow ==
  ASSUME TypeOK, NEW s \in Students, NEW status \in ValidStatus,
         MarkAttendance(s, status)
  PROVE  /\ phase = "idle" /\ clock < MaxClock /\ clock' = clock + 1
         /\ UNCHANGED <<phase, mode, chain, file, difficulty, session>>
         /\ \E b : /\ b.timestamp = clock /\ pool' = Append(pool, b)
                   /\ MarkOf(b) = [stamp |-> clock, student |-> s,
                                   reward |-> TokenRewardForStatus(status)]
  <1> DEFINE b == SignBlock(NewBlock(Tip(chain).index + 1 + Len(pool), clock, s, status,
                              TokenRewardForStatus(status), Tip(chain).hash), FALSE)
  <1>1. b.timestamp = clock /\ b.student_id = s
        /\ b.token_reward = TokenRewardForStatus(status)
    BY DEF SignBlock, NewBlock
  <1>2. pool' = Append(pool, b)
    BY DEF MarkAttendance, PendingAdd
  <1> HIDE DEF b
  <1> QED
    BY <1>1, <1>2 DEF MarkAttendance, MarkOf

LEMMA FitsInEveryStep ==
  ASSUME NothingDropped, TypeOK, TypeOK', Fits, [Next]_vars PROVE Fits'
  <1> USE Lengths DEF Fits
  <1>a. /\ Len(chain') \in Nat /\ Len(pool') \in Nat /\ Len(file'.blocks) \in Nat
    BY DEF TypeOK, IsChain, PoolOK, FileOK, IsBlockSeq
  <1>b. Len(<<>>) = 0
    OBVIOUS
  <1>1. CASE BootFromFile \/ BootFresh \/ Halt
    <2>1. difficulty' \in MIN_DIFFICULTY..MAX_DIFFICULTY
      BY <1>1 DEF BootFromFile, BootFresh, Start, Halt, Clamp, MIN_DIFFICULTY,
        MAX_DIFFICULTY, NothingDropped, NothingRefused
    <2>2. CASE BootFromFile
      BY <1>b, <2>1, <2>2 DEF BootFromFile, Start
    <2>3. CASE BootFresh
      <3>1. Len(chain') = 1 /\ pool' = <<>> /\ clock' = clock + 1 /\ clock < MaxClock
            /\ file'.blocks = <<>>
        BY <2>3 DEF BootFresh, Start, TornFile
      <3> QED
        BY <1>b, <2>1, <3>1 DEF NothingDropped, NothingRefused
    <2>4. CASE Halt
      BY <1>b, <2>1, <2>4 DEF Halt
    <2> QED
      BY <1>1, <2>2, <2>3, <2>4
  <1>2. CASE MineFront
    <2>1. PICK b : chain' = Append(chain, b) /\ IsBlock(b)
      BY <1>2, MinedForward DEF NothingDropped
    <2>2. /\ pool # <<>> /\ pool' = Tail(pool) /\ file' = TornFile
          /\ UNCHANGED <<difficulty, clock>>
      BY <1>2, MinedForward DEF NothingDropped
    <2>3. Len(chain') = Len(chain) + 1 /\ Len(pool') = Len(pool) - 1
      BY <2>1, <2>2, AppendBlockSeq, TailBlockSeq
    <2> QED
      BY <1>b, <2>2, <2>3 DEF TornFile
  <1>3. CASE SaveSucceeds
    <2>1. file'.blocks \in {chain, <<>>} /\ UNCHANGED <<chain, pool, difficulty, clock>>
      BY <1>3 DEF SaveSucceeds, WholeFile, TornFile, memory
    <2> QED
      BY <1>b, <2>1
  <1>4. CASE SaveFails
    BY <1>4 DEF SaveFails, NothingDropped
  <1>5. CASE \E i \in 2..Len(chain) : Tamper(i)
    <2>1. Len(chain') = Len(chain) /\ file' \in {TornFile, file}
      BY <1>5, TamperStep
    <2>2. UNCHANGED <<pool, difficulty, clock>>
      BY <1>5 DEF Tamper
    <2> QED
      BY <1>b, <2>1, <2>2 DEF TornFile
  <1>6. CASE \E s \in Students, status \in ValidStatus : MarkAttendance(s, status)
    <2>1. /\ clock < MaxClock /\ clock' = clock + 1
          /\ UNCHANGED <<chain, file, difficulty>>
          /\ \E b : pool' = Append(pool, b)
      BY <1>6, MarkedNow
    <2>2. Len(pool') = Len(pool) + 1
      BY <2>1, AppendProperties DEF IsBlockSeq
    <2> QED
      BY <2>1, <2>2 DEF NothingDropped, NothingRefused
  <1>7. CASE /\ UNCHANGED <<chain, pool, file, clock>>
             /\ difficulty' \in {difficulty} \cup DifficultyInputs
    BY <1>7 DEF NothingDropped, NothingRefused
  <1> QED
    BY <1>1, <1>2, <1>3, <1>4, <1>5, <1>6, <1>7, OrderSteps

LEMMA MineFrontKeeps ==
  ASSUME NothingDropped, TypeOK, Fits, MineFront, NEW time, Noted(time) PROVE Noted(time)'
  <1>1. /\ IsBlockSeq(chain) /\ Len(chain) \in Nat
        /\ IsBlockSeq(pool) /\ pool # <<>> /\ pool' = Tail(pool)
    BY Lengths, MinedForward DEF NothingDropped
  <1>2. PICK b : /\ IsBlock(b) /\ b.timestamp = Head(pool).timestamp
                 /\ chain' = Append(chain, b)
    BY MinedForward DEF NothingDropped
  <1>3. /\ Len(chain') = Len(chain) + 1 /\ chain'[Len(chain) + 1] = b
        /\ \A i \in 1..Len(chain) : chain'[i] = chain[i]
    BY <1>1, <1>2, AppendBlockSeq
  <1>4. /\ Len(pool) \in Nat \ {0} /\ Len(pool') = Len(pool) - 1 /\ Head(pool) = pool[1]
        /\ \A i \in 1..Len(pool) - 1 : pool'[i] = pool[i + 1]
    BY <1>1, TailBlockSeq
  <1>5. CASE \E i \in 1..Len(chain) : chain[i].timestamp = time
    BY <1>1, <1>3, <1>5 DEF Noted
  <1>6. CASE \E i \in 1..Len(pool) : pool[i].timestamp = time
    <2>1. PICK i \in 1..Len(pool) : pool[i].timestamp = time
      BY <1>6
    <2>2. CASE i = 1
      BY <1>1, <1>2, <1>3, <1>4, <2>1, <2>2 DEF Noted
    <2>3. CASE i # 1
      <3>1. i - 1 \in 1..Len(pool) - 1 /\ pool'[i - 1] = pool[i - 1 + 1] /\ i - 1 + 1 = i
        BY <1>4, <2>3
      <3> QED
        BY <1>4, <2>1, <3>1 DEF Noted
    <2> QED
      BY <2>2, <2>3
  <1> QED
    BY <1>5, <1>6 DEF Noted

LEMMA KeptInEveryStep ==
  ASSUME NothingDropped, TypeOK, TypeOK', Fits, Kept, [Next]_vars PROVE Kept'
  <1> SUFFICES ASSUME phase' # "down", NEW time \in session'..(clock' - 1)
               PROVE  Noted(time)'
    BY DEF Kept
  <1>1. CASE BootFromFile
    <2>1. session' = clock /\ clock' = clock
      BY <1>1 DEF BootFromFile, Start
    <2> QED
      BY <2>1, Lengths
  <1>2. CASE BootFresh
    <2>1. session' = clock /\ clock' = clock + 1
      BY <1>2 DEF BootFresh, Start
    <2>2. PICK clipped \in Clippings : chain' = <<GenesisBlock(clock, clipped)>>
      BY <1>2 DEF BootFresh
    <2>3. GenesisBlock(clock, clipped).timestamp = clock
      BY Lengths, TimeOfGenesis, MiningAssumption
    <2>4. time = clock
      BY <2>1, Lengths
    <2> QED
      BY <2>2, <2>3, <2>4 DEF Noted
  <1>3. CASE Halt
    BY <1>3 DEF Halt
  <1>4. CASE MineFront
    <2>1. phase # "down" /\ UNCHANGED <<clock, session>>
      BY <1>4, MinedForward DEF NothingDropped
    <2> QED
      BY <1>4, <2>1, MineFrontKeeps DEF Kept
  <1>5. CASE SaveSucceeds
    <2>1. UNCHANGED <<clock, session, chain, pool>> /\ phase # "down"
      BY <1>5 DEF SaveSucceeds, memory
    <2> QED
      BY <2>1 DEF Kept, Noted
  <1>6. CASE SaveFails
    BY <1>6 DEF SaveFails, NothingDropped
  <1>7. CASE \E i \in 2..Len(chain) : Tamper(i)
    <2>1. PICK i \in 2..Len(chain) : Tamper(i)
      BY <1>7
    <2>2. /\ Len(chain') = Len(chain) /\ IsBlockSeq(chain) /\ phase = "idle"
          /\ \A j \in 1..Len(chain) :
               chain'[j] = IF j = i THEN Tampered(chain[j]) ELSE chain[j]
      BY <2>1, TamperStep
    <2>3. \A j \in 1..Len(chain) : chain'[j].timestamp = chain[j].timestamp
      BY <2>2, TimeOfTampered DEF IsBlockSeq
    <2>4. UNCHANGED <<pool, clock, session>>
      BY <2>1 DEF Tamper
    <2> QED
      BY <2>2, <2>3, <2>4 DEF Kept, Noted
  <1>8. CASE \E s \in Students, status \in ValidStatus : MarkAttendance(s, status)
    <2>1. /\ phase = "idle" /\ clock' = clock + 1 /\ UNCHANGED <<chain, session>>
          /\ \E b : b.timestamp = clock /\ pool' = Append(pool, b)
      BY <1>8, MarkedNow
    <2>2. PICK b : b.timestamp = clock /\ pool' = Append(pool, b)
      BY <2>1
    <2>3. /\ Len(pool') = Len(pool) + 1 /\ pool'[Len(pool) + 1] = b
          /\ \A i \in 1..Len(pool) : pool'[i] = pool[i]
      BY <2>2, Lengths, AppendProperties DEF IsBlockSeq
    <2>4. CASE time = clock
      BY <2>2, <2>3, <2>4, Lengths DEF Noted
    <2>5. CASE time # clock
      <3>1. Noted(time)
        BY <2>1, <2>5, Lengths DEF Kept
      <3> QED
        BY <2>1, <2>3, <3>1, Lengths DEF Noted
    <2> QED
      BY <2>4, <2>5
  <1>9. CASE UNCHANGED <<chain, pool, clock, session>>
    <2>1. phase # "down"
      BY <1>9, Lengths DEF TypeOK, PhaseOK
    <2> QED
      BY <1>9, <2>1 DEF Kept, Noted
  <1> QED
    BY <1>1, <1>2, <1>3, <1>4, <1>5, <1>6, <1>7, <1>8, <1>9, OrderSteps

LEMMA NotedInPlace ==
  ASSUME TypeOK, NEW time, Noted(time)
  PROVE  time \in {b.timestamp : b \in Range(chain \o pool)}
  <1> DEFINE both == chain \o pool
  <1>1. /\ Len(both) = Len(chain) + Len(pool) /\ DOMAIN both = 1..Len(both)
        /\ \A i \in 1..Len(both) :
             both[i] = IF i <= Len(chain) THEN chain[i] ELSE pool[i - Len(chain)]
    <2>1. /\ chain \in Seq(Range(chain) \cup Range(pool))
          /\ pool \in Seq(Range(chain) \cup Range(pool))
      BY Lengths DEF IsBlockSeq
    <2> QED
      BY <2>1
  <1> HIDE DEF both
  <1>2. \E i \in 1..Len(both) : both[i].timestamp = time
    <2>1. CASE \E i \in 1..Len(chain) : chain[i].timestamp = time
      BY <1>1, <2>1, Lengths
    <2>2. CASE \E i \in 1..Len(pool) : pool[i].timestamp = time
      <3>1. PICK i \in 1..Len(pool) : pool[i].timestamp = time
        BY <2>2
      <3>2. /\ Len(chain) + i \in 1..Len(both) /\ ~(Len(chain) + i <= Len(chain))
            /\ Len(chain) + i - Len(chain) = i
        BY <1>1, Lengths
      <3>3. both[Len(chain) + i] = pool[i]
        BY <1>1, <3>2
      <3> QED
        BY <3>1, <3>2, <3>3
    <2> QED
      BY <2>1, <2>2 DEF Noted
  <1> QED
    BY <1>1, <1>2 DEF Range, both

LEMMA KeptMeans == TypeOK /\ Kept => EveryMarkKept
  BY NotedInPlace DEF Kept, EveryMarkKept

LEMMA KeptInit == NothingRefused /\ Init => Fits /\ Kept
  <1>1. Len(<<>>) = 0
    OBVIOUS
  <1> QED
    BY <1>1 DEF Init, Fits, Kept, TornFile, NothingRefused, MIN_DIFFICULTY, MAX_DIFFICULTY

\* Every mark made since the program was started is at the prompt either still
\* pending or confirmed, whichever commands mined and wherever the program was
\* killed, provided that no open and no write fails, difficulties are valid and
\* the chain has room (pending_remove_front, mining.c's loops).
THEOREM MarksAreKept == ASSUME NothingDropped PROVE Spec => []EveryMarkKept
  <1>1. Init => Fits /\ Kept
    BY KeptInit DEF NothingDropped
  <1>2. TypeOK /\ TypeOK' /\ Fits /\ Kept /\ [Next]_vars => Fits' /\ Kept'
    BY FitsInEveryStep, KeptInEveryStep
  <1> QED
    BY <1>1, <1>2, TypeCorrect, KeptMeans, PTL DEF Spec
-----------------------------------------------------------------------------
(* The abstract register. *)

\* A kill outside of a save is all that may go wrong.
RegisterWorks == NothingRefused /\ Faults \subseteq {"crash"}

\* What the refinement mapping comes to in each phase.
Located ==
  /\ phase \notin {"down", "saving"} => Unconfirmed = pool /\ Confirmed = Tail(chain)
  /\ phase = "down" => /\ Unconfirmed = pool
                       /\ Confirmed = IF file.whole THEN Tail(file.blocks) ELSE <<>>
  /\ phase = "saving" /\ mode = "boot" => Unconfirmed = pool /\ Confirmed = <<>>
  /\ phase = "saving" /\ mode = "tamper" =>
       Unconfirmed = pool /\ Confirmed = Tail(chain)
  /\ phase = "saving" /\ mode \in MiningModes =>
       /\ Unconfirmed = <<Tip(chain)>> \o pool
       /\ Confirmed = SubSeq(chain, 2, Len(chain) - 1)

LEMMA AlwaysLocated == TypeOK /\ FileMatchesChain => Located
  <1> SUFFICES ASSUME TypeOK, FileMatchesChain PROVE Located
    OBVIOUS
  <1>1. PhaseOK /\ file.whole \in BOOLEAN
    BY DEF TypeOK, FileOK
  <1>2. /\ "boot" \notin MiningModes /\ "tamper" \notin MiningModes
        /\ "none" \notin MiningModes
    BY DEF MiningModes
  <1> QED
    BY <1>1, <1>2 DEF Located, Unconfirmed, Confirmed, FileMatchesChain, PhaseOK

LEMMA MarksFacts ==
  ASSUME NEW s, Len(s) \in Nat
  PROVE  /\ MarksOf(s) \in Seq(Range(MarksOf(s))) /\ Len(MarksOf(s)) = Len(s)
         /\ \A i \in 1..Len(s) : MarksOf(s)[i] = MarkOf(s[i])
         /\ Range(MarksOf(s)) = {MarkOf(s[i]) : i \in 1..Len(s)}
  <1> DEFINE m == MarksOf(s)
  <1>1. m = [i \in 1..Len(s) |-> MarkOf(s[i])]
    BY DEF MarksOf
  <1>2. DOMAIN m = 1..Len(s) /\ \A i \in 1..Len(s) : m[i] = MarkOf(s[i])
    BY <1>1
  <1>3. Range(m) = {MarkOf(s[i]) : i \in 1..Len(s)}
    BY <1>2 DEF Range
  <1>4. m \in [1..Len(s) -> Range(m)]
    BY <1>1, <1>3
  <1> HIDE DEF m
  <1>5. m \in Seq(Range(m)) /\ Len(m) = Len(s)
    BY <1>2, <1>4
  <1> QED
    BY <1>2, <1>3, <1>5 DEF m

LEMMA SameMarks ==
  ASSUME NEW s, NEW t, Len(s) = Len(t), \A i \in 1..Len(s) : MarkOf(s[i]) = MarkOf(t[i])
  PROVE  MarksOf(s) = MarksOf(t)
  BY DEF MarksOf

LEMMA MarksOfNone == MarksOf(<<>>) = <<>>
  <1>1. Len(<<>>) = 0
    OBVIOUS
  <1>2. Len(MarksOf(<<>>)) = 0 /\ MarksOf(<<>>) \in Seq(Range(MarksOf(<<>>)))
    BY <1>1, MarksFacts
  <1> QED
    BY <1>2, EmptySeq

LEMMA MarksOfAppended ==
  ASSUME NEW S, NEW s \in Seq(S), NEW b
  PROVE  MarksOf(Append(s, b)) = Append(MarksOf(s), MarkOf(b))
  <1> DEFINE t == Append(s, b)
             m == MarksOf(s)
             n == Append(m, MarkOf(b))
  <1>1. /\ Len(s) \in Nat /\ Len(t) = Len(s) + 1 /\ t[Len(s) + 1] = b
        /\ \A i \in 1..Len(s) : t[i] = s[i]
    <2>1. s \in Seq(S \cup {b})
      OBVIOUS
    <2> QED
      BY <2>1
  <1>2. /\ m \in Seq(Range(m)) /\ Len(m) = Len(s)
        /\ \A i \in 1..Len(s) : m[i] = MarkOf(s[i])
    BY <1>1, MarksFacts
  <1> HIDE DEF m, t
  <1>3. /\ n \in Seq(Range(m) \cup {MarkOf(b)}) /\ Len(n) = Len(s) + 1
        /\ n[Len(s) + 1] = MarkOf(b) /\ \A i \in 1..Len(s) : n[i] = MarkOf(s[i])
    <2>1. m \in Seq(Range(m) \cup {MarkOf(b)})
      BY <1>2
    <2> QED
      BY <1>1, <1>2, <2>1
  <1> HIDE DEF n
  <1>4. Len(t) \in Nat
    BY <1>1
  <1>5. /\ MarksOf(t) \in Seq(Range(MarksOf(t))) /\ Len(MarksOf(t)) = Len(t)
        /\ \A i \in 1..Len(t) : MarksOf(t)[i] = MarkOf(t[i])
    BY <1>4, MarksFacts
  <1>6. ASSUME NEW i \in 1..Len(t) PROVE MarksOf(t)[i] = n[i]
    <2>1. i \in 1..Len(s) \/ i = Len(s) + 1
      BY <1>1
    <2> QED
      BY <1>1, <1>3, <1>5, <2>1
  <1>7. /\ MarksOf(t) \in Seq(Range(MarksOf(t)) \cup Range(m) \cup {MarkOf(b)})
        /\ n \in Seq(Range(MarksOf(t)) \cup Range(m) \cup {MarkOf(b)})
    BY <1>3, <1>5
  <1>8. MarksOf(t) = n
    BY <1>1, <1>3, <1>5, <1>6, <1>7, SeqEqual
  <1> QED
    BY <1>8 DEF n, t, m

LEMMA MarksOfTail ==
  ASSUME NEW S, NEW s \in Seq(S), s # <<>>
  PROVE  /\ MarksOf(s) # <<>> /\ Head(MarksOf(s)) = MarkOf(Head(s))
         /\ Tail(MarksOf(s)) = MarksOf(Tail(s))
  <1> DEFINE m == MarksOf(s)
             t == Tail(s)
             n == Tail(m)
  <1>1. /\ Len(s) \in Nat \ {0} /\ t \in Seq(S) /\ Len(t) = Len(s) - 1
        /\ \A i \in 1..Len(s) - 1 : t[i] = s[i + 1]
        /\ Head(s) = s[1]
    OBVIOUS
  <1>2. /\ m \in Seq(Range(m)) /\ Len(m) = Len(s)
        /\ \A i \in 1..Len(s) : m[i] = MarkOf(s[i])
    BY <1>1, MarksFacts
  <1> HIDE DEF m, t
  <1>3. /\ m # <<>> /\ n \in Seq(Range(m)) /\ Len(n) = Len(s) - 1
        /\ \A i \in 1..Len(s) - 1 : n[i] = m[i + 1]
        /\ Head(m) = m[1]
    BY <1>1, <1>2
  <1> HIDE DEF n
  <1>4. Len(t) \in Nat
    BY <1>1
  <1>5. /\ MarksOf(t) \in Seq(Range(MarksOf(t))) /\ Len(MarksOf(t)) = Len(t)
        /\ \A i \in 1..Len(t) : MarksOf(t)[i] = MarkOf(t[i])
    BY <1>4, MarksFacts
  <1>6. ASSUME NEW i \in 1..Len(t) PROVE MarksOf(t)[i] = n[i]
    <2>1. i \in 1..Len(s) - 1 /\ i + 1 \in 1..Len(s)
      BY <1>1
    <2> QED
      BY <1>1, <1>2, <1>3, <1>5, <2>1
  <1>7. /\ MarksOf(t) \in Seq(Range(MarksOf(t)) \cup Range(m))
        /\ n \in Seq(Range(MarksOf(t)) \cup Range(m))
    BY <1>3, <1>5
  <1>8. MarksOf(t) = n
    BY <1>1, <1>3, <1>5, <1>6, <1>7, SeqEqual
  <1> QED
    BY <1>1, <1>2, <1>3, <1>8 DEF m, t, n

\* Without its first block a chain is its middle and its tip.
LEMMA MiddleAndTip ==
  ASSUME NEW S, NEW s \in Seq(S), Len(s) >= 2
  PROVE  /\ SubSeq(s, 2, Len(s) - 1) \in Seq(S)
         /\ Len(SubSeq(s, 2, Len(s) - 1)) = Len(s) - 2
         /\ \A i \in 1..Len(s) - 2 : SubSeq(s, 2, Len(s) - 1)[i] = s[i + 1]
         /\ Tail(s) = Append(SubSeq(s, 2, Len(s) - 1), Tip(s))
  <1> DEFINE mid == SubSeq(s, 2, Len(s) - 1)
             whole == Append(mid, Tip(s))
  <1>1. /\ Len(s) \in Nat \ {0} /\ Tail(s) \in Seq(S) /\ Len(Tail(s)) = Len(s) - 1
        /\ \A i \in 1..Len(s) - 1 : Tail(s)[i] = s[i + 1]
    OBVIOUS
  <1>2. /\ mid \in Seq(S) /\ Len(mid) = Len(s) - 2
        /\ \A i \in 1..Len(s) - 2 : mid[i] = s[i + 1]
    <2>1. \A i \in 2..Len(s) - 1 : s[i] \in S
      BY <1>1
    <2>2. /\ SubSeq(s, 2, Len(s) - 1) \in Seq(S)
          /\ Len(SubSeq(s, 2, Len(s) - 1)) =
               IF 2 <= Len(s) - 1 THEN Len(s) - 1 - 2 + 1 ELSE 0
          /\ \A i \in 1..Len(s) - 1 - 2 + 1 :
               SubSeq(s, 2, Len(s) - 1)[i] = s[2 + i - 1]
      BY <1>1, <2>1, SubSeqProperties
    <2> HIDE DEF mid
    <2>3. Len(s) - 1 - 2 + 1 = Len(s) - 2 /\ \A i \in Int : 2 + i - 1 = i + 1
      BY <1>1
    <2> QED
      BY <1>1, <2>2, <2>3 DEF mid
  <1>3. Tip(s) = s[Len(s)] /\ Tip(s) \in S
    BY <1>1 DEF Tip
  <1> HIDE DEF mid
  <1>4. /\ whole \in Seq(S) /\ Len(whole) = Len(s) - 1
        /\ \A i \in 1..Len(s) - 2 : whole[i] = mid[i]
        /\ whole[Len(s) - 1] = Tip(s)
    <2>1. Len(mid) + 1 = Len(s) - 1
      BY <1>1, <1>2
    <2>2. /\ whole \in Seq(S) /\ Len(whole) = Len(mid) + 1
          /\ \A i \in 1..Len(mid) : whole[i] = mid[i]
          /\ whole[Len(mid) + 1] = Tip(s)
      BY <1>2, <1>3
    <2> QED
      BY <1>2, <2>1, <2>2
  <1> HIDE DEF whole
  <1>5. ASSUME NEW i \in 1..Len(s) - 1 PROVE Tail(s)[i] = whole[i]
    <2>1. CASE i = Len(s) - 1
      <3>1. i + 1 = Len(s)
        BY <1>1, <2>1
      <3> QED
        BY <1>1, <1>3, <1>4, <2>1, <3>1
    <2>2. CASE i # Len(s) - 1
      <3> DEFINE l == Len(s)
      <3>a. l \in Nat /\ l >= 2 /\ i \in 1..l - 1 /\ i # l - 1
        BY <1>1, <2>2
      <3> HIDE DEF l
      <3>b. i \in 1..l - 2
        BY <3>a
      <3>1. i \in 1..Len(s) - 2
        BY <3>b DEF l
      <3> QED
        BY <1>1, <1>2, <1>4, <3>1
    <2> QED
      BY <2>1, <2>2
  <1>6. Tail(s) = whole
    BY <1>1, <1>4, <1>5, SeqEqual
  <1> QED
    BY <1>2, <1>6 DEF mid, whole

LEMMA InFront ==
  ASSUME NEW S, NEW s \in Seq(S), NEW b
  PROVE  LET t == <<b>> \o s
         IN  /\ t \in Seq(S \cup {b}) /\ Len(t) = Len(s) + 1 /\ t # <<>>
             /\ Head(t) = b /\ t[1] = b /\ Tail(t) = s
             /\ \A i \in 1..Len(s) : t[i + 1] = s[i]
  <1> DEFINE t == <<b>> \o s
  <1>1. s \in Seq(S \cup {b}) /\ <<b>> \in Seq(S \cup {b}) /\ Len(s) \in Nat
    OBVIOUS
  <1>2. /\ t \in Seq(S \cup {b}) /\ Len(t) = Len(s) + 1
        /\ t[1] = b /\ \A i \in 1..Len(s) : t[i + 1] = s[i]
    <2>1. /\ t \in Seq(S \cup {b}) /\ Len(t) = 1 + Len(s)
          /\ \A i \in 1..1 + Len(s) : t[i] = IF i <= 1 THEN <<b>>[i] ELSE s[i - 1]
      BY <1>1
    <2> HIDE DEF t
    <2>2. \A i \in 1..Len(s) :
            i + 1 \in 1..1 + Len(s) /\ ~(i + 1 <= 1) /\ i + 1 - 1 = i
      BY <1>1
    <2> QED
      BY <1>1, <2>1, <2>2
  <1> HIDE DEF t
  <1>3. t # <<>> /\ Head(t) = b
    BY <1>1, <1>2
  <1>4. /\ Tail(t) \in Seq(S \cup {b}) /\ Len(Tail(t)) = Len(s)
        /\ \A i \in 1..Len(s) : Tail(t)[i] = s[i]
    BY <1>1, <1>2, <1>3
  <1>5. Tail(t) = s
    BY <1>1, <1>4, SeqEqual
  <1> QED
    BY <1>2, <1>3, <1>5 DEF t
-----------------------------------------------------------------------------
(* The steps of the program as steps of the register. *)

Register_vars == <<MarksOf(Unconfirmed), MarksOf(Confirmed)>>

LEMMA RegisterQuiet ==
  ASSUME TypeOK, TypeOK', Located, Located', UNCHANGED <<chain, pool, file>>,
         UNCHANGED <<phase, mode>> \/ (phase # "saving" /\ phase' # "saving")
  PROVE  UNCHANGED Register_vars
  <1>1. CASE UNCHANGED <<phase, mode>>
    <2>1. UNCHANGED Unconfirmed /\ UNCHANGED Confirmed
      BY <1>1 DEF Unconfirmed, Confirmed, Tip
    <2> QED
      BY <2>1 DEF Register_vars
  <1>2. CASE phase # "saving" /\ phase' # "saving"
    <2>1. phase = "down" <=> phase' = "down"
      BY DEF TypeOK, PhaseOK
    <2>2. UNCHANGED Unconfirmed /\ UNCHANGED Confirmed
      BY <1>2, <2>1 DEF Located
    <2> QED
      BY <2>2 DEF Register_vars
  <1> QED
    BY <1>1, <1>2

LEMMA RegisterRestart ==
  ASSUME TypeOK, TypeOK', Located, Located', FileMatchesChain,
         BootFromFile \/ BootFresh \/ (Halt /\ phase # "saving")
  PROVE  Register!Restart
  <1>1. CASE BootFromFile
    <2>1. Unconfirmed' = <<>>
      BY <1>1 DEF BootFromFile, Start, Located
    <2>2. Confirmed' = Tail(file.blocks)
      BY <1>1 DEF BootFromFile, Located
    <2>3. Confirmed = Tail(file.blocks)
      BY <1>1 DEF BootFromFile, Start, Located
    <2> QED
      BY <2>1, <2>2, <2>3, MarksOfNone DEF Register!Restart
  <1>2. CASE BootFresh
    <2>1. Unconfirmed' = <<>> /\ Confirmed' = <<>>
      BY <1>2 DEF BootFresh, Start, Located
    <2>2. Confirmed = <<>>
      BY <1>2 DEF BootFresh, Start, Located
    <2> QED
      BY <2>1, <2>2, MarksOfNone DEF Register!Restart
  <1>3. CASE Halt /\ phase # "saving"
    <2>1. /\ Unconfirmed' = <<>>
          /\ Confirmed' = IF file.whole THEN Tail(file.blocks) ELSE <<>>
      BY <1>3 DEF Halt, Located
    <2>2. Confirmed = IF file.whole THEN Tail(file.blocks) ELSE <<>>
      BY <1>3 DEF Located, FileMatchesChain
    <2> QED
      BY <2>1, <2>2, MarksOfNone DEF Register!Restart
  <1> QED
    BY <1>1, <1>2, <1>3

LEMMA RegisterMark ==
  ASSUME RegisterWorks, TypeOK, Located, Located', FileMatchesChain, Ordered,
         NEW s \in Students, NEW status \in ValidStatus, MarkAttendance(s, status)
  PROVE  Register!MarkOne
  <1>1. /\ phase = "idle" /\ clock < MaxClock
        /\ UNCHANGED <<phase, mode, chain, file>>
    BY MarkedNow
  <1>2. PICK b : /\ pool' = Append(pool, b)
                 /\ MarkOf(b) = [stamp |-> clock, student |-> s,
                                 reward |-> TokenRewardForStatus(status)]
    BY MarkedNow
  <1>3. /\ Unconfirmed = pool /\ Unconfirmed' = Append(pool, b)
        /\ Confirmed = Tail(chain) /\ Confirmed' = Tail(chain)
    BY <1>1, <1>2 DEF Located
  <1>4. /\ chain \in Seq(Range(chain)) /\ pool \in Seq(Range(pool)) /\ chain # <<>>
        /\ Len(chain) \in Nat /\ Len(pool) \in Nat /\ clock \in Nat
    BY <1>1, Lengths DEF IsBlockSeq
  <1>5. MarksOf(Append(pool, b)) = Append(MarksOf(pool), MarkOf(b))
    BY <1>4, MarksOfAppended
  <1>6. ASSUME NEW mark \in Range(MarksOf(pool)) PROVE mark.stamp < clock
    <2>1. PICK i \in 1..Len(pool) : mark = MarkOf(pool[i])
      BY <1>4, MarksFacts
    <2> QED
      BY <2>1 DEF Ordered, Past, MarkOf
  <1>7. ASSUME NEW mark \in Range(MarksOf(Tail(chain))) PROVE mark.stamp < clock
    <2>1. /\ Len(Tail(chain)) \in Nat /\ Len(Tail(chain)) = Len(chain) - 1
          /\ \A i \in 1..Len(chain) - 1 : Tail(chain)[i] = chain[i + 1]
      BY <1>4
    <2>2. PICK i \in 1..Len(Tail(chain)) : mark = MarkOf(Tail(chain)[i])
      BY <2>1, MarksFacts
    <2>3. i + 1 \in 1..Len(chain) /\ mark = MarkOf(chain[i + 1])
      BY <1>4, <2>1, <2>2
    <2> QED
      BY <2>3 DEF Ordered, Past, MarkOf
  <1>8. clock \in 0..MaxClock
    BY <1>1, <1>4 DEF RegisterWorks, NothingRefused
  <1>9. TokenRewardForStatus(status) \in {REWARD_PRESENT, REWARD_LATE, REWARD_ABSENT}
    BY DEF TokenRewardForStatus
  <1> QED
    <2> DEFINE reward == TokenRewardForStatus(status)
    <2> HIDE DEF reward
    <2>1. \A mark \in Range(MarksOf(Unconfirmed)) \cup Range(MarksOf(Confirmed)) :
            mark.stamp < clock
      BY <1>3, <1>6, <1>7
    <2>2. MarksOf(Unconfirmed') =
            Append(MarksOf(Unconfirmed),
                   [stamp |-> clock, student |-> s, reward |-> reward])
      BY <1>2, <1>3, <1>5 DEF reward
    <2>3. reward \in {REWARD_PRESENT, REWARD_LATE, REWARD_ABSENT}
      BY <1>9 DEF reward
    <2>4. MarksOf(Confirmed') = MarksOf(Confirmed)
      BY <1>3
    <2> QED
      BY <1>8, <2>1, <2>2, <2>3, <2>4 DEF Register!MarkOne, Register!Range, Range

LEMMA RegisterTamper ==
  ASSUME RegisterWorks, TypeOK, Located, Located', NEW i \in 2..Len(chain), Tamper(i)
  PROVE  UNCHANGED Register_vars
  <1>1. /\ IsBlockSeq(chain) /\ Len(chain') = Len(chain) /\ phase = "idle"
        /\ \A j \in 1..Len(chain) :
             chain'[j] = IF j = i THEN Tampered(chain[j]) ELSE chain[j]
        /\ phase' = "saving" /\ mode' = "tamper" /\ pool' = pool
    BY TamperStep DEF Tamper, RegisterWorks
  <1>2. \A b : IsBlock(b) => MarkOf(Tampered(b)) = MarkOf(b)
    BY DEF IsBlock, Tampered, MarkOf
  <1>3. \A j \in 1..Len(chain) : MarkOf(chain'[j]) = MarkOf(chain[j])
    BY <1>1, <1>2 DEF IsBlockSeq
  <1>4. /\ IsBlockSeq(chain') /\ chain # <<>> /\ chain' # <<>>
        /\ chain \in Seq(Range(chain)) /\ chain' \in Seq(Range(chain'))
    <2>1. i \in 1..Len(chain) /\ Len(chain) \in Nat
      BY <1>1 DEF IsBlockSeq
    <2>2. IsBlockSeq(chain')
      BY <1>1, <2>1, TamperBlockSeq DEF Tamper
    <2> QED
      BY <1>1, <2>1, <2>2 DEF IsBlockSeq
  <1>5. /\ Len(Tail(chain)) = Len(chain) - 1 /\ Len(Tail(chain')) = Len(chain) - 1
        /\ \A j \in 1..Len(chain) - 1 :
             /\ Tail(chain)[j] = chain[j + 1] /\ Tail(chain')[j] = chain'[j + 1]
             /\ j + 1 \in 1..Len(chain)
    BY <1>1, <1>4
  <1>6. MarksOf(Tail(chain')) = MarksOf(Tail(chain))
    BY <1>3, <1>5, SameMarks
  <1> QED
    BY <1>1, <1>6 DEF Located, Register_vars

LEMMA RegisterMineFront ==
  ASSUME RegisterWorks, TypeOK, Located, Located', Fits, MineFront
  PROVE  UNCHANGED Register_vars
  <1>1. /\ phase = "mining" /\ phase' = "saving" /\ mode' = mode /\ mode \in MiningModes
        /\ pool # <<>> /\ pool' = Tail(pool)
        /\ \E b : /\ IsBlock(b) /\ MarkOf(b) = MarkOf(Head(pool))
                  /\ chain' = Append(chain, b)
    BY MinedForward DEF RegisterWorks
  <1>2. PICK b : /\ IsBlock(b) /\ MarkOf(b) = MarkOf(Head(pool))
                 /\ chain' = Append(chain, b)
    BY <1>1
  <1>3. /\ Unconfirmed = pool /\ Confirmed = Tail(chain)
        /\ Unconfirmed' = <<Tip(chain')>> \o Tail(pool)
        /\ Confirmed' = SubSeq(chain', 2, Len(chain') - 1)
    BY <1>1 DEF Located
  <1>4. /\ IsBlockSeq(chain) /\ chain \in Seq(Range(chain)) /\ chain # <<>>
        /\ Len(chain) \in Nat \ {0}
        /\ pool \in Seq(Range(pool)) /\ Len(pool) \in Nat \ {0}
    BY <1>1, Lengths DEF IsBlockSeq
  <1>5. /\ Len(chain') = Len(chain) + 1 /\ chain'[Len(chain) + 1] = b
        /\ \A i \in 1..Len(chain) : chain'[i] = chain[i]
        /\ chain' \in Seq(Range(chain')) /\ Tip(chain') = b
    BY <1>2, <1>4, AppendBlockSeq DEF IsBlockSeq, Tip
  <1>6. MarksOf(Unconfirmed') = MarksOf(pool)
    <2>1. /\ Tail(pool) \in Seq(Range(pool)) /\ Len(Tail(pool)) = Len(pool) - 1
          /\ Head(pool) = pool[1]
          /\ \A i \in 1..Len(pool) - 1 : Tail(pool)[i] = pool[i + 1]
      BY <1>1, <1>4
    <2> DEFINE t == <<b>> \o Tail(pool)
    <2>2. /\ Len(t) = Len(Tail(pool)) + 1 /\ t[1] = b
          /\ \A i \in 1..Len(Tail(pool)) : t[i + 1] = Tail(pool)[i]
      BY <2>1, InFront
    <2> HIDE DEF t
    <2>3. Len(t) = Len(pool)
      BY <1>4, <2>1, <2>2
    <2>4. ASSUME NEW i \in 1..Len(pool) PROVE MarkOf(t[i]) = MarkOf(pool[i])
      <3>1. CASE i = 1
        BY <1>2, <2>1, <2>2, <3>1
      <3>2. CASE i # 1
        <4>1. i - 1 \in 1..Len(pool) - 1 /\ i - 1 + 1 = i
          BY <1>4, <3>2
        <4>2. t[i - 1 + 1] = Tail(pool)[i - 1] /\ Tail(pool)[i - 1] = pool[i - 1 + 1]
          BY <2>1, <2>2, <4>1
        <4> QED
          BY <4>1, <4>2
      <3> QED
        BY <3>1, <3>2
    <2>5. MarksOf(t) = MarksOf(pool)
      BY <2>3, <2>4, SameMarks
    <2> QED
      BY <1>3, <1>5, <2>5 DEF t
  <1>7. MarksOf(Confirmed') = MarksOf(Tail(chain))
    <2> DEFINE t == SubSeq(chain', 2, Len(chain') - 1)
    <2>1. Len(chain') >= 2
      BY <1>4, <1>5
    <2>2. /\ Len(t) = Len(chain') - 2
          /\ \A i \in 1..Len(chain') - 2 : t[i] = chain'[i + 1]
      BY <1>5, <2>1, MiddleAndTip
    <2> HIDE DEF t
    <2>3. /\ Len(Tail(chain)) = Len(chain) - 1
          /\ \A i \in 1..Len(chain) - 1 : Tail(chain)[i] = chain[i + 1]
      BY <1>4
    <2>4. Len(chain') - 2 = Len(chain) - 1 /\ \A i \in 1..Len(chain) - 1 : i + 1 \in 1..Len(chain)
      BY <1>4, <1>5
    <2>5. Len(t) = Len(Tail(chain)) /\ \A i \in 1..Len(t) : t[i] = Tail(chain)[i]
      BY <1>5, <2>2, <2>3, <2>4
    <2>6. MarksOf(t) = MarksOf(Tail(chain))
      BY <2>5, SameMarks
    <2> QED
      BY <1>3, <2>6 DEF t
  <1> QED
    BY <1>3, <1>6, <1>7 DEF Register_vars

LEMMA RegisterSaved ==
  ASSUME RegisterWorks, TypeOK, TypeOK', Located, Located', SaveSucceeds
  PROVE  Register!ConfirmOne \/ UNCHANGED Register_vars
  <1>1. /\ phase = "saving" /\ phase' \notin {"down", "saving"}
        /\ UNCHANGED <<chain, pool>> /\ IsBlockSeq(chain)
        /\ mode \in MiningModes \cup {"boot", "tamper"}
    BY Lengths DEF SaveSucceeds, Done, memory, TypeOK, PhaseOK
  <1>2. Unconfirmed' = pool /\ Confirmed' = Tail(chain)
    BY <1>1 DEF Located
  <1>3. CASE mode = "boot"
    <2>1. Unconfirmed = pool /\ Confirmed = <<>>
      BY <1>1, <1>3 DEF Located
    <2>2. Tail(chain) = <<>>
      <3>1. chain \in Seq(Range(chain)) /\ Len(chain) = 1
        BY <1>1, <1>3 DEF TypeOK, PhaseOK, IsBlockSeq
      <3>2. Tail(chain) \in Seq(Range(chain)) /\ Len(Tail(chain)) = 0
        <4>1. chain # <<>>
          BY <1>1, Lengths
        <4>2. Tail(chain) \in Seq(Range(chain)) /\ Len(Tail(chain)) = Len(chain) - 1
          BY <3>1, <4>1
        <4> QED
          BY <3>1, <4>2
      <3> QED
        BY <3>2, EmptySeq
    <2> QED
      BY <1>2, <2>1, <2>2 DEF Register_vars
  <1>4. CASE mode = "tamper"
    <2>1. Unconfirmed = pool /\ Confirmed = Tail(chain)
      BY <1>1, <1>4 DEF Located
    <2> QED
      BY <1>2, <2>1 DEF Register_vars
  <1>5. CASE mode \in MiningModes
    <2>1. /\ Unconfirmed = <<Tip(chain)>> \o pool
          /\ Confirmed = SubSeq(chain, 2, Len(chain) - 1)
      BY <1>1, <1>5 DEF Located
    <2>2. /\ chain \in Seq(Range(chain)) /\ Len(chain) >= 2
          /\ pool \in Seq(Range(pool))
      BY <1>1, <1>5, Lengths DEF TypeOK, PhaseOK, IsBlockSeq
    <2> DEFINE queue == <<Tip(chain)>> \o pool
               middle == SubSeq(chain, 2, Len(chain) - 1)
    <2>3. /\ queue \in Seq(Range(pool) \cup {Tip(chain)}) /\ queue # <<>>
          /\ Head(queue) = Tip(chain) /\ Tail(queue) = pool
      BY <2>2, InFront
    <2>4. middle \in Seq(Range(chain)) /\ Tail(chain) = Append(middle, Tip(chain))
      BY <2>2, MiddleAndTip
    <2>5. Unconfirmed = queue /\ Confirmed = middle
      BY <2>1
    <2> HIDE DEF queue, middle
    <2>6. /\ MarksOf(queue) # <<>> /\ Head(MarksOf(queue)) = MarkOf(Tip(chain))
          /\ Tail(MarksOf(queue)) = MarksOf(pool)
      BY <2>3, MarksOfTail
    <2>7. MarksOf(Tail(chain)) = Append(MarksOf(middle), MarkOf(Tip(chain)))
      BY <2>4, MarksOfAppended
    <2> QED
      BY <1>2, <2>5, <2>6, <2>7 DEF Register!ConfirmOne
  <1> QED
    BY <1>1, <1>3, <1>4, <1>5

LEMMA RegisterInEveryStep ==
  ASSUME RegisterWorks, TypeOK, TypeOK', FileMatchesChain, FileMatchesChain', Ordered,
         Fits, [Next]_vars
  PROVE  [Register!Next]_Register_vars
  <1>1. Located /\ Located'
    BY AlwaysLocated, PTL
  <1>2. CASE BootFromFile \/ BootFresh
    BY <1>1, <1>2, RegisterRestart DEF Register!Next
  <1>3. CASE Halt
    <2>1. phase # "saving"
      <3>1. CASE phase = "saving"
        <4>1. Next
          BY <1>3, <3>1 DEF Halt, vars
        <4>2. SaveSucceeds \/ SaveFails \/ Crash
          BY <3>1, <4>1, SavingSteps
        <4> QED
          BY <1>3, <3>1, <4>2 DEF SaveSucceeds, SaveFails, Crash, RegisterWorks, Halt, Done
      <3> QED
        BY <3>1
    <2> QED
      BY <1>1, <1>3, <2>1, RegisterRestart DEF Register!Next
  <1>4. CASE MineFront
    BY <1>1, <1>4, RegisterMineFront
  <1>5. CASE SaveSucceeds
    BY <1>1, <1>5, RegisterSaved DEF Register!Next
  <1>6. CASE SaveFails
    BY <1>6 DEF SaveFails, RegisterWorks
  <1>7. CASE \E i \in 2..Len(chain) : Tamper(i)
    BY <1>1, <1>7, RegisterTamper
  <1>8. CASE \E s \in Students, status \in ValidStatus : MarkAttendance(s, status)
    BY <1>1, <1>8, RegisterMark DEF Register!Next
  <1>9. CASE /\ UNCHANGED <<chain, pool, file>>
             /\ \/ UNCHANGED <<phase, mode>>
                \/ phase # "saving" /\ phase' # "saving"
    BY <1>1, <1>9, RegisterQuiet
  <1> QED
    BY <1>2, <1>3, <1>4, <1>5, <1>6, <1>7, <1>8, <1>9, OrderSteps

LEMMA RegisterInit == Init => Register!Init
  <1> SUFFICES ASSUME Init PROVE Register!Init
    OBVIOUS
  <1>1. Unconfirmed = <<>> /\ Confirmed = <<>>
    BY DEF Init, Unconfirmed, Confirmed, TornFile, MiningModes
  <1> QED
    BY <1>1, MarksOfNone DEF Register!Init

\* The program implements the abstract register: marks are confirmed one by
\* one, oldest first, each once, and nothing confirmed is ever taken back,
\* across all mining commands, tampering, restarts and kills outside of a save,
\* provided that nothing else goes wrong (mining.c, blockchain.c, pending.c).
THEOREM RegisterIsImplemented == ASSUME RegisterWorks PROVE Spec => ImplementsRegister
  <1>1. Init => Fits /\ Kept
    BY KeptInit DEF RegisterWorks
  <1>2. NothingDropped /\ FileWorks
    BY DEF RegisterWorks, NothingDropped, FileWorks
  <1>3. Spec => []FileMatchesChain
    BY <1>2, FileIsChain
  <1>4. TypeOK /\ TypeOK' /\ Fits /\ [Next]_vars => Fits'
    BY <1>2, FitsInEveryStep
  <1>5. Init => Ordered
    BY EmptyOrdered DEF Init, Ordered, TornFile
  <1>6. /\ TypeOK /\ TypeOK' /\ FileMatchesChain /\ FileMatchesChain'
        /\ Ordered /\ Fits /\ [Next]_vars
        => [Register!Next]_Register_vars
    BY RegisterInEveryStep
  <1>7. Init => Register!Init
    BY RegisterInit
  <1> QED
    BY <1>1, <1>3, <1>4, <1>5, <1>6, <1>7, TypeCorrect, OrderInEveryStep, PTL
    DEF Spec, ImplementsRegister, Register!Spec, Register_vars
=============================================================================
