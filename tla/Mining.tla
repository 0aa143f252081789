------------------------------- MODULE Mining -------------------------------
(***************************************************************************)
(* The confirmation path of the program: the pending pool (pending.c), the *)
(* confirmed chain and its file (blockchain.c), the three mining commands  *)
(* (mining.c) and the command loop that drives them (main.c).              *)
(*                                                                         *)
(* The program is sequential, so a step is one stretch of it between the   *)
(* points where the outside world can tell the difference: a command that  *)
(* changes memory only is one step, but a command that saves the chain is  *)
(* split where fopen(path, "wb") has emptied the file and where it has     *)
(* been closed again, because the process may stop in between.             *)
(***************************************************************************)
EXTENDS Blockchain, TokenLedger, MachineInt, FiniteSetsExt, Functions

CONSTANTS
  SOLO_MINER, CLOUD_USER,   \* two of the Miners
  PoolMiner,                \* the sequence POOL001, POOL002, ... of Miners
  MAX_BLOCKS, MAX_PENDING, MAX_POOL_MINERS,
  DifficultyInputs,         \* arguments of --difficulty and of difficulty
  TamperInputs,             \* arguments of tamper, counted from one
  Modes, Models,            \* the mining commands and ledger models in use
  MinerCounts,              \* arguments of "mine pool"
  HashRates,                \* what 50 + rand() % 151 may return
  CloudRounds, CloudFees,   \* arguments of "mine cloud"; fees are per round
  Clippings,                \* whether a signature may be, or not be, clipped
  Faults,                   \* what the environment may do to the process
  MaxZeros, MaxClock, MaxBoots  \* bounds of the model

AllFaults == {"crash",          \* killed, but not while it saves
              "crash_in_save",  \* killed between fopen and fclose
              "open",           \* fopen for writing fails
              "write",          \* fwrite reports an error
              "flush"}          \* fclose cannot write what fwrite buffered

ASSUME MiningAssumption ==
  /\ IsFiniteSet(Owners \cup TypedIds) /\ Cardinality(Students) <= MAX_STUDENTS
  /\ {SOLO_MINER, CLOUD_USER} \subseteq Miners /\ SOLO_MINER # CLOUD_USER
  /\ MAX_POOL_MINERS \in Nat \ {0}
  /\ PoolMiner \in [1..MAX_POOL_MINERS -> Miners \ {SOLO_MINER, CLOUD_USER}]
  /\ {MAX_BLOCKS, MAX_PENDING, MAX_STUDENTS, MAX_UTXOS} \subseteq Nat \ {0}
  /\ Models \subseteq LedgerModels
  /\ DifficultyInputs \subseteq Int /\ MinerCounts \subseteq Int
  /\ HashRates \subseteq 50..200
  /\ CloudRounds \subseteq Int /\ CloudFees \subseteq Int
  /\ Clippings \subseteq BOOLEAN /\ Faults \subseteq AllFaults
  /\ MaxZeros \in Nat

VARIABLES
  phase,       \* where the process is
  mode,        \* the command being executed, or "none"
  chain, pool, difficulty, ledger,  \* the variables of main
  miners, attempts, total, earnings, \* locals of mining_pool and mining_cloud
  file         \* attendance_chain.dat

VARIABLES      \* bookkeeping of the model
  clock,       \* time(NULL), advanced by every block created
  boots,       \* how often the program was started
  session,     \* the clock when it was last started
  base,        \* the length of the chain when the ledger was last reset
  confirmed    \* every block blockchain_save ever reported written

memory == <<chain, pool, difficulty, ledger, base>>
poolJob == <<miners, attempts, total, earnings>>
vars == <<phase, mode, chain, pool, difficulty, ledger, miners, attempts,
          total, earnings, file, clock, boots, session, base, confirmed>>

Phases == {"down",       \* not running
           "idle",       \* at the prompt
           "saving",     \* in blockchain_save, the file truncated
           "hashing",    \* drawing the hash rates of the pool
           "paying",     \* paying the miners of the pool
           "mining",     \* at the top of the loop over pending blocks
           "crediting"}  \* block saved, ledger not yet updated

MiningModes == {"solo", "pool", "cloud"}

TornFile == [whole |-> FALSE, blocks |-> <<>>]

\* Variant with a bug: the chain is saved before its last block is appended.
FileOneBehind(blocks) ==
  [whole |-> TRUE,
   blocks |-> IF Len(blocks) = 1 THEN blocks ELSE SubSeq(blocks, 1, Len(blocks) - 1)]

WholeFile(blocks) == [whole |-> TRUE, blocks |-> blocks]

\* Variant with a bug: a new block goes to the front.
PendingAddInFront(blocks, b) == <<b>> \o blocks

\* pending_add, where there is room.
PendingAdd(blocks, b) == Append(blocks, b)

\* Variants with a bug: all blocks are removed, or none.
PendingRemoveAll(blocks) == <<>>
PendingPeek(blocks) == blocks

\* pending_remove_front, where there is a front.
PendingRemoveFront(blocks) == Tail(blocks)

\* Variant with a bug: the block stays on the chain.
NothingTakenBack(blocks) == blocks

\* blockchain_append_mined_block takes a block back that could not be saved.
WithoutTip(blocks) == SubSeq(blocks, 1, Len(blocks) - 1)

Clamp(d) == IF d < MIN_DIFFICULTY THEN MIN_DIFFICULTY
            ELSE IF d > MAX_DIFFICULTY THEN MAX_DIFFICULTY ELSE d

NoPoolJob == miners' = 0 /\ attempts' = <<>> /\ total' = 0 /\ earnings' = 0

\* The command is over and the prompt is back.
Done == phase' = "idle" /\ mode' = "none" /\ NoPoolJob

-----------------------------------------------------------------------------
(* Start-up, shutdown and crashes.                                         *)

Init ==
  /\ phase = "down" /\ mode = "none" /\ file = TornFile
  /\ chain = <<>> /\ pool = <<>> /\ difficulty = MIN_DIFFICULTY
  /\ ledger = LedgerInit("utxo")
  /\ miners = 0 /\ attempts = <<>> /\ total = 0 /\ earnings = 0
  /\ clock = 0 /\ boots = 0 /\ session = 0 /\ base = 0 /\ confirmed = {}

\* What both ways to start have in common: options, empty pool and ledger.
Start ==
  /\ phase = "down" /\ boots < MaxBoots
  /\ boots' = boots + 1 /\ session' = clock
  /\ pool' = <<>>
  /\ \E d \in DifficultyInputs : difficulty' = Clamp(d)
  /\ \E m \in Models : ledger' = LedgerInit(m)
  /\ UNCHANGED <<poolJob, confirmed>>

\* blockchain_load succeeds.
BootFromFile ==
  /\ Start /\ file.whole
  /\ chain' = file.blocks /\ base' = Len(file.blocks)
  /\ phase' = "idle" /\ mode' = "none"
  /\ UNCHANGED <<file, clock>>

\* There is no file, or load refuses it: a new chain is begun and saved.  (A
\* start that cannot open the file for writing gives up and changes nothing.)
BootFresh ==
  /\ Start /\ ~file.whole /\ clock < MaxClock
  /\ \E clipped \in Clippings : chain' = <<GenesisBlock(clock, clipped)>>
  /\ base' = 1 /\ clock' = clock + 1
  /\ phase' = "saving" /\ mode' = "boot" /\ file' = TornFile

\* Everything in memory is gone; the file stays as it is.
Halt ==
  /\ phase' = "down" /\ mode' = "none" /\ chain' = <<>> /\ pool' = <<>>
  /\ difficulty' = MIN_DIFFICULTY /\ ledger' = LedgerInit("utxo") /\ base' = 0
  /\ NoPoolJob
  /\ UNCHANGED <<file, clock, boots, session, confirmed>>

Quit == phase = "idle" /\ Halt

Crash ==
  /\ \/ phase \notin {"down", "saving"} /\ "crash" \in Faults
     \/ phase = "saving" /\ "crash_in_save" \in Faults
  /\ Halt

-----------------------------------------------------------------------------
(* Commands that do not mine.                                              *)

\* mark_attendance: index, previous hash and signature are tentative.
MarkAttendance(student, status) ==
  /\ phase = "idle" /\ clock < MaxClock
  /\ Len(pool) < MAX_PENDING
  /\ LET tip == Tip(chain)
         b == NewBlock(tip.index + 1 + Len(pool), clock, student, status,
                       TokenRewardForStatus(status), tip.hash)
     IN  pool' = PendingAdd(pool, SignBlock(b, FALSE))
  /\ clock' = clock + 1
  /\ UNCHANGED <<phase, mode, chain, difficulty, ledger, poolJob, file, boots,
                 session, base, confirmed>>

\* The value is stored before its range is checked.
SetDifficulty(d) ==
  /\ phase = "idle"
  /\ difficulty' = d
  /\ UNCHANGED <<phase, mode, chain, pool, ledger, poolJob, file, clock, boots,
                 session, base, confirmed>>

\* ledger_set_model: even to the model in use, the ledger is emptied.
SwitchModel(m) ==
  /\ phase = "idle"
  /\ ledger' = LedgerInit(m) /\ base' = Len(chain)
  /\ UNCHANGED <<phase, mode, chain, pool, difficulty, poolJob, file, clock,
                 boots, session, confirmed>>

\* transfer and transfer_nonce, as far as the tables of the ledger go.
Transfer(sender, recipient) ==
  /\ phase = "idle"
  /\ ledger' \in Transferred(ledger, sender, recipient)
  /\ UNCHANGED <<phase, mode, chain, pool, difficulty, poolJob, file, clock,
                 boots, session, base, confirmed>>

\* blockchain_tamper_demo: the block is overwritten whether or not it is saved.
Tamper(i) ==
  /\ phase = "idle"
  /\ i \in 2..Len(chain)
  /\ chain' = [chain EXCEPT ![i] = Tampered(@)]
  /\ \/ /\ phase' = "saving" /\ mode' = "tamper" /\ file' = TornFile
     \/ "open" \in Faults /\ UNCHANGED <<phase, mode, file>>
  /\ UNCHANGED <<pool, difficulty, ledger, poolJob, clock, boots, session,
                 base, confirmed>>

-----------------------------------------------------------------------------
(* Mining.  The three commands differ in what they do before and after     *)
(* their loop; the loop is the same but for the credits.                   *)

BeginMining(m) == phase = "idle" /\ m \in Modes /\ pool # <<>> /\ mode' = m

StartSolo ==
  /\ BeginMining("solo")
  /\ phase' = "mining"
  /\ UNCHANGED <<memory, poolJob, file, clock, boots, session, confirmed>>

\* What is left of the reward of every pending block after the pool's fee.
Distributable(blocks) ==
  LET gross == blocks * MINING_REWARD
  IN  gross - (gross * POOL_FEE_PERCENT) \div 100

\* Variant with a bug: the number of miners is not limited.
PoolSizeUnlimited(count) == IF count > 0 THEN count ELSE 4

PoolSize(count) ==
  LET wanted == IF count > 0 THEN count ELSE 4
  IN  IF wanted > MAX_POOL_MINERS THEN MAX_POOL_MINERS ELSE wanted

StartPool(count) ==
  /\ BeginMining("pool")
  /\ phase' = "hashing"
  /\ miners' = PoolSize(count) /\ earnings' = Distributable(Len(pool))
  /\ UNCHANGED <<memory, attempts, total, file, clock, boots, session,
                 confirmed>>

DrawHashRate(rate) ==
  /\ phase = "hashing"
  /\ attempts' = Append(attempts, rate) /\ total' = total + rate
  /\ phase' = IF Len(attempts) + 1 = miners THEN "paying" ELSE "hashing"
  /\ UNCHANGED <<mode, memory, miners, earnings, file, clock, boots, session,
                 confirmed>>

\* The miners are paid before any block is mined, and the result is ignored.
PayPoolMiner ==
  /\ phase = "paying"
  /\ LET miner == PoolMiner[miners - Len(attempts) + 1]
         share == (Head(attempts) * earnings) \div total
     IN  ledger' = IF share > 0 THEN TryCredit(ledger, miner, share)
                                ELSE ledger
  /\ attempts' = Tail(attempts)
  /\ phase' = IF Len(attempts) = 1 THEN "mining" ELSE "paying"
  /\ UNCHANGED <<mode, chain, pool, difficulty, miners, total, earnings, file,
                 clock, boots, session, base, confirmed>>

\* Variant with a bug: the fees are paid to the user.
CloudProfitWithFees(rounds, blocks, fees) ==
  AsInt(rounds * (MINING_REWARD * blocks + fees))

\* The reward of the pending blocks is earned in every round, and nobody asks
\* how large, or of which sign, the fees are.
CloudProfit(rounds, blocks, fees) ==
  AsInt(rounds * (MINING_REWARD * blocks - fees))

StartCloud(rounds, fees) ==
  /\ BeginMining("cloud")
  /\ rounds \in 1..5
  /\ phase' = "mining"
  /\ earnings' = CloudProfit(rounds, Len(pool), fees)
  /\ UNCHANGED <<memory, miners, attempts, total, file, clock, boots, session,
                 confirmed>>

\* One turn of the loop up to the save: the front block leaves the pool, is
\* linked and signed, and is appended if the search for a nonce can succeed,
\* the chain has room and the file can be opened.
MineFront ==
  /\ phase = "mining" /\ pool # <<>>
  /\ pool' = PendingRemoveFront(pool)
  /\ \/ /\ difficulty \in MIN_DIFFICULTY..MAX_DIFFICULTY
        /\ Len(chain) < MAX_BLOCKS
        /\ \E clipped \in Clippings, zeros \in difficulty..MaxZeros :
             chain' = Append(chain,
               Mined(PrepareForMining(Head(pool), chain, clipped), zeros))
        /\ phase' = "saving" /\ file' = TornFile
        /\ UNCHANGED <<mode, poolJob>>
     \/ /\ \/ difficulty \notin MIN_DIFFICULTY..MAX_DIFFICULTY
           \/ Len(chain) >= MAX_BLOCKS
           \/ "open" \in Faults
        /\ Done
        /\ UNCHANGED <<chain, file>>
  /\ UNCHANGED <<difficulty, ledger, clock, boots, session, base, confirmed>>

\* blockchain_save reports success.  A flush that fails goes unnoticed.
SaveSucceeds ==
  /\ phase = "saving"
  /\ \/ file' = WholeFile(chain)
     \/ "flush" \in Faults /\ file' = TornFile
  /\ IF mode = "tamper"
     THEN Done /\ UNCHANGED confirmed
     ELSE /\ confirmed' = confirmed \cup {Tip(chain)}
          /\ IF mode = "boot" THEN Done
             ELSE phase' = "crediting" /\ UNCHANGED <<mode, poolJob>>
  /\ UNCHANGED <<memory, clock, boots, session>>

\* blockchain_save reports failure: start-up gives up, a mined block is taken
\* off the chain again, a tampered block stays tampered.  The file is lost.
SaveFails ==
  /\ phase = "saving" /\ "write" \in Faults
  /\ \/ mode = "boot" /\ Halt
     \/ /\ mode # "boot" /\ Done
        /\ chain' = IF mode = "tamper" THEN chain
                    ELSE WithoutTip(chain)
        /\ UNCHANGED <<pool, difficulty, ledger, base, file, clock, boots,
                       session, confirmed>>

\* Solo mining stops at the first credit the ledger has no room for.
CreditSolo ==
  /\ phase = "crediting" /\ mode = "solo"
  /\ LET b == Tip(chain)
         rewarded == Credited(ledger, b.student_id, NetReward(b.token_reward))
         afterStudent == IF b.token_reward > 0 THEN rewarded ELSE ledger
         full == b.token_reward > 0 /\ ~HasRoom(ledger, b.student_id)
     IN  \/ full /\ Done /\ UNCHANGED ledger
         \/ ~full /\ ~HasRoom(afterStudent, SOLO_MINER)
            /\ Done /\ ledger' = afterStudent
         \/ ~full /\ HasRoom(afterStudent, SOLO_MINER)
            /\ ledger' = Credited(afterStudent, SOLO_MINER, MINING_REWARD)
            /\ phase' = "mining" /\ UNCHANGED <<mode, poolJob>>
  /\ UNCHANGED <<chain, pool, difficulty, file, clock, boots, session, base,
                 confirmed>>

\* Pool and cloud mining credit the student and go on either way.
CreditShared ==
  /\ phase = "crediting" /\ mode \in {"pool", "cloud"}
  /\ LET b == Tip(chain)
     IN  ledger' = IF b.token_reward > 0
                   THEN TryCredit(ledger, b.student_id,
                                  NetReward(b.token_reward))
                   ELSE ledger
  /\ phase' = "mining"
  /\ UNCHANGED <<mode, chain, pool, difficulty, poolJob, file, clock, boots,
                 session, base, confirmed>>

FinishMining ==
  /\ phase = "mining" /\ pool = <<>>
  /\ ledger' = IF mode = "cloud" /\ earnings > 0
               THEN TryCredit(ledger, CLOUD_USER, earnings) ELSE ledger
  /\ Done
  /\ UNCHANGED <<chain, pool, difficulty, file, clock, boots, session, base,
                 confirmed>>

-----------------------------------------------------------------------------
\* What the process does by itself once a command is given.
Internal ==
  \/ \E rate \in HashRates : DrawHashRate(rate)
  \/ PayPoolMiner
  \/ MineFront
  \/ SaveSucceeds
  \/ SaveFails
  \/ CreditSolo
  \/ CreditShared
  \/ FinishMining

\* What its user types.
Command ==
  \/ \E s \in Students, status \in ValidStatus : MarkAttendance(s, status)
  \/ \E d \in DifficultyInputs : SetDifficulty(d)
  \/ \E m \in Models : SwitchModel(m)
  \/ \E s, r \in TypedIds : Transfer(s, r)
  \/ \E i \in TamperInputs : Tamper(i)
  \/ StartSolo
  \/ \E count \in MinerCounts : StartPool(count)
  \/ \E rounds \in CloudRounds, fees \in CloudFees : StartCloud(rounds, fees)
  \/ Quit

Next == Internal \/ Command \/ BootFromFile \/ BootFresh \/ Crash

Spec == Init /\ [][Next]_vars

\* The operating system keeps running the process; users promise nothing.
FairSpec == Spec /\ WF_vars(Internal)
-----------------------------------------------------------------------------
(* Types.                                                                   *)

\* A digest or signature is not typed further than by what it is made of.
IsBlock(b) ==
  b \in [index : Nat, timestamp : Nat, student_id : Students \cup {GENESIS},
         status : ValidStatus, token_reward : Nat,
         transaction_id : {TransactionIdFor(b.student_id, b.token_reward)},
         nonce : Nat, previous_hash : {b.previous_hash},
         signature : [over : {b.signature.over}, clipped : BOOLEAN],
         hash : {b.hash}]

IsBlockSeq(blocks) ==
  blocks \in Seq(Range(blocks)) /\ \A i \in 1..Len(blocks) : IsBlock(blocks[i])

\* What each phase says of the other variables.
PhaseOK ==
  /\ phase \in Phases /\ mode \in MiningModes \cup {"none", "boot", "tamper"}
  /\ phase \in {"down", "idle"} <=> mode = "none"
  /\ phase = "down" <=> chain = <<>>
  /\ mode = "boot" => phase = "saving" /\ Len(chain) = 1
  /\ mode = "tamper" => phase = "saving"
  /\ phase = "crediting" \/ (phase = "saving" /\ mode \in MiningModes)
       => Len(chain) >= 2
  /\ phase = "saving" => ~file.whole
  /\ phase \in {"hashing", "paying"} => mode = "pool"

IsChain(blocks) ==
  /\ IsBlockSeq(blocks) /\ Len(blocks) <= MAX_BLOCKS
  /\ \A i \in 2..Len(blocks) : blocks[i].student_id \in Students

FileOK ==
  /\ file \in [whole : BOOLEAN, blocks : {file.blocks}] /\ IsChain(file.blocks)
  /\ file.whole <=> file.blocks # <<>>

PoolOK ==
  /\ IsBlockSeq(pool) /\ Len(pool) <= MAX_PENDING
  /\ \A i \in 1..Len(pool) : pool[i].student_id \in Students

PoolJobOK ==
  /\ miners \in 0..MAX_POOL_MINERS /\ attempts \in Seq(HashRates)
  /\ Len(attempts) <= miners /\ total \in Nat /\ earnings \in Int
  /\ phase = "hashing" => Len(attempts) < miners
  /\ phase = "paying" => attempts # <<>> /\ total > 0
  /\ phase \notin {"hashing", "paying"} => attempts = <<>>

CountersOK ==
  /\ difficulty \in Int /\ clock \in Nat /\ boots \in Nat
  /\ session \in Nat /\ base \in Nat

\* The type invariant: every variable of main, every local of the mining
\* commands and the file hold values of the C types they stand for, and only
\* the genesis block has no student of the registry.
TypeOK ==
  /\ PhaseOK /\ IsChain(chain) /\ FileOK /\ PoolOK /\ PoolJobOK /\ CountersOK
  /\ ledger \in Ledgers
  /\ \A b \in confirmed : IsBlock(b)

-----------------------------------------------------------------------------
(* Safety.                                                                  *)

Linked(blocks) ==
  \A i \in 1..Len(blocks) :
    /\ blocks[i].index = i - 1
    /\ blocks[i].previous_hash = IF i = 1 THEN GENESIS_PREV_HASH
                                          ELSE blocks[i - 1].hash

\* The chain in memory and the chain on disk are each linked from genesis to
\* tip, with no gap and no fork, although blocks are linked twice (when marked
\* and when mined), taken back when a save fails, tampered with and reloaded.
ChainLinked == Linked(chain) /\ Linked(file.blocks)

StampsAscend(blocks) ==
  \A i, j \in 1..Len(blocks) : i < j => blocks[i].timestamp < blocks[j].timestamp

\* Marks are confirmed at most once and in the order they were made, pending
\* ones after all confirmed ones, across any mix of mining commands, failures
\* and restarts.
InMarkOrder ==
  /\ StampsAscend(chain \o pool) /\ StampsAscend(file.blocks)
  /\ \A b \in Range(chain \o pool) \cup Range(file.blocks) : b.timestamp < clock

\* Hashed and signed over what the block now says.
Sealed(b) ==
  b.hash = ComputeBlockHash(b) /\ b.signature.over = SignaturePayload(b)

\* Whether block i of the chain has been through a successful save.
Settled(i) == phase = "saving" /\ mode # "tamper" => i < Len(chain)

\* b was once saved as mined, or differs from such a block in the status only.
Saved(b) == \E c \in confirmed : b = [c EXCEPT !.status = b.status]

\* Where blocks come from: every block of the chain and of the file is one that
\* was hashed, signed and saved as mined, but for a tampered status; the block
\* being saved is hashed and signed.
Provenance ==
  /\ \A c \in confirmed : Sealed(c)
  /\ \A i \in 1..Len(chain) :
       IF Settled(i) THEN Saved(chain[i]) ELSE Sealed(chain[i])
  /\ \A i \in 1..Len(file.blocks) : Saved(file.blocks[i])

\* Tampering is always detected: if validate passes, at any difficulty, then
\* every block of the chain is byte for byte one that was once saved as mined.
TamperEvident ==
  phase # "saving" =>
    \A d \in MIN_DIFFICULTY..MAX_DIFFICULTY :
      BlockchainValidate(chain, d) => Range(chain) \subseteq confirmed

\* Blocks whose validation has no excuse to fail: signatures that do not end
\* in a zero byte, and as many leading zeros as are asked for.
Unexceptional(blocks, d) ==
  \A i \in 1..Len(blocks) :
    ~blocks[i].signature.clipped /\ (i > 1 => blocks[i].nonce >= d)

\* The converse: a chain of blocks that were all saved as mined passes
\* validate, so every block was linked, then signed, then hashed in that order,
\* whatever the chain looked like when the attendance was marked.
HonestChainValidates ==
  phase \notin {"down", "saving"} /\ Range(chain) \subseteq confirmed =>
    \A d \in MIN_DIFFICULTY..MAX_DIFFICULTY :
      Unexceptional(chain, d) => BlockchainValidate(chain, d)

\* validate accepts a chain nobody tampered with that was mined at valid
\* difficulties (README: "validate | Verify chain integrity").
UntamperedChainValidates ==
  phase = "idle" /\ Range(chain) \subseteq confirmed =>
    BlockchainValidate(chain, Clamp(difficulty))

\* Between commands the file holds exactly the chain in memory, so a restart
\* resumes from it.  Needs writes that fail neither openly nor silently.
FileMatchesChain ==
  phase \notin {"down", "saving"} => file.whole /\ file.blocks = chain

\* No block whose confirmation was reported is ever gone from the chain the
\* program works on (README: "immutable attendance ledger").  Needs that the
\* process is not killed while it rewrites the file.
ImmutableLedger ==
  phase = "idle" => {b.hash : b \in confirmed} \subseteq {b.hash : b \in Range(chain)}

\* Every attendance marked since the program was started is still pending or
\* confirmed at the prompt ("Blocks wait here until a miner confirms them").
EveryMarkKept ==
  phase = "idle" =>
    session..(clock - 1) \subseteq {b.timestamp : b \in Range(chain \o pool)}

\* The net rewards of student s in the blocks confirmed since the ledger was
\* last reset.
EarnedInChain(s) ==
  LET own == {i \in base + 1..Len(chain) :
                chain[i].student_id = s /\ chain[i].token_reward > 0}
      net == [i \in 1..Len(chain) |-> chain[i].token_reward - TX_FEE]
  IN  SumFunctionOnSet(net, own)

\* At the prompt every student has exactly the net rewards of the blocks
\* confirmed since the ledger was reset, whichever way they were mined and
\* however full transfers and miners have made the table of accounts.  Only a
\* full table of outputs costs students coins, and it never gives them any.
CreditsMatchChain ==
  phase = "idle" =>
    \A s \in Students :
      \/ ledger.credit[s] = EarnedInChain(s)
      \/ /\ ledger.model = "utxo" /\ ledger.outputs = MAX_UTXOS
         /\ ledger.credit[s] < EarnedInChain(s)

\* The mining reward of the blocks confirmed since the ledger was last reset.
RewardOfChain == MINING_REWARD * (Len(chain) - base)

\* At the prompt the miners together have received no more than the mining
\* reward of each block confirmed since the ledger was reset, whichever command
\* mined it, although a pool is paid before anything is mined and a cloud after
\* everything (README: "Mining reward: 20 coins per confirmed block to the
\* miner (solo/pool/cloud)").  Rentals of several rounds, and mining commands
\* that confirm nothing, break it.
MinersEarnTheReward ==
  phase = "idle" => SumFunctionOnSet(ledger.credit, Miners) <= RewardOfChain

\* Whatever fails, the solo miner never has more than the mining reward of each
\* block confirmed since the ledger was reset, and if all mining is solo it has
\* exactly that, as long as the ledger has room for its next credit.
SoloMinerPaid ==
  phase = "idle" =>
    /\ ledger.credit[SOLO_MINER] <= RewardOfChain
    /\ Modes = {"solo"} /\ HasRoom(ledger, SOLO_MINER)
         => ledger.credit[SOLO_MINER] = RewardOfChain

-----------------------------------------------------------------------------
(* Refinement and liveness.                                                 *)

\* What a block says of the attendance it records; the status is left out
\* because the tamper demo overwrites it.
MarkOf(b) == [stamp |-> b.timestamp, student |-> b.student_id,
              reward |-> b.token_reward]

MarksOf(blocks) == [i \in 1..Len(blocks) |-> MarkOf(blocks[i])]

\* The block being saved still waits for its confirmation.
Unconfirmed ==
  IF phase = "saving" /\ mode \in MiningModes THEN <<Tip(chain)>> \o pool
                                              ELSE pool

\* The file, or what it will hold again, without the genesis block.
Confirmed ==
  CASE file.whole -> Tail(file.blocks)
    [] ~file.whole /\ mode = "tamper" -> Tail(chain)
    [] ~file.whole /\ mode \in MiningModes -> SubSeq(chain, 2, Len(chain) - 1)
    [] OTHER -> <<>>

Register == INSTANCE AttendanceRegister WITH
  queue <- MarksOf(Unconfirmed), register <- MarksOf(Confirmed),
  Rewards <- {REWARD_PRESENT, REWARD_LATE, REWARD_ABSENT}, Stamps <- 0..MaxClock

\* The detailed program implements the abstract register: marks enter the file
\* oldest first, each once, and none ever leaves it, also when the process is
\* killed between two steps of a mining command (but not within a save).
ImplementsRegister == Register!Spec

\* With a working file and a valid difficulty, a mining command that is begun
\* ends with every pending block confirmed, unless the process is killed, or
\* solo mining stops at a ledger that has no room for its miner.
PoolIsDrained ==
  /\ mode \in {"pool", "cloud"} ~> phase \in {"idle", "down"} /\ pool = <<>>
  /\ mode = "solo" ~>
       /\ phase \in {"idle", "down"}
       /\ pool = <<>> \/ ~HasRoom(ledger, SOLO_MINER)
=============================================================================
