# A verification development for the attendance blockchain

The program under `src/` is a command-line attendance ledger in C. Students are
marked present, late or absent; a mark becomes a block in a pending pool; a mining
command moves pending blocks to a hash-linked chain, which is rewritten to disk
after every block; students and miners are paid in tokens, kept in one of two ledger
models (UTXO or account) that also offer transfers. These modules model that
program, TLC checks them on small instances, and TLAPS proves the properties that
matter most for every value of the constants.

## 1. Inventory

The program is one process with one thread. Nothing runs concurrently, so what is
hard here is not interleaving but **order within a command** (what has already
happened when a later step fails), **the process stopping between two steps**,
**state computed early and used late**, **limits** of tables, buffers and `int`, and
**long sequences of legal commands**.

| Component | Source | State | Operations that change it | Interacts with |
|---|---|---|---|---|
| Vocabulary, transactions | `attendance.h`, `transactions.c` | none | reward of a status, reward transaction and its id | used by all |
| Digests, signatures | `crypto.c` 105-257 | none | hash, sign, verify a block | pending, mining, chain |
| Signing keys | `crypto.c` 1-103 | the key pair and its two files | load or create at start-up | sign, verify |
| Chain and file | `blockchain.c` | `Blockchain`, `attendance_chain.dat` | init, load, save, append with rollback, validate, tamper demo | mining, `main` |
| Pending pool | `pending.c` | `PendingPool` | mark, remove front | chain (reads its tip), mining |
| Mining | `mining.c` | locals of a command | solo, pool, cloud | takes from pool, appends to chain, credits ledger |
| Ledger | `ledger.c` | model, `UTXOSet`, `AccountLedger` | init, set model, credit student, credit miner, transfer, transfer with nonce | mining, `main` |
| Registry | `students.c` | `StudentRegistry` | load | pending, ledger |
| Command loop | `main.c` | owns all of the above | options, start-up, dispatch, end | calls everything |

They interact by calls and by pointers to the variables of `main`; there are no
callbacks. The chain file and the two key files are the only state that survives the
process (`students.txt` is read, never written): the pending pool and all balances are
lost, and balances are not rebuilt from the chain.

What each component must get right:

- **Chain**: linked from genesis to tip in memory and on disk, whatever failed; what
  `validate` accepts is what was mined, and what was mined is accepted.
- **Pool**: first in, first out; a mark is confirmed once; a mark is not lost.
- **Mining**: a command ends; file and memory stay in step; a student receives the
  net reward of exactly its confirmed blocks; miners receive no more than the mining
  reward of the confirmed blocks.
- **Ledgers**: coins appear only by credits and disappear only as fees; a transfer
  needs a balance that covers it, and settles once; books explain balances; changing
  the model starts from nothing.
- **Keys**: the two halves belong together, and to the blocks of the chain; a pair
  that signed a chain is kept.
- **Registry**: every student of the file, or a refusal, never a part of them; and
  nobody else: comments are ignored.

The hazards behind these, with the line at which each one bites and the properties
that watch it, are listed in `PROJECT.json`.

## 2. Modules

```
Attendance -- Blockchain --+                             refines
        |     TokenLedger -+- Mining - MCMining ............> AttendanceRegister
        |     MachineInt --+    +-- ChainProofs - RegisterProofs -+- CreditProofs
        |                                           NumberLemmas -+
        |
        +-- MachineInt -+- AccountLedger -+- Ledger - MCLedger
                        |     |           |    |  :.... refines > CreditBook
                        |     |           |    |                  (of TokenLedger)
                        |     |           |    +- LedgerProofs
                        |     |           |         instantiates the two below
                        |     +- MCAccountLedger, AccountProofs -+
                        |     +-----------+                      +- NumberLemmas
                        +- UtxoLedger ----+                      |
                        |     +- MCUtxoLedger, UtxoProofs -------+
                        +- TokenBank     refined by AccountLedger, UtxoLedger, Ledger

StudentFile -- Startup -+- MCStartup
                        +- StartupProofs - NumberLemmas
```

| Module | Models | State and actions |
|---|---|---|
| `Attendance` | `attendance.h`, `transactions.c` | operators: rewards, fee, reward transaction |
| `Blockchain` | `crypto.c`, validation and the hash target | operators on blocks and sequences of blocks |
| `TokenLedger` | the ledger as mining sees it | a record: model, what each owner was credited, how full the tables are |
| `Mining` | `main.c`, `pending.c`, `blockchain.c`, `mining.c` | the variables of `main`, the locals of the mining commands, the file; see below |
| `AttendanceRegister` | abstract: queue and append-only register | `MarkOne`, `ConfirmOne`, `Restart` |
| `MachineInt` | the wrapping `int` of the build | `AsInt` |
| `TokenBank` | abstract: balances | `Mint`, `Move`, `Reset`; `Leak` for what a full table may do |
| `AccountLedger` | account half of `ledger.c` | accounts, balances, nonces, histories; one action per operation |
| `UtxoLedger` | UTXO half of `ledger.c` | the table of outputs and the last answer; one action per operation |
| `Ledger` | the whole of `ledger.c` behind its interface | the model and both tables; `ApplyConfirmedBlock`, `CreditMiner`, `Transfer`, `TransferWithNonce`, `SetModel`, each passed on to the half in use |
| `CreditBook` | abstract: what mining may rely on | `Credit`, `Transfer`, `SetModel` on a `TokenLedger` |
| `StudentFile` | `students.c` | `LoadRegistry`, a recursive function over the pieces `fgets` returns |
| `Startup` | `main.c` up to the prompt, the keys of `crypto.c`, the file of `blockchain.c` | registry, keys, chain, the three files; see below |
| `MC*` | nothing | values of the constants for TLC |
| `ChainProofs`, `RegisterProofs`, `CreditProofs` | nothing | theorems about `Mining`, each module on top of the one before |
| `AccountProofs`, `UtxoProofs`, `LedgerProofs` | nothing | theorems about the ledgers |
| `StartupProofs` | nothing | theorems about `Startup` |
| `NumberLemmas` | nothing | induction, sums and the arithmetic of a wrapping `int`, for all of the above |

### Mining

`phase` says where the process is. A command that only changes memory is one step
(`MarkAttendance`, `SetDifficulty`, `SwitchModel`, `Transfer`). A mining command is
split where the outside can tell: `BeginMining`; for a pool the drawing of hash rates
(`DrawHashRate`) and the payments (`PayPoolMiner`); then per block `MineFront`
(front block out of the pool, linked, signed, mined, appended; the file opened,
hence emptied), `SaveSucceeds` or `SaveFails` (written and closed, or the append
undone), `CreditSolo` or `CreditShared`; and `FinishMining`. The process can die
between any two of them (`Crash`). `BootFromFile` and `BootFresh` are the two ways
`main` starts, `Quit` and `Crash` the two ways it ends.

`MineFront` keeps the code's order: the block leaves the pool *first*, and the three
refusals (difficulty out of range, chain full, file not to be opened) end the
command without putting it back. `CreditSolo` keeps the order of the two credits and
stops at the first that finds the table full; `CreditShared` ignores it, as pool and
cloud mining do.

`Transfer` is both transfer commands as far as mining can tell: accounts are created
(`TypedIds` are the ids users type, registered or not), or outputs are added.

`Faults` chooses what the environment may do: kill the process outside a save
(`crash`), or within one (`crash_in_save`); refuse to open the file (`open`); report
a write error (`write`); lose at `fclose` what was buffered, which the code ignores
(`flush`).

`clock`, `boots`, `session`, `base` and `confirmed` are bookkeeping: they record what
properties need (age of a mark, start of the session, where the ledger was reset,
which blocks were reported saved) and no guard reads them but for bounds.

### Startup

`Startup` looks at the same program from the side of its files. `Launch` reads a
`students.txt` (any of `Files`) and gives up if it is refused; `LoadKeys` takes both
key files or gives up; `GenerateKeys` starts a new pair when one of them is missing;
`LoadChain` or `InitChain` follow, and once `running` the chain grows by
`AppendBlock`. Every file is written in two steps, as the code does: `OpenFile`
truncates it, `WriteFile` completes it; `OpenFails`, `WriteFails` and `FlushFails` are
the ways the C library fails, of which the last goes unnoticed. `Crash` may strike in
any phase, and `Lose` removes a key file while the program is down. All of these count
against `MaxFaults`.

Key pairs are numbered as they are generated. A key file is one half of a pair, missing
or torn; a block is the number of the pair that signed it. `source`, `before`, `pairs`,
`lost` and `faults` are bookkeeping, but that `before` also is the chain to which the
code returns when a save fails (`chain->length--`).

The student file is the sequence of pieces in which `fgets` returns it: a line is one
piece unless it has more than 255 bytes. A piece has two sides. `meant` is what the
author wrote: the student whose line begins there, if one does. `id` is what
`parse_student_line` finds: the id of a record (not blank, no `#`, three fields, an id)
or `NoRecord`. They differ in two ways: a student whose three fields do not all begin
within the first 255 bytes is meant and not found, and the rest of a long line may be
found though nobody is meant. The program reads `id`; only properties read `meant`.

### Abstractions

- SHA-256 is injective: a digest *is* the record of what is hashed, and a transaction
  id *is* the transaction.
- A nonce is the number of leading zeros it gives the digest; mining chooses one of at
  least the difficulty. That the search may use up all nonces is left out.
- A signature is what it signs, and whether its DER form ends in a zero byte
  (`clipped`). The code measures a signature by stripping zero bytes, so a clipped one
  does not verify. ECDSA signs at random, so both cases are possible for any block.
- Time advances with every block created, so stamps identify marks. Two marks of one
  second are therefore told apart in the model; nothing in the code compares stamps.
- The ledger inside `Mining` keeps credits and capacities only. That this is a true view
  of the detailed ledgers is checked: `Ledger` implements `CreditBook`, whose actions
  are the operators `Mining` uses.
- In `Mining` only the fees of cloud mining can reach `INT_MAX`, and in its runs they do
  not (see findings). `AccountLedger`, `UtxoLedger` and `Ledger` scale `INT_MAX`, table
  sizes and the 1024-byte buffer of `compute_transaction_id` (through
  `TX_BUFFER_INPUTS`, the inputs it holds) down; `REF_SIZE` is the size in bytes of
  `TxInput.utxo_ref`, 65 in the code.
- Signed overflow is undefined in C. `AsInt` wraps, which is what the build
  (gcc `-O2`) does at the additions concerned.
- In `Startup` blocks carry their signing key only, in `Mining` everything but it.

## 3. Runs

`CHECK_DEADLOCK FALSE` in the runs of `Mining`: users may stop typing for ever, and
the bounds `MaxClock` and `MaxBoots` end every behaviour.

| Run | Question | Bounds, and why they are enough |
|---|---|---|
| `MCMiningSafety` | Do chain and file stay linked, ordered and tamper-evident, and is the solo miner paid, whatever fails? | All faults; a chain of 3 with a pool of 2, so that the chain fills up with a block still pending, and links can be stale by one; 2 starts, so that a chain is reloaded; difficulties 1 and 2, and 0, which is stored and refused; 3 outputs, so that the table fills up between the credits of a block. Only solo mining: the three commands share their loop, the others add credits. |
| `MCMiningCommands` | Is it an append-only register, is everybody paid right, and does every command end? | All commands, both models, 3 pending blocks: the pool's fee of 2 % rounds to 0 below 3. Three pool miners of one hash rate (asked for with no count, so 4 are wanted and the limit of 3 applies), whose shares of 19 coins do not come out even. Cloud rentals of 0 rounds, which are refused, and of 1, with a fee. 4 outputs and 3 accounts, with transfers by an unknown id: both tables fill up within one command, before, between and after its credits. `crash` outside saves, 2 starts. Fairness below. |
| `MCAccount` | Is the account model a bank with double entry and one-time nonces? | 4 ids of which one is registered by nobody, room for 3 accounts, negative amounts, self transfers, any nonce, 3 settled transfers; `INT_MAX` is 127 and one amount is 127, whose fee overflows. |
| `MCUtxoWideRef` | Is the transfer right, were the reference not truncated? | 81 bytes, the size of the local `ref` in `utxo_transfer`. With it the paths behind the check run: several inputs, change, equal transaction ids. Net rewards are 4, amounts 3 and 7, the fee 1: one output pays 3 exactly and two pay 7, with nothing left over, so that a table of 6 has room for two credits and several transfers. Below the limit TLC reaches transfers with two inputs, outputs of transfers that are spent again, and both in one; at the limit, transfers whose outputs no longer fit. 3 inputs, of which the buffer holds 2. |
| `MCLedger` | Is the ledger as built a bank, and the one mining was checked against? | References of 65 bytes; 4 outputs, 3 accounts; amount 127 with `INT_MAX` 127; any order of commands and changes of model. |
| `MCStartup` | Do registry, keys and chain survive every way of failing? | 4 mishaps: one to lose a key, one to stop the generation that follows, one within a save, one more. A table of 2 students and files of up to 3 lines: students, comments whose rest reads like a record, students whose fields do not begin within the buffer. Chains of 3. |
| `MCMiningLostMark` | finding 1 | one student, difficulty 9 |
| `MCMiningTornFile` | finding 2 | a crash within a save |
| `MCMiningClipped` | finding 3 | a clipped signature |
| `MCMiningReward` | finding 4 | pool and cloud, rentals of 2 rounds, difficulty 9 |
| `MCUtxoCovered` | finding 5 | references of 65 bytes |
| `MCStartupComment` | finding 6 | the files of `MCStartup` |

What the passing runs show, property by property:

- `ChainLinked`, `Provenance`, `TamperEvident`, `HonestChainValidates` - a block is
  linked twice, when marked and when mined, and the first link is wrong as soon as
  another block is mined, taken back or dropped in between. Mining again links, signs
  and hashes in that order, so none of it shows. `TamperEvident` says that validation
  at *any* difficulty accepts nothing but blocks as they were saved;
  `HonestChainValidates` the converse, except for clipped signatures and for
  difficulties above the one a block was mined at.
- `InMarkOrder` - stamps ascend through chain, then pool, and in the file.
- `FileMatchesChain`, `EveryMarkKept` - with working files and valid difficulties; a
  full ledger stops solo mining, but no mark is lost by it.
- `CreditsMatchChain` - counted from the last reset of the ledger, because balances
  begin at zero after a restart or a change of model. A table of outputs that is full
  costs students coins and never gives them any; the table of accounts never costs them
  any, because their accounts exist from the start.
- `MinersEarnTheReward` - all miners together have at most 20 coins for each block that
  was confirmed since the reset. Each command splits the reward in its own way and at
  its own time: solo per block, a pool before anything is mined, a cloud after
  everything. It holds in `MCMiningCommands`, where a rental has one round and the
  difficulty is valid, and not in general: finding 4.
- `SoloMinerPaid` - solo mining credits a block after it is saved. So under *all* faults,
  with dropped blocks and rollbacks, the solo miner never has more than 20 coins for each
  confirmed block, and exactly that while the ledger has room for it.
- `ImmutableLedger`, `ImplementsRegister` - `Mining` implements `AttendanceRegister`:
  the queue is the pool, with the block being saved still in front; the register is the
  file without genesis, or what the file will hold again while it is being rewritten.
- `PoolIsDrained` - see fairness.
- `NoncesUsedOnce`, `DoubleEntry`, `Conservation`, `HistoryExplainsBalance` - over all
  mixes of settled, refused and repeated transfers, the two sums modulo the width of an
  `int`. `DebtHasCause`: an account in debt has a negative amount in its own history or
  more turnover than an `int` counts; nothing the others do puts it there.
- `ImplementsBank` - for `AccountLedger`, `UtxoLedger` with wide references and `Ledger`
  as built: balances change only by credits, resets, and transfers that move the amount
  and burn the fee. The table of outputs makes one exception, which the property
  states and confines: the step that fills the table may take the inputs of its sender
  and pay the recipient nothing (`Leak`). With references of 65 bytes this also says
  that the refused transfers of finding 5 change nothing.
- `ImplementsCreditBook` - see abstractions. A refused credit and a full table coincide,
  and no transfer, settled or refused, touches credits.
- `RefsAreUnambiguous`, `NoDoubleSpend` - two equal rewards of a student have the same
  transaction id, hence the same reference. That does no harm: outputs of one reference
  have one owner and one amount. `NoDoubleSpend` compares the outputs marked spent with the
  inputs of the transfers in the table: there are never more inputs than marks, and while
  the table has room there are exactly as many.
- `RegistryComplete` - everyone whose line begins with three fields within the buffer is
  in the registry, in order, whatever comments and long lines stand between; if they do
  not all fit, the program does not start. That nobody else is there does not hold:
  finding 6.
- `KeysMatch`, `ChainVerifies`, `PairKept` - the pair is written half by half, and the
  code never compares the halves. It is safe because the private key is written first
  and a pair with a file missing is replaced as a whole: a mismatch takes a *lost* file
  and a second mishap. For the same reason, unless a key file was lost, a pair that
  exists and the keys of a chain are not replaced.
- `StartsAgain` - any other interruption heals at the next start; a key file that was
  opened and not finished does not, since it exists and cannot be read.

Each property of a passing run has a variant of the code in the modules ("Variant with
a bug") under which TLC finds it violated; `PROJECT.json` pairs them. A missing
re-link, signature, rollback or fee deduction, a queue in the wrong order, a file one
block behind, an unbounded table, a change of model that keeps the tables, a key file
written alone are among them.

**Fairness.** `Mining!FairSpec` adds `WF_vars(Internal)`: once a command is given, the
operating system keeps running the process. Every step of a command is a
straight-line stretch of a sequential program, and the search for a nonce succeeds.
Nothing is assumed of users, of start-up or of crashes: `PoolIsDrained` lets a killed
process be down. `Startup!FairSpec` assumes the same of the steps of start-up, and
that whoever wants the program up starts it again with a student file it accepts
(`WF_vars(Launches)`); mishaps are bounded by `MaxFaults`, as they must be for any
start to succeed.

## 4. Findings

1. `difficulty 9` is stored and *then* rejected; the next mining command takes the
   front block from the pool and fails: the mark is in neither pool nor chain.
2. A crash while the chain file is rewritten loses the whole confirmed chain, and the
   next start begins a new one.
3. A signature whose last byte is zero fails `validate` on an untampered chain.
4. Miners can be paid more than the 20 coins per confirmed block of `README.md:123`.
   Cloud mining counts the reward of the same pending blocks once per rental round; a
   pool is paid before its blocks are confirmed, also when the difficulty then refuses
   them all.
5. A UTXO transfer never settles once it needs an input: `utxo_ref` has no room for
   `:index`, no output matches, and the answer is "Double-spend prevention triggered".
6. The rest of a comment longer than the line buffer is read as a line of its own and
   can register a student, though `students.c:64` says that comments are ignored.

Other disagreements the modules express, for which no run is kept:

- the fees typed for `mine cloud` are not checked: their sum overflows an `int`, and
  large fees come out as a profit beyond the mining reward, as negative ones do
  (`CloudFees = {200}`, `INT_MAX = 127`, `MinersEarnTheReward`);
- `transfer_nonce` accepts a negative amount and drives the *recipient* into debt
  (`DebtHasCause` without its first alternative; `tests/run_tests.sh:42` tries an amount the
  balance does not cover, but no negative one);
- a student line whose third field begins after 255 bytes is skipped, with a warning on
  the console only, and the program starts without this student (`RegistryComplete`
  with `Meant` for `WithinReach`);
- raising the difficulty makes an untampered chain fail (`UntamperedChainValidates`);
- a transfer of `INT_MAX` overflows to a negative sum that any balance covers, in both
  ledgers (`Conservation` and `ImplementsBank` hold modulo the width of an `int` only);
- a key file that was created but not written stops every later start (`StartsAgain`
  without its second alternative); a chain file that cannot be opened for once is
  replaced (`InitChain`).

## 5. Proofs

With one exception, every safety property, action property and refinement that a passing
run checks is also a theorem, for every value of the constants: any registry, any table
sizes, any width of `int`, histories and tables of any length, any number of faults,
commands and restarts.
The exception is `MinersEarnTheReward`, which finding 4 violates for constants the code
admits; its part that holds in general is `SoloMinerPaid`, which is proved. The two
liveness properties stay with TLC.

### Assumptions and hypotheses

Assumptions are the named `ASSUME`s of the modules, which TLC evaluates in every run:
`MiningAssumption` (finitely many owners, a registry that fits the table, positive
capacities, pool miners among the miners, hash rates in 50..200), `AccountAssumption`
(finitely many ids, students and miners among them, `SYSTEM` and `MINER` not, amounts
that are ints), `UtxoAssumption` (finitely many owners, positive capacities, rewards
that are not negative, amounts that are ints), `LedgerAssumption` (both of these),
`StartupAssumption` (positive capacities; a file is a sequence of pieces, and where it
begins, a line begins: the first piece shows the student who is meant or nobody) and
`IntMaxAssumption`.

Some theorems hold only under a condition that the code does not enforce. Each is a
named operator in the theorem's `ASSUME ... PROVE`, the run that checks the property
meets it, and without it TLC finds the property violated: none asks for more than it
must.

| Hypothesis | Says | Needed by | Without it |
|---|---|---|---|
| `FileWorks` | no open, write or flush fails; kills may | `FileIsChain` | the append is undone in memory after the file was emptied |
| `SavesComplete` | no write or flush fails, no kill within a save; opens may | `LedgerIsImmutable` | finding 2 |
| `NothingDropped` | difficulties that are typed are valid, the chain has room, no open or write fails; kills and failing flushes are allowed | `MarksAreKept` | finding 1, and the two other refusals after the block has left the pool |
| `RegisterWorks` | the same, and nothing fails but a kill outside of a save | `RegisterIsImplemented` | findings 1 and 2 |
| `NamesApart` | no student has the id of a miner | `StudentsArePaid`, `SoloMinerIsPaid` | such a student is paid as a miner too |
| `AmountsAreModest` | a full table of the largest credits, and the cost of any transfer, are ints | `OutputsAreABank`, `WideLedgerIsABank` | the sum of the inputs overflows, and `Selected` stops where it should not |

The last is needed only for references that are *not* cut off, that is, for the transfer
as it would be without finding 5. For the code as it is (`~WideRefs`, `RefsAreCutOff`)
`TruncatedOutputsAreABank` and `LedgerIsABank` say the same with no condition on amounts.

### The chain (`ChainProofs`)

- `TypeCorrect`: `Spec => []TypeOK`. `TypeOK` is inductive. It says more
  than types: what each phase implies for the other variables (`PhaseOK`, `PoolJobOK`),
  such as that the chain is never empty while the process runs, that a chain has a block
  besides genesis while one is saved or credited, and that there is a miner left to be
  paid in phase `paying`. The steps need these to apply `Tail`, `Tip` and `SubSeq`.
- `AlwaysLinked`: `[]ChainLinked`, inductive with `TypeOK`: append links to
  the tip, rollback takes a prefix, tampering changes the status only.
- `AlwaysFromMining`: `[]Provenance`. This is the strengthening the next two
  need: validation looks at one state, but its meaning is about the past. `Provenance`
  carries the past along: every saved block was sealed (hash and signature over its
  fields), and every block of chain and file is a saved one up to its status.
- `TamperingIsDetected`: `[]TamperEvident`. A valid block's signature is over
  its present fields; the saved block it stems from has the same signature, over its own
  fields; hence the two agree, status included.
- `HonestyIsRewarded`: `[]HonestChainValidates`, from `ChainLinked` (the
  links) and `Provenance` (hash and signature).

### The register (`RegisterProofs`)

- `MarksStayInOrder`: `[]InMarkOrder`. `Ordered`, the inductive form, speaks of chain
  and pool apart, because steps change them apart, and puts one before the other: moving
  the front of the pool to the end of the chain keeps all stamps in place, losing a
  block takes one away, and a mark appends the present time, which is above all others.
- `FileIsChain`: `[]FileMatchesChain` if `FileWorks`.
- `LedgerIsImmutable`: `[]ImmutableLedger` if `SavesComplete`. The invariant `HashesKept`
  follows the hash of every confirmed block from memory through the file and back: it is
  in the chain while the process runs, in the file unless that is just being written,
  and tampering does not change hashes.
- `MarksAreKept`: `[]EveryMarkKept` if `NothingDropped`. Two inductive invariants.
  `Fits` is why the chain never fills up: every block took a tick of the clock, and
  chain and pool together have no more blocks than the clock has ticks. `Kept` says
  that between any two steps, and not only at the prompt, every stamp of the session is
  in the chain or in the pool; it stays true because `MineFront` moves the front of the
  pool to the tip under `Fits`, and because nothing makes `SaveFails` take it back.
- `RegisterIsImplemented`: `Spec => ImplementsRegister` if `RegisterWorks`. `Located`,
  which follows from `TypeOK` and `FileMatchesChain`, says what the refinement mapping
  comes to in each phase; then each action is `MarkOne`, `ConfirmOne`, `Restart` or a
  stutter. The steps that are not obvious are the two ends of a save: a mark is
  confirmed when the file is written, not when memory changes, and the block in between
  counts as pending.

### Payments (`CreditProofs`)

- `StudentsArePaid`: `[]CreditsMatchChain` if `NamesApart`. The property is about the
  prompt; `StudentsPaid` holds in every phase: up to `Due`, the last block whose payment
  is settled, a student has the net rewards of its blocks (`Earned`, a sum over the chain
  since `base`) or, when the table of outputs is full, fewer. It holds under all faults.
- `SoloMinerIsPaid`: `[]SoloMinerPaid` if `NamesApart`, under all faults and next to all
  other commands. `SoloPaid` says the same in every phase: up to `Due`, the solo miner
  has at most the reward of each block, and exactly that if all mining is solo
  (`ModeInUse` ties the command that runs to `Modes`) and its table has room. A rollback
  takes back only blocks above `Due`, so no credit is ever left without its block.

### The account ledger (`AccountProofs`)

- `AccountsAreWellFormed`: `[]TypeOK`, inductive.
- `BooksAgree`: `[]DoubleEntry`; an entry of a transfer is put in both books in one step
  and books only grow, or are all emptied.
- `NoncesAreUsedOnce`: `[]NoncesUsedOnce`, from a form of it that speaks of one history
  at a time (`Orderly`), in which a transfer to oneself is two equal entries in a row.
- `AccountsAreABank`: `Spec => Bank!Spec`, the refinement. Every operation maps to
  `Mint`, `Move`, `Reset` or `Refuse`; the arithmetic is that of a wrapping `int` of any
  width.
- `CoinsAreConserved`: `[]Conservation`. The sum of all balances and the fees, modulo
  the width of an `int`, changes by exactly the credit; a transfer changes two terms of
  the sum, or one twice.
- `HistoriesExplainBalances`: `[]HistoryExplainsBalance`, from the same for one
  account and its sum of entries, newest first.
- `DebtsHaveCauses`: `[]DebtHasCause`. If no entry of a history is negative and its
  turnover is an `int`, then neither did any sum on the way overflow, so the check of
  the balance meant what it says.

### The UTXO ledger (`UtxoProofs`)

- `UtxoTypeCorrect`: `[]TypeOK`, from `TableOK` (each entry of the table is the output
  of the transaction it names, at the index it names) and `ReplyOK`.
- `ReferencesAreUnambiguous`: `[]RefsAreUnambiguous`, at once from `TableOK`: entries of
  one reference are copies of one output of one transaction.
- Two lemmas carry the rest, both by induction over the inputs of a transfer. With whole
  references (`AllMarked`) no input dangles, although several outputs may have one
  reference, and what is marked is exactly what was selected. With references as they
  are built (`NoneMarked`) *every* input dangles and nothing is marked, for tables and
  transfers of any size: finding 5 in general.
- `NothingIsSpentTwice`: `[]NoDoubleSpend`. `EachIsSpentOnce`, the inductive form, says
  the same of all references, those not in the table included, because a later
  transaction may bring an output whose reference was used before. A transfer marks as
  many outputs of a reference as it has inputs of it; its own first output, which counts
  these inputs, is added if there is room, and otherwise only the marks are (hence the
  inequality when the table is full).
- `OutputsAreABank`: `ImplementsBank` with whole references, if `AmountsAreModest`.
  `Solvent` bounds what a table can hold, so that the sum of any selection is an `int`;
  selection takes unspent outputs of the sender only, each once; marking takes exactly
  their sum from the sender; output and change put back all but the fee. Where the table
  fills up, what is missing is the sender's (`Leak`).
- `TruncatedOutputsAreABank`: `ImplementsBank` with references as they are built. A
  transfer that has an input changes nothing; what remains is the transfer without
  inputs, of an amount whose cost overflows to what an empty balance covers, which the
  bank, computing in the same `int`, makes too.

### The ledger as others see it (`LedgerProofs`)

`Ledger` instantiates the two halves; `LedgerProofs` instantiates what was proved about
them, and `LedgerOK` says that the half in use satisfies its inductive invariant.

- `CreditBookIsImplemented`: `Spec => ImplementsCreditBook`. This is what makes the
  `TokenLedger` inside `Mining`, and with it `StudentsArePaid` and `SoloMinerIsPaid`, a
  statement about the detailed ledgers: a credit is refused
  exactly when the table in use is full, no transfer changes one, a change of model
  starts a new book.
- `LedgerIsABank`: `Spec => ImplementsBank` for references as built (`RefsAreCutOff`:
  a buffer of at most 65 bytes), with no condition on amounts. `WideLedgerIsABank`: the
  same with any buffer, if `AmountsAreModest`.

### Start-up (`StartupProofs`)

- `KeysAlwaysMatch`, `ChainAlwaysVerifies`, `PairIsKept`: `[]KeysMatch`,
  `[]ChainVerifies` and the action property `PairKept`, all from one inductive
  invariant, `FilesAgree`: keys are in memory while they are written and when they are
  needed (`InMemory`); without a loss the private key file is the first to exist and
  the public one the last to be written, before any chain file (`Kept`), so that every
  block is signed by the last pair generated (`Signed`); and halves of different pairs
  need two mishaps (`Matching`).
- `StartupTypeCorrect`: `[]TypeOK`: the registry fits its table and is there, and not
  empty, exactly as long as the process.
- `EveryStudentIsRead`: `[]RegistryComplete`, for files of any length and any mixture of
  lines, by induction over the pieces: as long as the table has not overflowed, those
  within reach so far are in the registry so far, in order (`IsWithin`). A piece adds a
  student to both, to the registry only, or to neither, and each of these keeps it; a
  table that overflows makes `ok` false, and the process never starts.

### Induction, sums and recursion (`NumberLemmas`)

Sums (`SumFunctionOnSet`, `SumFunction`) and recursive functions (`Selected`, `Marked`,
`LoadRegistry`) are where the theorems above need induction. The induction theorems of
the library take an operator as a parameter, which the provers do not instantiate. The
principles are therefore stated over *sets* (a set of numbers that has 0 and every
successor has them all; a family of subsets closed under adding an element has every
subset) and proved from the least-number principle, and a property is proved by
induction on the set of the numbers that have it. That a recursive function exists, so
that its equation may be used, is proved once for numbers and once for finite sets. The
rest of the module is what sums do when a term changes, is added or is zero, and how
`AsInt` absorbs an inner `AsInt`, with the division it is defined by.

Only model-checked: `PoolIsDrained` and `StartsAgain`, which are liveness under fairness
and need `ENABLED`, out of the prover's reach; and `MinersEarnTheReward`, which holds in
its run and not in general.

## 6. Not modelled

- Splitting command lines into words: commands are their parsed arguments, any number
  and any id where the code checks neither.
- Printing. `view`, `pending`, `balances`, `utxos`, `history` and `help` change nothing.
- `pending_clear`, which nobody calls; a `calloc` of a history entry that fails, after
  which the books do not explain the balance.
- The bytes of a student line, and ids, names and courses cut to the size of their
  fields: a record is there or not.
- Widths in pool mining: with 256 pending blocks, 8 miners and hash rates up to 200 no
  product exceeds 200 * 256 * 20, far below `INT_MAX`.
- The makefile and the smoke tests; OpenSSL beyond what is said of digests, signatures
  and key files.

## 7. Plan

Done, in this order: `Attendance`, `Blockchain`, `TokenLedger`, `Mining` with its runs
(the core: everything users rely on goes through it); `AttendanceRegister` and the
refinement; the detailed ledgers with `TokenBank`; the proofs about types and chain;
the ledgers at their limits (overflow, full tables) and their composition `Ledger`,
which refines `CreditBook`; start-up with student file, key files and chain file; the
proofs about order, file, account ledger and start-up; induction, and with it the proofs
about sums, selection and marking of outputs, payments and the student file; the
refinements of register, bank and credit book.

Left, most valuable first:

1. Signatures in `Mining` that carry their key, which would make `Startup` and `Mining`
   one composition and `TamperEvident` a statement across lost keys.
2. What pool and cloud mining pay at most per command: a bound that counts rental rounds
   and refused blocks, which is what remains true of `MinersEarnTheReward` in general.
3. A step bound for the commands of `Mining` (a state function that every internal step
   decreases), which is the part of `PoolIsDrained` that needs no fairness and could be
   proved.
