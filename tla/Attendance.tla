----------------------------- MODULE Attendance -----------------------------
(***************************************************************************)
(* The vocabulary shared by every component: the economic constants of     *)
(* attendance.h, the attendance statuses of students.c and the reward      *)
(* transactions of transactions.c.  SHA-256 is taken to be collision free, *)
(* so a transaction id IS the transaction it is the digest of.             *)
(***************************************************************************)
EXTENDS Integers, Sequences

REWARD_PRESENT   == 10
REWARD_LATE      == 5
REWARD_ABSENT    == 0
TX_FEE           == 1
MINING_REWARD    == 20
POOL_FEE_PERCENT == 2
MIN_DIFFICULTY   == 1
MAX_DIFFICULTY   == 4

\* The statuses is_valid_status accepts.
ValidStatus == {"PRESENT", "ABSENT", "LATE"}

TokenRewardForStatus(status) ==
  CASE status = "PRESENT" -> REWARD_PRESENT
    [] status = "LATE"    -> REWARD_LATE
    [] OTHER              -> REWARD_ABSENT

LedgerModels == {"utxo", "account"}

Output(owner, amount) == [owner |-> owner, amount |-> amount]

\* Variant with a bug: the fee is not deducted.
GrossReward(reward) == reward

\* What is left of a reward after the fee.
NetReward(reward) == reward - TX_FEE

\* The transaction create_reward_transaction builds: no input, one output.
RewardTransaction(owner, reward) ==
  [is_reward |-> TRUE, fee |-> TX_FEE, inputs |-> <<>>,
   outputs |-> <<Output(owner, NetReward(reward))>>]
=============================================================================
