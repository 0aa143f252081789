SPECIFICATION Spec
CONSTANTS
  s1 = s1  s2 = s2  miner = miner
  Registry <- MCRegistry
  Miners <- MCMiners
  REF_SIZE = 65
  MAX_UTXOS = 3
  MAX_TX_INPUTS = 3
  TX_BUFFER_INPUTS = 2
  Rewards = {0, 5}
  MinerAmounts = {20}
  TransferAmounts = {2}
  INT_MAX = 127
INVARIANT CoveredTransferSettles
