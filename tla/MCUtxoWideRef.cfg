SPECIFICATION Spec
CONSTANTS
  s1 = s1  s2 = s2  miner = miner
  Registry <- MCRegistry
  Miners <- MCMiners
  REF_SIZE = 81
  MAX_UTXOS = 6
  MAX_TX_INPUTS = 3
  TX_BUFFER_INPUTS = 2
  Rewards = {0, 5}
  MinerAmounts = {20}
  TransferAmounts = {3, 7}
  INT_MAX = 255
SYMMETRY Symmetry
INVARIANTS TypeOK RefsAreUnambiguous NoDoubleSpend
PROPERTY ImplementsBank
