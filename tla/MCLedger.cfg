SPECIFICATION Spec
CONSTANTS
  s1 = s1  s2 = s2  miner = miner  stranger = stranger
  SYSTEM = SYSTEM  MINER = MINER
  Ids <- MCIds
  Registry <- MCRegistry
  Miners <- MCMiners
  MAX_STUDENTS = 3
  NonceAmounts = {2}
  MaxCredits = 2
  MaxTransfers = 2
  REF_SIZE = 65
  MAX_UTXOS = 4
  MAX_TX_INPUTS = 3
  TX_BUFFER_INPUTS = 2
  Rewards = {0, 5, 10}
  MinerAmounts = {20}
  TransferAmounts = {4, 127}
  INT_MAX = 127
SYMMETRY Symmetry
PROPERTIES ImplementsBank ImplementsCreditBook
