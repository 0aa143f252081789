SPECIFICATION Spec
CONSTANTS
  s1 = s1  s2 = s2  miner = miner  stranger = stranger
  SYSTEM = SYSTEM  MINER = MINER
  Ids <- MCIds
  Registry <- MCRegistry
  Miners <- MCMiners
  MAX_STUDENTS = 3
  RewardAmounts = {9}
  MinerAmounts = {20}
  TransferAmounts = {4, 127}
  NonceAmounts <- MCAnyAmount
  INT_MAX = 127
  MaxCredits = 2
  MaxTransfers = 3
SYMMETRY Symmetry
INVARIANTS TypeOK NoncesUsedOnce DoubleEntry Conservation HistoryExplainsBalance DebtHasCause
PROPERTY ImplementsBank
