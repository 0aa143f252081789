SPECIFICATION FairSpec
CONSTANTS
  s1 = s1  solo = solo  cloud = cloud  p1 = p1  p2 = p2  p3 = p3  stranger = stranger
  NONE = NONE  GENESIS = GENESIS  GENESIS_PREV_HASH = ZEROS
  Students <- MCStudents
  Miners <- MCMiners
  TypedIds <- MCTypedIds
  SOLO_MINER = solo  CLOUD_USER = cloud
  PoolMiner <- MCPoolMiner
  Modes = {"solo", "pool", "cloud"}
  Models = {"utxo", "account"}
  DifficultyInputs = {1}
  TamperInputs = {2}
  MinerCounts = {0}
  HashRates = {50}
  CloudRounds = {0, 1}
  CloudFees = {15}
  Clippings = {FALSE}
  Faults = {"crash"}
  MaxClock = 4
  MaxBoots = 2
  MAX_BLOCKS = 4
  MAX_PENDING = 3
  MAX_UTXOS = 4
  MAX_STUDENTS = 3
  MAX_POOL_MINERS = 3
  INT_MAX = 1023
  MaxZeros = 1
CHECK_DEADLOCK FALSE

INVARIANTS TypeOK FileMatchesChain EveryMarkKept CreditsMatchChain MinersEarnTheReward ImmutableLedger
PROPERTIES ImplementsRegister PoolIsDrained
