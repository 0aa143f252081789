SPECIFICATION Spec
CONSTANTS
  s1 = s1  solo = solo  cloud = cloud  p1 = p1  p2 = p2  p3 = p3  stranger = stranger
  NONE = NONE  GENESIS = GENESIS  GENESIS_PREV_HASH = ZEROS
  Students <- MCStudents
  Miners <- MCMiners
  TypedIds = {}
  SOLO_MINER = solo  CLOUD_USER = cloud
  PoolMiner <- MCPoolMiner
  Modes = {"solo"}
  Models = {"utxo"}
  DifficultyInputs = {1}
  TamperInputs = {1, 2, 3}
  MinerCounts = {0}
  HashRates = {50}
  CloudRounds = {1}
  CloudFees = {0}
  Clippings = {FALSE}
  Faults = {"crash_in_save"}
  MaxClock = 4
  MaxBoots = 2
  MAX_BLOCKS = 4
  MAX_PENDING = 2
  MAX_UTXOS = 20
  MAX_STUDENTS = 10
  MAX_POOL_MINERS = 3
  INT_MAX = 1023
  MaxZeros = 1
CHECK_DEADLOCK FALSE

INVARIANT ImmutableLedger
