SPECIFICATION FairSpec
CONSTANTS
  a = a  b = b  NoRecord = NoRecord
  StudentIds <- MCStudentIds
  Files <- MCFiles
  MAX_STUDENTS = 2
  MAX_BLOCKS = 3
  MaxFaults = 4
INVARIANTS TypeOK RegistryComplete KeysMatch ChainVerifies
PROPERTIES PairKept StartsAgain
