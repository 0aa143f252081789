---------------------------- MODULE StartupProofs ----------------------------
(***************************************************************************)
(* Start-up.  What is known of the two key files and of the chain file     *)
(* wherever the program was stopped: from the inductive invariant          *)
(* FilesAgree follow KeysMatch, ChainVerifies and PairKept.  And what      *)
(* load_student_registry makes of a file, by induction over its pieces.    *)
(***************************************************************************)
EXTENDS Startup, NumberLemmas, SequenceTheorems, TLAPS

\* Nothing has gone wrong, or nothing but the loss of a key file.
Clean == faults = 0 \/ (lost /\ faults = 1)

Needed == phase \in {"chain", "running"} \/ target = "chain"

Whole(f) == pem[f] \in {Torn, pairs}

\* The keys in memory while they are written and when they are used.
InMemory ==
  /\ lost => faults > 0
  /\ target \in KeyFiles => keys = [signing |-> pairs, verifying |-> pairs] /\ pairs > 0
  /\ target = "public" => Whole("private")
  /\ phase = "writing" /\ target \in KeyFiles => Whole(target)
  /\ Needed => keys.signing \in 1..pairs

\* Unless a key file is lost, the private one is the first to exist, the public
\* one is the last to be written, and nothing is signed before.
Kept ==
  ~lost =>
    /\ pem["public"] # Missing => Whole("private") /\ Whole("public") /\ pairs > 0
    /\ target = "private" => pem["public"] = Missing
    /\ target \in KeyFiles => ~chain_file.exists
    /\ Needed => pem["public"] # Missing
    /\ Needed => keys = [signing |-> pairs, verifying |-> pairs]
    /\ chain_file.exists => pem["public"] # Missing

Signed ==
  ~lost =>
    /\ \A i \in 1..Len(chain) : chain[i] = pairs
    /\ \A i \in 1..Len(before) : before[i] = pairs
    /\ \A i \in 1..Len(chain_file.blocks) : chain_file.blocks[i] = pairs

Matching ==
  Clean =>
    /\ target \notin KeyFiles /\ Missing \notin {pem["private"], pem["public"]}
         => pem["private"] = pairs /\ pem["public"] = pairs
    /\ target = "public" => pem["private"] = pairs
    /\ Needed => keys.signing = keys.verifying

FilesAgree == ProcessOK /\ FilesOK /\ InMemory /\ Kept /\ Signed /\ Matching
-----------------------------------------------------------------------------
(* Signatures of earlier pairs stay signatures when a pair is generated. *)
LEMMA SeqGrows ==
  ASSUME NEW n \in Nat, NEW s \in Seq(1..n)
  PROVE  s \in Seq(1..n + 1)
  OBVIOUS

(* The empty chain is one. *)
LEMMA NoBlocks ==
  ASSUME NEW n \in Nat
  PROVE  <<>> \in Seq(1..n) /\ Len(<<>>) <= MAX_BLOCKS
  BY StartupAssumption

(* A process that has ended. *)
LEMMA Ended ==
  ASSUME FilesAgree, Halt, UNCHANGED <<pem, chain_file, pairs, lost>>
  PROVE  /\ ProcessOK' /\ Kept' /\ Signed'
         /\ faults' \in 0..MaxFaults /\ (lost => faults' > 0) => FilesOK' /\ InMemory'
  <1>1. ProcessOK'
    <2>1. NoKeys \in [signing : Missing..pairs, verifying : Missing..pairs]
      BY DEF FilesAgree, FilesOK, NoKeys, Missing
    <2>2. <<>> \in Seq(1..pairs) /\ Len(<<>>) <= MAX_BLOCKS
      BY NoBlocks DEF FilesAgree, FilesOK
    <2> QED
      BY <2>1, <2>2 DEF Halt, ProcessOK, Phases
  <1>2. Kept' /\ Signed'
    BY DEF FilesAgree, FilesOK, Kept, Signed, Halt, Needed, Whole, KeyFiles
  <1>3. faults' \in 0..MaxFaults /\ (lost => faults' > 0) => FilesOK' /\ InMemory'
    BY DEF FilesAgree, FilesOK, Halt, InMemory, Needed, KeyFiles
  <1> QED
    BY <1>1, <1>2, <1>3

(* What goes wrong other than by losing a key file leaves nothing to match. *)
LEMMA FaultType ==
  ASSUME FilesAgree, Fault, lost' = lost
  PROVE  faults' \in 0..MaxFaults /\ faults' > 0 /\ Matching'
  BY StartupAssumption DEF FilesAgree, FilesOK, InMemory, Fault, Matching, Clean

LEMMA AtStart == Init => FilesAgree
  <1> SUFFICES ASSUME Init PROVE FilesAgree
    OBVIOUS
  <1>1. <<>> \in Seq(1..0) /\ Len(<<>>) <= MAX_BLOCKS
    BY NoBlocks
  <1>2. NoKeys \in [signing : Missing..0, verifying : Missing..0]
    BY DEF NoKeys, Missing
  <1>3. ProcessOK
    BY <1>1, <1>2 DEF Init, ProcessOK, Phases
  <1>4. NoChain \in [exists : BOOLEAN, blocks : Seq(1..0)] /\ NoChain.blocks = <<>>
    BY <1>1 DEF NoChain
  <1>5. FilesOK
    <2>1. [f \in KeyFiles |-> Missing] \in [KeyFiles -> Missing..0]
      BY DEF Missing
    <2>2. 0 \in 0..MaxFaults
      BY StartupAssumption
    <2> QED
      BY <1>1, <1>4, <2>1, <2>2 DEF Init, FilesOK
  <1>6. InMemory /\ Kept /\ Signed /\ Matching
    BY DEF Init, InMemory, Kept, Signed, Matching, Needed, KeyFiles, NoChain, Missing
  <1> QED
    BY <1>3, <1>5, <1>6 DEF FilesAgree

LEMMA KeptByLaunch ==
  ASSUME FilesAgree, NEW file \in Files, Launch(file) PROVE FilesAgree'
  <1>1. ProcessOK' /\ FilesOK'
    BY DEF FilesAgree, ProcessOK, FilesOK, Launch, Phases
  <1>2. InMemory' /\ Kept' /\ Signed' /\ Matching'
    BY DEF FilesAgree, ProcessOK, Launch, InMemory, Kept, Signed, Matching, Needed, Whole,
           Clean, KeyFiles
  <1> QED
    BY <1>1, <1>2 DEF FilesAgree

LEMMA KeptByLoadKeys == ASSUME FilesAgree, LoadKeys PROVE FilesAgree'
  <1>1. CASE ~Readable /\ Halt
    <2>1. Matching'
      BY <1>1 DEF FilesAgree, ProcessOK, LoadKeys, Halt, Matching, Clean, Needed, KeyFiles
    <2> QED
      BY <1>1, <2>1, Ended DEF LoadKeys, FilesAgree, FilesOK, InMemory
  <1>2. CASE Readable /\ phase' = "chain"
    <2>0. /\ keys' = [signing |-> pem["private"], verifying |-> pem["public"]]
          /\ phase = "keys"
          /\ UNCHANGED <<target, chain, before, pem, chain_file, pairs, lost, faults>>
      BY <1>2 DEF LoadKeys, Halt
    <2>a. target = "none" /\ chain = <<>> /\ before = <<>>
      BY <2>0 DEF FilesAgree, ProcessOK
    <2>b. pem["private"] \in 1..pairs /\ pem["public"] \in 1..pairs
      BY <1>2 DEF FilesAgree, FilesOK, Readable, KeyFiles, Missing, Torn
    <2>1. ProcessOK'
      BY <1>2, <2>0, <2>a, <2>b DEF FilesAgree, ProcessOK, FilesOK, Phases, NoKeys, Missing
    <2>2. FilesOK'
      BY <2>0 DEF FilesAgree, FilesOK
    <2>3. InMemory' /\ Kept' /\ Signed' /\ Matching'
      BY <1>2, <2>0, <2>a, <2>b DEF FilesAgree, InMemory, Kept, Signed, Matching, Needed, Whole,
                  Clean, KeyFiles, Missing, Torn
    <2> QED
      BY <2>1, <2>2, <2>3 DEF FilesAgree
  <1> QED
    BY <1>1, <1>2 DEF LoadKeys

LEMMA KeptByGenerateKeys == ASSUME FilesAgree, GenerateKeys PROVE FilesAgree'
  <1>0. /\ phase = "keys" /\ phase' = "opening" /\ target' = "private"
        /\ pairs' = pairs + 1 /\ pairs \in Nat
        /\ keys' = [signing |-> pairs', verifying |-> pairs']
        /\ UNCHANGED <<chain, pem, chain_file, before>>
    BY DEF FilesAgree, FilesOK, GenerateKeys, FirstKeyFile
  <1>1. chain = <<>> /\ before = <<>> /\ target = "none"
    BY <1>0 DEF FilesAgree, ProcessOK
  <1>2. ~lost' => ~lost /\ pem["public"] = Missing /\ ~chain_file.exists
    BY DEF FilesAgree, FilesOK, GenerateKeys, BothKeyFiles, KeyFiles, Kept, Whole, Missing, Torn
  <1>3. ProcessOK'
    BY <1>0, <1>1 DEF FilesAgree, ProcessOK, Phases, KeyFiles, NoKeys, Missing
  <1>4. FilesOK'
    <2>1. pem' \in [KeyFiles -> Missing..pairs']
      BY <1>0 DEF FilesAgree, FilesOK, Missing
    <2>2. chain_file' \in [exists : BOOLEAN, blocks : Seq(1..pairs')]
      <3>1. chain_file.blocks \in Seq(1..pairs + 1)
        BY <1>0, SeqGrows DEF FilesAgree, FilesOK
      <3> QED
        BY <1>0, <3>1 DEF FilesAgree, FilesOK
    <2>3. lost' \in BOOLEAN
      BY DEF FilesAgree, FilesOK, GenerateKeys
    <2>4. faults' \in 0..MaxFaults
      BY StartupAssumption DEF FilesAgree, FilesOK, GenerateKeys, Fault
    <2> QED
      BY <1>0, <2>1, <2>2, <2>3, <2>4 DEF FilesAgree, FilesOK
  <1>5. InMemory'
    <2>1. lost' => faults' > 0
      <3>1. CASE UNCHANGED <<lost, faults>>
        BY <3>1 DEF FilesAgree, InMemory
      <3>2. CASE Fault
        BY <3>2 DEF FilesAgree, FilesOK, Fault
      <3> QED
        BY <3>1, <3>2 DEF GenerateKeys
    <2> QED
      BY <1>0, <2>1 DEF InMemory, Needed, KeyFiles
  <1>6. Kept' /\ Signed' /\ Matching'
    BY <1>0, <1>1, <1>2
    DEF FilesAgree, FilesOK, Kept, Signed, Matching, Needed, Whole, KeyFiles
  <1> QED
    BY <1>3, <1>4, <1>5, <1>6 DEF FilesAgree

LEMMA KeptByLoadChain == ASSUME FilesAgree, LoadChain PROVE FilesAgree'
  <1>1. ProcessOK' /\ FilesOK'
    BY DEF FilesAgree, ProcessOK, FilesOK, LoadChain, Phases
  <1>2. InMemory' /\ Kept' /\ Signed' /\ Matching'
    BY DEF FilesAgree, ProcessOK, LoadChain, InMemory, Kept, Signed, Matching, Needed, Whole,
           Clean, KeyFiles
  <1> QED
    BY <1>1, <1>2 DEF FilesAgree

LEMMA KeptByInitChain == ASSUME FilesAgree, InitChain PROVE FilesAgree'
  <1>0. /\ phase = "chain" /\ phase' = "opening" /\ target' = "chain"
        /\ chain' = <<keys.signing>> /\ before' = <<>> /\ target = "none"
        /\ keys.signing \in 1..pairs /\ pairs \in Nat
        /\ UNCHANGED <<keys, pem, chain_file, pairs, lost>>
    BY DEF FilesAgree, FilesOK, ProcessOK, InMemory, Needed, InitChain
  <1>1. ProcessOK'
    BY <1>0, StartupAssumption DEF FilesAgree, ProcessOK, Phases
  <1>2. faults' \in 0..MaxFaults /\ faults' >= faults
    BY StartupAssumption DEF FilesAgree, FilesOK, InitChain, Fault
  <1>3. FilesOK'
    BY <1>0, <1>2 DEF FilesAgree, FilesOK
  <1>4. InMemory'
    BY <1>0, <1>2 DEF FilesAgree, FilesOK, InMemory, Needed, KeyFiles
  <1>5. Kept' /\ Signed'
    BY <1>0 DEF FilesAgree, Kept, Signed, Needed, Whole, KeyFiles
  <1>6. Matching'
    <2>1. CASE faults' = faults
      BY <1>0, <2>1 DEF FilesAgree, Matching, Clean, Needed, KeyFiles
    <2>2. CASE Fault
      BY <1>0, <2>2, FaultType
    <2> QED
      BY <2>1, <2>2 DEF InitChain
  <1> QED
    BY <1>1, <1>3, <1>4, <1>5, <1>6 DEF FilesAgree

LEMMA KeptByAppendBlock == ASSUME FilesAgree, AppendBlock PROVE FilesAgree'
  <1>0. /\ phase = "running" /\ phase' = "opening" /\ target' = "chain" /\ target = "none"
        /\ before' = chain /\ chain' = Append(chain, keys.signing)
        /\ keys.signing \in 1..pairs /\ chain \in Seq(1..pairs) /\ chain # <<>>
        /\ Len(chain) < MAX_BLOCKS
        /\ UNCHANGED <<keys, pem, chain_file, pairs, lost, faults>>
    BY DEF FilesAgree, ProcessOK, InMemory, Needed, AppendBlock
  <1>1. ProcessOK'
    <2>1. chain' \in Seq(1..pairs) /\ Len(chain') = Len(chain) + 1 /\ chain' # <<>>
      BY <1>0
    <2> QED
      BY <1>0, <2>1, StartupAssumption DEF FilesAgree, ProcessOK, Phases
  <1>2. FilesOK' /\ InMemory'
    BY <1>0 DEF FilesAgree, FilesOK, InMemory, Needed, KeyFiles
  <1>3. Kept' /\ Matching'
    BY <1>0 DEF FilesAgree, Kept, Matching, Needed, Whole, Clean, KeyFiles
  <1>4. Signed'
    <2>1. ~lost => keys.signing = pairs
      BY <1>0 DEF FilesAgree, Kept, Needed
    <2>2. ~lost => \A i \in 1..Len(chain) : chain[i] = pairs
      BY DEF FilesAgree, Signed
    <2>3. ~lost => \A i \in 1..Len(chain') : chain'[i] = pairs
      BY <1>0, <2>1, <2>2
    <2> QED
      BY <1>0, <2>2, <2>3 DEF FilesAgree, Signed
  <1> QED
    BY <1>1, <1>2, <1>3, <1>4 DEF FilesAgree
-----------------------------------------------------------------------------
LEMMA KeptByOpenFile == ASSUME FilesAgree, OpenFile PROVE FilesAgree'
  <1>0. /\ phase = "opening" /\ phase' = "writing" /\ target \in KeyFiles \cup {"chain"}
        /\ UNCHANGED <<target, keys, chain, before, pairs, lost, faults>>
        /\ pairs \in Nat
    BY DEF FilesAgree, ProcessOK, FilesOK, OpenFile
  <1>1. ProcessOK'
    BY <1>0 DEF FilesAgree, ProcessOK, Phases
  <1>2. CASE target \in KeyFiles
    <2>1. pem' = [pem EXCEPT ![target] = Torn] /\ chain_file' = chain_file
      BY <1>2 DEF OpenFile, KeyFiles
    <2>2. FilesOK'
      <3>1. pem' \in [KeyFiles -> Missing..pairs]
        <4>1. Torn \in Missing..pairs
          BY <1>0 DEF Missing, Torn
        <4> QED
          BY <2>1, <4>1 DEF FilesAgree, FilesOK
      <3> QED
        BY <1>0, <2>1, <3>1 DEF FilesAgree, FilesOK
    <2>3. InMemory' /\ Kept' /\ Signed' /\ Matching'
      BY <1>0, <1>2, <2>1 DEF FilesAgree, FilesOK, InMemory, Kept, Signed, Matching,
        Needed, Whole, Clean, KeyFiles, Missing, Torn
    <2> QED
      BY <1>1, <2>2, <2>3 DEF FilesAgree
  <1>3. CASE target = "chain"
    <2>1. pem' = pem /\ chain_file' = TornChain
      BY <1>3 DEF OpenFile, KeyFiles
    <2>2. FilesOK'
      <3>1. /\ TornChain \in [exists : BOOLEAN, blocks : Seq(1..pairs)]
            /\ TornChain.exists /\ Len(TornChain.blocks) <= MAX_BLOCKS
        BY StartupAssumption DEF TornChain
      <3> QED
        BY <1>0, <2>1, <3>1 DEF FilesAgree, FilesOK
    <2>3. InMemory' /\ Kept' /\ Signed' /\ Matching'
      BY <1>0, <1>3, <2>1 DEF FilesAgree, InMemory, Kept, Signed, Matching,
        Needed, Whole, Clean, KeyFiles, TornChain
    <2> QED
      BY <1>1, <2>2, <2>3 DEF FilesAgree
  <1> QED
    BY <1>0, <1>2, <1>3

LEMMA KeptByFailedWrite ==
  ASSUME FilesAgree, WriteFailed, phase \in {"opening", "writing"},
         UNCHANGED <<pem, chain_file, pairs, lost>>
  PROVE  FilesAgree'
  <1>0. faults' \in 0..MaxFaults /\ faults' > 0 /\ Matching'
    BY FaultType DEF WriteFailed
  <1>1. CASE before = <<>> /\ Halt
    BY <1>0, <1>1, Ended DEF FilesAgree
  <1>2. CASE /\ before # <<>> /\ chain' = before /\ before' = <<>>
             /\ phase' = "running" /\ target' = "none" /\ UNCHANGED keys
    <2>1. target = "chain" /\ phase \notin {"down", "keys"}
      BY <1>2 DEF FilesAgree, ProcessOK
    <2>2. ProcessOK'
      <3>1. <<>> \in Seq(1..pairs) /\ Len(<<>>) <= MAX_BLOCKS
        BY NoBlocks DEF FilesAgree, FilesOK
      <3> QED
        BY <1>2, <2>1, <3>1 DEF FilesAgree, ProcessOK, Phases
    <2>3. FilesOK' /\ InMemory' /\ Kept' /\ Signed'
      BY <1>0, <1>2, <2>1 DEF FilesAgree, FilesOK, InMemory, Kept, Signed, Needed,
        Whole, KeyFiles
    <2> QED
      BY <1>0, <2>2, <2>3 DEF FilesAgree
  <1> QED
    BY <1>1, <1>2 DEF WriteFailed

LEMMA KeptByWriteFile == ASSUME FilesAgree, WriteFile PROVE FilesAgree'
  <1>0. /\ phase = "writing" /\ before' = <<>>
        /\ UNCHANGED <<keys, chain, pairs, lost, faults>> /\ pairs \in Nat
    BY DEF FilesAgree, FilesOK, WriteFile, AfterWrite
  <1>1. CASE target \in KeyFiles
    <2>1. /\ keys.signing = pairs /\ keys.verifying = pairs /\ pairs > 0
          /\ keys = [signing |-> pairs, verifying |-> pairs]
      BY <1>1 DEF FilesAgree, InMemory
    <2>a. pem' = [pem EXCEPT ![target] = pairs] /\ chain_file' = chain_file
      BY <1>1, <2>1 DEF WriteFile, Written, KeyFiles
    <2>b. chain = <<>> /\ before = <<>>
      BY <1>0, <1>1 DEF FilesAgree, ProcessOK, KeyFiles
    <2>2. \/ target = "private" /\ phase' = "opening" /\ target' = "public"
          \/ target = "public" /\ phase' = "chain" /\ target' = "none"
      BY <1>1 DEF WriteFile, AfterWrite, KeyFiles
    <2>3. ProcessOK'
      BY <1>0, <2>1, <2>2, <2>a, <2>b DEF FilesAgree, ProcessOK, Phases, KeyFiles
    <2>4. FilesOK'
      BY <1>0, <1>1, <2>1, <2>a DEF FilesAgree, FilesOK, Missing
    <2>5. InMemory' /\ Signed'
      BY <1>0, <2>1, <2>2, <2>a, <2>b DEF FilesAgree, FilesOK, InMemory, Signed, Needed, Whole, KeyFiles
    <2>6. Kept'
      BY <1>0, <1>1, <2>1, <2>2, <2>a, <2>b DEF FilesAgree, FilesOK, InMemory, Kept, Needed, Whole,
        KeyFiles, Missing
    <2>7. Matching'
      BY <1>0, <2>1, <2>2, <2>a, <2>b DEF FilesAgree, FilesOK, Matching, Clean, Needed, KeyFiles
    <2> QED
      BY <2>3, <2>4, <2>5, <2>6, <2>7 DEF FilesAgree
  <1>2. CASE target = "chain"
    <2>1. /\ pem' = pem /\ chain_file' = [exists |-> TRUE, blocks |-> chain]
          /\ phase' = "running" /\ target' = "none"
      BY <1>0, <1>2 DEF WriteFile, AfterWrite, Written, KeyFiles
    <2>2. ProcessOK'
      BY <1>0, <1>2, <2>1, NoBlocks DEF FilesAgree, ProcessOK, Phases
    <2>a. FilesOK'
      <3>1. chain_file'.blocks = chain /\ chain_file'.exists
        BY <2>1
      <3> QED
        BY <1>0, <2>1, <3>1 DEF FilesAgree, ProcessOK, FilesOK
    <2>3. InMemory' /\ Kept' /\ Signed' /\ Matching'
      BY <1>0, <1>2, <2>1 DEF FilesAgree, InMemory, Kept, Signed, Matching,
        Needed, Whole, Clean, KeyFiles
    <2> QED
      BY <2>2, <2>a, <2>3 DEF FilesAgree
  <1> QED
    BY <1>0, <1>1, <1>2 DEF FilesAgree, ProcessOK

LEMMA KeptByFlushFails == ASSUME FilesAgree, FlushFails PROVE FilesAgree'
  <1>0. /\ phase = "writing" /\ before' = <<>> /\ pairs \in Nat
        /\ UNCHANGED <<keys, chain, pem, chain_file, pairs, lost>>
    BY DEF FilesAgree, FilesOK, FlushFails, AfterWrite
  <1>1. /\ \/ target = "private" /\ phase' = "opening" /\ target' = "public"
           \/ target = "public" /\ phase' = "chain" /\ target' = "none"
           \/ target = "chain" /\ phase' = "running" /\ target' = "none"
    BY DEF FlushFails, AfterWrite
  <1>2. faults' \in 0..MaxFaults /\ faults' > 0 /\ Matching'
    BY <1>0, FaultType DEF FlushFails
  <1>3. ProcessOK'
    BY <1>0, <1>1, NoBlocks DEF FilesAgree, ProcessOK, Phases, KeyFiles
  <1>4. FilesOK'
    BY <1>0, <1>2 DEF FilesAgree, FilesOK
  <1>5. InMemory' /\ Signed'
    BY <1>0, <1>1, <1>2 DEF FilesAgree, InMemory, Signed, Needed, Whole, KeyFiles
  <1>6. Kept'
    BY <1>0, <1>1 DEF FilesAgree, InMemory, Kept, Needed, Whole, KeyFiles, Missing, Torn
  <1> QED
    BY <1>2, <1>3, <1>4, <1>5, <1>6 DEF FilesAgree

LEMMA KeptByQuit == ASSUME FilesAgree, Quit PROVE FilesAgree'
  <1>1. Matching'
    BY DEF FilesAgree, ProcessOK, Quit, Halt, Matching, Clean, Needed, KeyFiles
  <1> QED
    BY <1>1, Ended DEF Quit, FilesAgree, FilesOK, InMemory

LEMMA KeptByCrash == ASSUME FilesAgree, Crash PROVE FilesAgree'
  BY Ended, FaultType DEF Crash, FilesAgree

LEMMA KeptByLose ==
  ASSUME FilesAgree, NEW f \in KeyFiles, Lose(f) PROVE FilesAgree'
  <1>0. /\ phase = "down" /\ pem' = [pem EXCEPT ![f] = Missing] /\ lost'
        /\ faults < MaxFaults /\ faults' = faults + 1
        /\ target = "none"
        /\ UNCHANGED <<phase, target, keys, chain, before, chain_file, pairs>>
    BY DEF FilesAgree, FilesOK, ProcessOK, Lose, process
  <1>1. ProcessOK' /\ lost' = TRUE
    BY <1>0 DEF FilesAgree, ProcessOK, Lose
  <1>2. FilesOK'
    BY <1>0, <1>1, StartupAssumption DEF FilesAgree, FilesOK, Missing
  <1>3. InMemory' /\ Kept' /\ Signed'
    BY <1>0 DEF FilesAgree, FilesOK, InMemory, Kept, Signed, Needed, KeyFiles
  <1>4. Matching'
    BY <1>0 DEF FilesAgree, FilesOK, Matching, Needed, KeyFiles
  <1> QED
    BY <1>1, <1>2, <1>3, <1>4 DEF FilesAgree
-----------------------------------------------------------------------------
LEMMA KeptByAll == FilesAgree /\ [Next]_vars => FilesAgree'
  <1> SUFFICES ASSUME FilesAgree, [Next]_vars PROVE FilesAgree'
    OBVIOUS
  <1>1. CASE Internal
    <2>1. CASE OpenFails \/ WriteFails
      BY <2>1, KeptByFailedWrite DEF OpenFails, WriteFails
    <2> QED
      BY <1>1, <2>1, KeptByLoadKeys, KeptByGenerateKeys, KeptByLoadChain, KeptByInitChain,
         KeptByOpenFile, KeptByWriteFile, KeptByFlushFails
      DEF Internal
  <1>2. CASE Launches
    BY <1>2, KeptByLaunch DEF Launches
  <1>3. CASE AppendBlock \/ Quit \/ Crash
    BY <1>3, KeptByAppendBlock, KeptByQuit, KeptByCrash
  <1>4. CASE \E f \in KeyFiles : Lose(f)
    BY <1>4, KeptByLose
  <1>5. CASE UNCHANGED vars
    BY <1>5 DEF FilesAgree, ProcessOK, FilesOK, InMemory, Kept, Signed, Matching, Needed,
       Whole, Clean, vars
  <1> QED
    BY <1>1, <1>2, <1>3, <1>4, <1>5 DEF Next

LEMMA MatchingKeys == FilesAgree => KeysMatch
  BY DEF FilesAgree, FilesOK, Kept, Matching, Clean, Needed, KeysMatch

LEMMA VerifyingChain == FilesAgree => ChainVerifies
  BY DEF FilesAgree, Kept, Signed, Needed, ChainVerifies

LEMMA StepKeepsPair ==
  FilesAgree /\ [Next]_vars => [chain_file.exists /\ ~lost' => UNCHANGED pem]_vars
  <1> SUFFICES ASSUME FilesAgree, Next, chain_file.exists, ~lost'
               PROVE  pem' = pem
    OBVIOUS
  <1>1. CASE OpenFile \/ WriteFile
    <2>1. target \notin KeyFiles
      BY <1>1 DEF FilesAgree, Kept, OpenFile, WriteFile
    <2> QED
      BY <1>1, <2>1 DEF OpenFile, WriteFile, Written
  <1>2. CASE \E f \in KeyFiles : Lose(f)
    BY <1>2 DEF Lose
  <1> QED
    BY <1>1, <1>2 DEF Next, Internal, Launches, Launch, LoadKeys, GenerateKeys, LoadChain,
       InitChain, OpenFails, FlushFails, WriteFails, AppendBlock, Quit, Crash

LEMMA AlwaysAgree == Spec => []FilesAgree
  BY AtStart, KeptByAll, PTL DEF Spec

\* Wherever the program was stopped while it wrote the two key files, it never
\* runs with halves of two pairs, unless a key file is lost and something else
\* goes wrong (load_or_create_keys, write_pem_key).
THEOREM KeysAlwaysMatch == Spec => []KeysMatch
  BY AlwaysAgree, MatchingKeys, PTL

\* As long as no key file is lost, every block the program works on, loaded or
\* appended, was signed with the key it verifies with.
THEOREM ChainAlwaysVerifies == Spec => []ChainVerifies
  BY AlwaysAgree, VerifyingChain, PTL

\* Once there is a chain file, the key files are never written again as long as
\* none is lost: a start cannot replace the pair that signed the chain.
THEOREM PairIsKept == Spec => PairKept
  BY AlwaysAgree, StepKeepsPair, PTL DEF Spec, PairKept
-----------------------------------------------------------------------------
(* The registry. *)

Registries == [students : Seq(StudentIds), full : BOOLEAN]

\* A registry that was read from pieces of which these students are listed: they
\* are in it, and in their order.
Has(state, listed) == ~state.full => IsWithin(listed, state.students)

(* What is within a registry is so when the registry, or both, grow. *)
LEMMA WithinMore ==
  ASSUME NEW s \in Seq(StudentIds), NEW t \in Seq(StudentIds), IsWithin(s, t),
         NEW x \in StudentIds
  PROVE  IsWithin(s, Append(t, x)) /\ IsWithin(Append(s, x), Append(t, x))
  <1> DEFINE m == Len(s)
             n == Len(t)
             u == Append(t, x)
             v == Append(s, x)
  <1>1. /\ m \in Nat /\ n \in Nat /\ Len(u) = n + 1 /\ Len(v) = m + 1
        /\ u[n + 1] = x /\ v[m + 1] = x
        /\ \A i \in 1..n : u[i] = t[i]
        /\ \A i \in 1..m : v[i] = s[i]
    OBVIOUS
  <1>2. PICK at \in [1..m -> 1..n] :
          /\ \A i \in 1..m : t[at[i]] = s[i]
          /\ \A i, j \in 1..m : i < j => at[i] < at[j]
    BY DEF IsWithin
  <1>3. PICK bt : bt = [i \in 1..m + 1 |-> IF i = m + 1 THEN n + 1 ELSE at[i]]
    OBVIOUS
  <1> HIDE DEF u, v, m, n
  <1>4. \A i \in 1..m : at[i] \in 1..n /\ at[i] \in Int /\ at[i] <= n
    BY <1>1, <1>2
  <1>5. IsWithin(s, u)
    <2>1. at \in [1..m -> 1..n + 1]
      BY <1>1, <1>2
    <2>2. \A i \in 1..m : u[at[i]] = s[i]
      BY <1>1, <1>2, <1>4
    <2> QED
      BY <1>1, <1>2, <2>1, <2>2 DEF IsWithin, m
  <1>6. IsWithin(v, u)
    <2>1. \A i \in 1..m + 1 : i \in 1..m \/ i = m + 1
      BY <1>1
    <2>2. \A i \in 1..m : i \in 1..m + 1 /\ i # m + 1 /\ bt[i] = at[i]
      BY <1>1, <1>3
    <2>3. m + 1 \in 1..m + 1 /\ bt[m + 1] = n + 1
      BY <1>1, <1>3
    <2>4. bt \in [1..m + 1 -> 1..n + 1]
      BY <1>1, <1>3, <1>4
    <2>5. \A i \in 1..m + 1 : u[bt[i]] = v[i]
      BY <1>1, <1>2, <1>4, <2>1, <2>2, <2>3
    <2>6. ASSUME NEW i \in 1..m + 1, NEW j \in 1..m + 1, i < j PROVE bt[i] < bt[j]
      <3>1. i \in 1..m
        BY <1>1, <2>6
      <3>2. CASE j \in 1..m
        BY <1>2, <2>2, <2>6, <3>1, <3>2
      <3>3. CASE j = m + 1
        BY <1>1, <1>4, <2>2, <2>3, <3>1, <3>3
      <3> QED
        BY <2>1, <3>2, <3>3
    <2> QED
      BY <1>1, <2>4, <2>5, <2>6 DEF IsWithin
  <1> QED
    BY <1>5, <1>6 DEF u, v

(* One turn of the loop. *)
LEMMA ReadOne ==
  ASSUME NEW state \in Registries, NEW piece \in Pieces
  PROVE  /\ Read(state, piece) \in Registries
         /\ Len(state.students) <= MAX_STUDENTS
              => Len(Read(state, piece).students) <= MAX_STUDENTS
         /\ ~Read(state, piece).full =>
              /\ ~state.full
              /\ Read(state, piece).students =
                   IF piece.id = NoRecord THEN state.students
                   ELSE Append(state.students, piece.id)
  <1>1. CASE piece.id = NoRecord \/ state.full
    BY <1>1 DEF Read, Registries
  <1>2. CASE ~(piece.id = NoRecord \/ state.full)
    <2>1. /\ piece.id \in StudentIds /\ state.students \in Seq(StudentIds)
          /\ Len(state.students) \in Nat /\ MAX_STUDENTS \in Nat
      BY <1>2, StartupAssumption DEF Pieces, Registries
    <2>2. CASE Len(state.students) >= MAX_STUDENTS
      BY <1>2, <2>1, <2>2 DEF Read, Registries
    <2>3. CASE ~(Len(state.students) >= MAX_STUDENTS)
      <3>1. /\ Append(state.students, piece.id) \in Seq(StudentIds)
            /\ Len(Append(state.students, piece.id)) = Len(state.students) + 1
        BY <2>1
      <3>2. Read(state, piece) =
              [students |-> Append(state.students, piece.id), full |-> state.full]
        BY <1>2, <2>3 DEF Read, Registries
      <3> QED
        BY <1>2, <2>1, <2>3, <3>1, <3>2 DEF Registries
    <2> QED
      BY <2>2, <2>3
  <1> QED
    BY <1>1, <1>2

(* What one more piece adds to the students that are listed. *)
ListedNext(listed, piece, pieces) ==
  IF piece.meant # NoRecord /\ piece \in pieces THEN Append(listed, piece.meant)
  ELSE listed

Reaching == {p \in Pieces : p.id = p.meant}

LEMMA ListedType ==
  ASSUME NEW listed \in Seq(StudentIds), NEW piece \in Pieces, NEW pieces
  PROVE  ListedNext(listed, piece, pieces) \in Seq(StudentIds)
  BY DEF ListedNext, Pieces

LEMMA HasOneMore ==
  ASSUME NEW state \in Registries, NEW listed \in Seq(StudentIds), NEW piece \in Pieces,
         Has(state, listed)
  PROVE  Has(Read(state, piece), ListedNext(listed, piece, Reaching))
  <1> SUFFICES ASSUME ~Read(state, piece).full
               PROVE  IsWithin(ListedNext(listed, piece, Reaching),
                               Read(state, piece).students)
    BY DEF Has
  <1>1. /\ IsWithin(listed, state.students)
        /\ Read(state, piece).students =
             IF piece.id = NoRecord THEN state.students
             ELSE Append(state.students, piece.id)
    BY ReadOne DEF Has
  <1>2. ListedNext(listed, piece, Reaching) = listed
          \/ /\ ListedNext(listed, piece, Reaching) = Append(listed, piece.id)
             /\ piece.id # NoRecord
    BY DEF ListedNext, Reaching
  <1>3. CASE piece.id = NoRecord
    BY <1>1, <1>2, <1>3
  <1>4. CASE piece.id # NoRecord
    <2>1. piece.id \in StudentIds /\ state.students \in Seq(StudentIds)
      BY <1>4 DEF Pieces, Registries
    <2>2. /\ IsWithin(listed, Append(state.students, piece.id))
          /\ IsWithin(Append(listed, piece.id), Append(state.students, piece.id))
      BY <1>1, <2>1, WithinMore
    <2> QED
      BY <1>1, <1>2, <1>4, <2>2
  <1> QED
    BY <1>3, <1>4

(* The two loops over a file are defined. *)
LEMMA ReadingExists ==
  ASSUME NEW file \in Seq(Pieces)
  PROVE  \E G : G = [i \in 0..Len(file) |->
                       IF i = 0 THEN Start ELSE Read(G[i - 1], file[i])]
  <1> DEFINE N == Len(file)
             step == [p \in (1..N) \X Registries |-> Read(p[2], file[p[1]])]
  <1>1. \A i \in 1..N : \A x \in Registries :
          step[<<i, x>>] = Read(x, file[i]) /\ Read(x, file[i]) \in Registries
    BY ReadOne
  <1>2. step \in [(1..N) \X Registries -> Registries]
    BY <1>1
  <1>3. Start \in Registries /\ N \in Nat
    BY DEF Start, Registries
  <1> HIDE DEF step, N
  <1>4. PICK G \in [0..N -> Registries] : IsRun(G, Start, step, N)
    BY <1>2, <1>3, Recursion
  <1>5. ASSUME NEW i \in 0..N
        PROVE  G[i] = IF i = 0 THEN Start ELSE Read(G[i - 1], file[i])
    <2>1. CASE i = 0
      BY <1>4, <2>1 DEF IsRun
    <2>2. CASE i # 0
      <3>1. i \in 1..N /\ i - 1 \in 0..N
        BY <1>3, <2>2
      <3>2. G[i - 1] \in Registries /\ G[i] = step[<<i, G[i - 1]>>]
        BY <1>4, <3>1 DEF IsRun
      <3> QED
        BY <1>1, <2>2, <3>1, <3>2
    <2> QED
      BY <2>1, <2>2
  <1>6. G = [i \in 0..N |-> IF i = 0 THEN Start ELSE Read(G[i - 1], file[i])]
    BY <1>4, <1>5
  <1> QED
    BY <1>6 DEF N

LEMMA ListingExists ==
  ASSUME NEW file \in Seq(Pieces), NEW pieces
  PROVE  \E G : G = [i \in 0..Len(file) |->
                       IF i = 0 THEN <<>> ELSE ListedNext(G[i - 1], file[i], pieces)]
  <1> DEFINE N == Len(file)
             X == Seq(StudentIds)
             step == [p \in (1..N) \X X |-> ListedNext(p[2], file[p[1]], pieces)]
  <1>1. \A i \in 1..N : \A x \in X :
          step[<<i, x>>] = ListedNext(x, file[i], pieces) /\ ListedNext(x, file[i], pieces) \in X
    <2> SUFFICES ASSUME NEW i \in 1..N, NEW x \in X
                 PROVE  step[<<i, x>>] = ListedNext(x, file[i], pieces) /\ ListedNext(x, file[i], pieces) \in X
      OBVIOUS
    <2>1. file[i] \in Pieces
      OBVIOUS
    <2>2. ListedNext(x, file[i], pieces) \in X
      BY <2>1, ListedType
    <2> QED
      BY <2>2
  <1>2. step \in [(1..N) \X X -> X]
    BY <1>1
  <1>3. <<>> \in X /\ N \in Nat
    OBVIOUS
  <1> HIDE DEF step, N, X
  <1>4. PICK G \in [0..N -> X] : IsRun(G, <<>>, step, N)
    BY <1>2, <1>3, Recursion
  <1>5. ASSUME NEW i \in 0..N
        PROVE  G[i] = IF i = 0 THEN <<>> ELSE ListedNext(G[i - 1], file[i], pieces)
    <2>1. CASE i = 0
      BY <1>4, <2>1 DEF IsRun
    <2>2. CASE i # 0
      <3>1. i \in 1..N /\ i - 1 \in 0..N
        BY <1>3, <2>2
      <3>2. G[i - 1] \in X /\ G[i] = step[<<i, G[i - 1]>>]
        BY <1>4, <3>1 DEF IsRun
      <3> QED
        BY <1>1, <2>2, <3>1, <3>2
    <2> QED
      BY <2>1, <2>2
  <1>6. G = [i \in 0..N |-> IF i = 0 THEN <<>> ELSE ListedNext(G[i - 1], file[i], pieces)]
    BY <1>4, <1>5
  <1> QED
    BY <1>6 DEF N

(* What load_student_registry makes of a file. *)
LEMMA RegistryIsRead ==
  ASSUME NEW file \in Seq(Pieces)
  PROVE  /\ LoadRegistry(file).students \in Seq(StudentIds)
         /\ Len(LoadRegistry(file).students) <= MAX_STUDENTS
         /\ LoadRegistry(file).ok =>
              /\ LoadRegistry(file).students # <<>>
              /\ IsWithin(WithinReach(file), LoadRegistry(file).students)
  <1> DEFINE N == Len(file)
             G == CHOOSE g : g = [i \in 0..N |->
                                    IF i = 0 THEN Start ELSE Read(g[i - 1], file[i])]
             H == CHOOSE h : h = [i \in 0..N |->
                                    IF i = 0 THEN <<>>
                                    ELSE ListedNext(h[i - 1], file[i], Reaching)]
             Fine(n) == /\ G[n] \in Registries /\ Len(G[n].students) <= MAX_STUDENTS
                        /\ H[n] \in Seq(StudentIds)
                        /\ Has(G[n], H[n])
             good == {n \in Nat : n <= N => Fine(n)}
  <1>1. /\ LoadRegistry(file).ok <=> ~G[N].full /\ G[N].students # <<>>
        /\ LoadRegistry(file).students = G[N].students
        /\ WithinReach(file) = H[N]
    BY DEF LoadRegistry, WithinReach, Listed, ListedNext, Reaching
  <1>2. G = [i \in 0..N |-> IF i = 0 THEN Start ELSE Read(G[i - 1], file[i])]
    BY ReadingExists
  <1>3. H = [i \in 0..N |-> IF i = 0 THEN <<>> ELSE ListedNext(H[i - 1], file[i], Reaching)]
    BY ListingExists
  <1>4. N \in Nat /\ \A i \in 1..N : file[i] \in Pieces
    OBVIOUS
  <1> HIDE DEF G, H, N
  <1>5. G[0] = Start /\ H[0] = <<>>
    BY <1>2, <1>3, <1>4
  <1>6. \A n \in Nat : n + 1 <= N =>
          G[n + 1] = Read(G[n], file[n + 1]) /\ H[n + 1] = ListedNext(H[n], file[n + 1], Reaching)
    BY <1>2, <1>3, <1>4
  <1>7. 0 \in good
    <2>1. Start \in Registries /\ Len(Start.students) <= MAX_STUDENTS
      BY StartupAssumption DEF Start, Registries
    <2>2. Has(Start, <<>>)
      <3>1. Len(<<>>) = 0 /\ 1..0 = {}
        OBVIOUS
      <3>2. [i \in 1..0 |-> i] \in [1..0 -> 1..0]
        OBVIOUS
      <3>3. IsWithin(<<>>, <<>>)
        BY <3>1, <3>2 DEF IsWithin
      <3> QED
        BY <3>3 DEF Has, Start
    <2>3. Fine(0)
      BY <1>5, <2>1, <2>2
    <2> QED
      BY <2>3
  <1>8. ASSUME NEW n \in Nat, n \in good PROVE n + 1 \in good
    <2> SUFFICES ASSUME n + 1 <= N PROVE Fine(n + 1)
      OBVIOUS
    <2>1. Fine(n) /\ n + 1 \in 1..N
      BY <1>4, <1>8
    <2>2. file[n + 1] \in Pieces
      BY <1>4, <2>1
    <2>3. /\ Read(G[n], file[n + 1]) \in Registries
          /\ Len(Read(G[n], file[n + 1]).students) <= MAX_STUDENTS
      BY <2>1, <2>2, ReadOne
    <2>4. ListedNext(H[n], file[n + 1], Reaching) \in Seq(StudentIds)
      BY <2>1, <2>2, ListedType
    <2>5. Has(Read(G[n], file[n + 1]), ListedNext(H[n], file[n + 1], Reaching))
      BY <1>4, <2>1, <2>2, HasOneMore
    <2> QED
      BY <1>6, <2>3, <2>4, <2>5
  <1>9. N \in good
    <2> HIDE DEF good
    <2> QED
      BY <1>4, <1>7, <1>8, Induction
  <1>10. Fine(N)
    BY <1>4, <1>9
  <1>11. LoadRegistry(file).students = G[N].students
    BY <1>1
  <1>12. LoadRegistry(file).ok => ~G[N].full /\ G[N].students # <<>>
    BY <1>1
  <1>13. ~G[N].full => IsWithin(H[N], G[N].students)
    BY <1>10 DEF Has
  <1>14. G[N].students \in Seq(StudentIds) /\ Len(G[N].students) <= MAX_STUDENTS
    BY <1>10 DEF Registries
  <1> QED
    BY <1>1, <1>11, <1>12, <1>13, <1>14

LEMMA RegistryAtStart == Init => RegistryOK /\ RegistryComplete
  BY StartupAssumption DEF Init, RegistryOK, RegistryComplete

LEMMA RegistryByLaunch ==
  ASSUME NEW file \in Files, Launch(file)
  PROVE  RegistryOK' /\ RegistryComplete'
  <1>1. file \in Seq(Pieces)
    BY StartupAssumption
  <1>2. /\ LoadRegistry(file).ok
        /\ students' = LoadRegistry(file).students /\ source' = file /\ phase' = "keys"
    BY DEF Launch
  <1>3. /\ students' \in Seq(StudentIds) /\ Len(students') <= MAX_STUDENTS
        /\ students' # <<>>
        /\ IsWithin(WithinReach(file), students')
    BY <1>1, <1>2, RegistryIsRead
  <1> QED
    BY <1>2, <1>3 DEF RegistryOK, RegistryComplete

(* Nobody else touches the registry, except that it ends with the process. *)
LEMMA RegistryByOthers ==
  ASSUME RegistryOK, RegistryComplete,
         \/ Halt
         \/ UNCHANGED <<students, source>> /\ (phase' = "down" <=> phase = "down")
  PROVE  RegistryOK' /\ RegistryComplete'
  <1>1. CASE Halt
    BY <1>1, StartupAssumption DEF Halt, RegistryOK, RegistryComplete
  <1>2. CASE UNCHANGED <<students, source>> /\ (phase' = "down" <=> phase = "down")
    BY <1>2 DEF RegistryOK, RegistryComplete
  <1> QED
    BY <1>1, <1>2

LEMMA RegistryByAll ==
  RegistryOK /\ RegistryComplete /\ [Next]_vars => (RegistryOK /\ RegistryComplete)'
  <1> SUFFICES ASSUME RegistryOK, RegistryComplete, [Next]_vars
               PROVE  RegistryOK' /\ RegistryComplete'
    OBVIOUS
  <1> DEFINE Others == \/ Halt
                       \/ /\ UNCHANGED <<students, source>>
                          /\ phase' = "down" <=> phase = "down"
  <1>1. CASE Internal
    <2>1. LoadKeys \/ GenerateKeys \/ LoadChain \/ InitChain => Others
      BY DEF LoadKeys, GenerateKeys, LoadChain, InitChain
    <2>2. OpenFile \/ WriteFile \/ FlushFails => Others
      BY DEF OpenFile, WriteFile, FlushFails, AfterWrite
    <2>3. OpenFails \/ WriteFails => Others
      BY DEF OpenFails, WriteFails, WriteFailed
    <2> QED
      BY <1>1, <2>1, <2>2, <2>3, RegistryByOthers DEF Internal
  <1>2. CASE Launches
    BY <1>2, RegistryByLaunch DEF Launches
  <1>3. CASE AppendBlock \/ Quit \/ Crash \/ \E f \in KeyFiles : Lose(f)
    <2>1. Others
      BY <1>3 DEF AppendBlock, Quit, Crash, Lose, process
    <2> QED
      BY <2>1, RegistryByOthers
  <1>4. CASE UNCHANGED vars
    BY <1>4, RegistryByOthers DEF vars
  <1> QED
    BY <1>1, <1>2, <1>3, <1>4 DEF Next

\* Registry, process and files are well-formed in every phase: the registry fits
\* its table and is there exactly as long as the process, keys are in memory from
\* the moment they are needed, and there is a chain when the program runs
\* (load_student_registry, load_or_create_keys, blockchain_load).
THEOREM StartupTypeCorrect == Spec => []TypeOK
  <1>1. RegistryOK /\ FilesAgree => TypeOK
    BY DEF TypeOK, FilesAgree
  <1> QED
    BY <1>1, RegistryAtStart, RegistryByAll, AlwaysAgree, PTL DEF Spec

\* Whatever the student file holds, and wherever fgets breaks its lines, the
\* program runs with everybody whose fields begin within the buffer, in the order
\* of their lines, or refuses the file (load_student_registry).
THEOREM EveryStudentIsRead == Spec => []RegistryComplete
  BY RegistryAtStart, RegistryByAll, PTL DEF Spec
=============================================================================
