------------------------------- MODULE Startup -------------------------------
(***************************************************************************)
(* How the program comes up (main.c): it reads the registry (students.c),  *)
(* loads or creates the key pair (crypto.c), and loads or begins the chain *)
(* (blockchain.c), which it extends with blocks signed by its key.  Three  *)
(* files outlive it; the process may stop, or fail, before and after every *)
(* one of them is truncated and written.                                   *)
(*                                                                         *)
(* Key pairs are numbered in the order they are generated, and a block is  *)
(* the number of the pair that signed it.                                  *)
(***************************************************************************)
EXTENDS StudentFile, Integers

CONSTANTS
  Files,       \* contents students.txt may have when the program is started
  MAX_BLOCKS,
  MaxFaults    \* bound of the model: how often something goes wrong

ASSUME StartupAssumption ==
  /\ MAX_STUDENTS \in Nat \ {0} /\ MAX_BLOCKS \in Nat \ {0} /\ MaxFaults \in Nat
  /\ NoRecord \notin StudentIds
  /\ \A file \in Files :
       file \in Seq(Pieces) /\ (file # <<>> => Head(file).id \in {Head(file).meant, NoRecord})

VARIABLES
  phase,       \* where the process is
  target,      \* the file it opens or writes, or "none"
  students,    \* the registry
  keys,        \* private_key and public_key
  chain,       \* the blocks in memory
  pem,         \* the two key files
  chain_file   \* attendance_chain.dat

VARIABLES      \* bookkeeping of the model
  source,      \* the students.txt that was read
  before,      \* the chain without the block being appended
  pairs,       \* how many pairs were generated
  lost,        \* a key file that had been written was gone or unreadable
  faults       \* how often something else went wrong

process == <<phase, target, students, keys, chain, source, before>>
vars == <<phase, target, students, keys, chain, pem, chain_file, source, before,
          pairs, lost, faults>>

Phases == {"down", "keys", "opening", "writing", "chain", "running"}

KeyFiles == {"private", "public"}

\* The content of a key file: no file, or one that PEM_read refuses, or the
\* number of the pair it is one half of.
Missing == -1
Torn == 0

NoKeys == [signing |-> Missing, verifying |-> Missing]

NoChain == [exists |-> FALSE, blocks |-> <<>>]
TornChain == [exists |-> TRUE, blocks |-> <<>>]

Fault == faults < MaxFaults /\ faults' = faults + 1

Init ==
  /\ phase = "down" /\ target = "none" /\ students = <<>> /\ source = <<>>
  /\ keys = NoKeys /\ chain = <<>> /\ before = <<>>
  /\ pem = [f \in KeyFiles |-> Missing] /\ chain_file = NoChain
  /\ pairs = 0 /\ lost = FALSE /\ faults = 0

\* The process ends; files stay as they are.
Halt ==
  /\ phase' = "down" /\ target' = "none" /\ students' = <<>> /\ source' = <<>>
  /\ keys' = NoKeys /\ chain' = <<>> /\ before' = <<>>

\* The start of the program up to the registry; without one it gives up.
Launch(file) ==
  /\ phase = "down" /\ LoadRegistry(file).ok
  /\ students' = LoadRegistry(file).students /\ source' = file
  /\ phase' = "keys"
  /\ UNCHANGED <<target, keys, chain, before, pem, chain_file, pairs, lost, faults>>

-----------------------------------------------------------------------------
(* The key pair. *)

\* Variant with a bug: one key file is taken for two.
AnyKeyFile == \E f \in KeyFiles : pem[f] # Missing

\* Variant with a bug: a torn file is as good as none.
BothKeysWhole == \A f \in KeyFiles : pem[f] \notin {Missing, Torn}

\* Whether load_or_create_keys finds both files.
BothKeyFiles == \A f \in KeyFiles : pem[f] # Missing

Readable == \A f \in KeyFiles : pem[f] \notin {Missing, Torn}

\* Both files are there: they are loaded, or the program gives up.  Nobody asks
\* whether the two belong together.
LoadKeys ==
  /\ phase = "keys" /\ BothKeyFiles
  /\ \/ /\ Readable
        /\ keys' = [signing |-> pem["private"], verifying |-> pem["public"]]
        /\ phase' = "chain"
        /\ UNCHANGED <<target, students, chain, source, before>>
     \/ ~Readable /\ Halt
  /\ UNCHANGED <<pem, chain_file, pairs, lost, faults>>

\* Variant with a bug: only the file that is missing is written.
FirstMissing == IF pem["private"] = Missing THEN "private" ELSE "public"

FirstKeyFile == "private"

\* One of them is not there, or cannot be opened: a new pair replaces both.
GenerateKeys ==
  /\ phase = "keys"
  /\ \/ ~BothKeyFiles /\ UNCHANGED <<lost, faults>>
     \/ BothKeyFiles /\ Fault /\ lost' = TRUE
  /\ pairs' = pairs + 1
  /\ keys' = [signing |-> pairs', verifying |-> pairs']
  /\ phase' = "opening" /\ target' = FirstKeyFile
  /\ UNCHANGED <<students, chain, pem, chain_file, source, before>>

-----------------------------------------------------------------------------
(* The chain. *)

LoadChain ==
  /\ phase = "chain" /\ chain_file.blocks # <<>>
  /\ chain' = chain_file.blocks /\ phase' = "running"
  /\ UNCHANGED <<target, students, keys, pem, chain_file, source, before, pairs,
                 lost, faults>>

\* blockchain_init and the save of the genesis block, if there is no chain that
\* blockchain_load accepts, or its file cannot be opened.
InitChain ==
  /\ phase = "chain"
  /\ \/ chain_file.blocks = <<>> /\ UNCHANGED faults
     \/ chain_file.blocks # <<>> /\ Fault
  /\ chain' = <<keys.signing>> /\ before' = <<>>
  /\ phase' = "opening" /\ target' = "chain"
  /\ UNCHANGED <<students, keys, pem, chain_file, source, pairs, lost>>

\* Mining, as far as the files go: a signed block is appended and saved.
AppendBlock ==
  /\ phase = "running" /\ Len(chain) < MAX_BLOCKS
  /\ before' = chain /\ chain' = Append(chain, keys.signing)
  /\ phase' = "opening" /\ target' = "chain"
  /\ UNCHANGED <<students, keys, pem, chain_file, source, pairs, lost, faults>>

-----------------------------------------------------------------------------
(* Writing files. *)

\* A file that could not be opened or written: a block that was appended is
\* taken back, anything else ends the start.
WriteFailed ==
  /\ Fault
  /\ \/ /\ before # <<>>
        /\ chain' = before /\ before' = <<>>
        /\ phase' = "running" /\ target' = "none"
        /\ UNCHANGED <<students, keys, source>>
     \/ before = <<>> /\ Halt

\* fopen(.., "wb") empties the file.
OpenFile ==
  /\ phase = "opening"
  /\ phase' = "writing"
  /\ pem' = IF target \in KeyFiles THEN [pem EXCEPT ![target] = Torn] ELSE pem
  /\ chain_file' = IF target = "chain" THEN TornChain ELSE chain_file
  /\ UNCHANGED <<target, students, keys, chain, source, before, pairs, lost, faults>>

OpenFails ==
  /\ phase = "opening" /\ WriteFailed
  /\ UNCHANGED <<pem, chain_file, pairs, lost>>

\* What the program goes on to do: the private key, the public key, the chain.
AfterWrite ==
  /\ before' = <<>>
  /\ \/ target = "private" /\ phase' = "opening" /\ target' = "public"
     \/ target = "public" /\ phase' = "chain" /\ target' = "none"
     \/ target = "chain" /\ phase' = "running" /\ target' = "none"
  /\ UNCHANGED <<students, keys, chain, source>>

Written == IF target \in KeyFiles THEN [pem EXCEPT ![target] = keys.signing] ELSE pem

WriteFile ==
  /\ phase = "writing" /\ AfterWrite
  /\ pem' = Written
  /\ chain_file' = IF target = "chain" THEN [exists |-> TRUE, blocks |-> chain]
                                       ELSE chain_file
  /\ UNCHANGED <<pairs, lost, faults>>

\* fclose cannot write what was buffered, which nobody notices.
FlushFails ==
  /\ phase = "writing" /\ AfterWrite /\ Fault
  /\ UNCHANGED <<pem, chain_file, pairs, lost>>

WriteFails ==
  /\ phase = "writing" /\ WriteFailed
  /\ UNCHANGED <<pem, chain_file, pairs, lost>>

-----------------------------------------------------------------------------
(* The end, and what may happen in between. *)

Quit ==
  /\ phase = "running" /\ Halt
  /\ UNCHANGED <<pem, chain_file, pairs, lost, faults>>

Crash ==
  /\ phase # "down" /\ Fault /\ Halt
  /\ UNCHANGED <<pem, chain_file, pairs, lost>>

\* Somebody removes a key file while the program is not running.
Lose(f) ==
  /\ phase = "down" /\ pem[f] # Missing /\ faults < MaxFaults
  /\ pem' = [pem EXCEPT ![f] = Missing] /\ lost' = TRUE
  /\ faults' = faults + 1
  /\ UNCHANGED <<process, chain_file, pairs>>

Internal ==
  \/ LoadKeys \/ GenerateKeys \/ LoadChain \/ InitChain
  \/ OpenFile \/ OpenFails \/ WriteFile \/ FlushFails \/ WriteFails

Launches == \E file \in Files : Launch(file)

Next ==
  \/ Internal \/ Launches \/ AppendBlock \/ Quit \/ Crash
  \/ \E f \in KeyFiles : Lose(f)

Spec == Init /\ [][Next]_vars

\* The process keeps running, and whoever wants the program up starts it again.
FairSpec == Spec /\ WF_vars(Internal) /\ WF_vars(Launches)

-----------------------------------------------------------------------------
RegistryOK ==
  /\ students \in Seq(StudentIds) /\ Len(students) <= MAX_STUDENTS
  /\ phase = "down" <=> students = <<>>

ProcessOK ==
  /\ phase \in Phases /\ target \in KeyFiles \cup {"chain", "none"}
  /\ target = "none" <=> phase \notin {"opening", "writing"}
  /\ keys \in [signing : Missing..pairs, verifying : Missing..pairs]
  /\ phase \in {"down", "keys"} <=> keys = NoKeys
  /\ chain \in Seq(1..pairs) /\ Len(chain) <= MAX_BLOCKS
  /\ (phase = "running" \/ target = "chain") <=> chain # <<>>
  /\ before \in Seq(1..pairs) /\ Len(before) <= MAX_BLOCKS
  /\ before # <<>> => target = "chain"

FilesOK ==
  /\ pem \in [KeyFiles -> Missing..pairs]
  /\ chain_file \in [exists : BOOLEAN, blocks : Seq(1..pairs)]
  /\ Len(chain_file.blocks) <= MAX_BLOCKS
  /\ chain_file.blocks # <<>> => chain_file.exists
  /\ pairs \in Nat /\ lost \in BOOLEAN /\ faults \in 0..MaxFaults

\* Types, and what each phase implies: which file is being written, that keys
\* are in memory from the moment they are needed, that there is a chain when
\* the program runs and a registry that fits its table.
TypeOK == RegistryOK /\ ProcessOK /\ FilesOK

\* Nobody is missing from the registry whose fields begin within the buffer of
\* their line, and all of them are in the order of the file, whatever comments
\* and long lines stand between: rather than leave somebody out, the program
\* refuses to start.
RegistryComplete == phase # "down" => IsWithin(WithinReach(source), students)

\* Nobody is in the registry who has no line of their own: "lines starting with
\* # are ignored".
CommentsAreIgnored == phase # "down" => Range(students) \subseteq Range(Meant(source))

\* The program never runs with a private key and the public key of another
\* pair, wherever it was stopped while it wrote them.  It takes a key file that
\* disappears, and a second mishap, to get there.
KeysMatch ==
  phase = "running" /\ (lost => faults = 1) => keys.signing = keys.verifying

\* The blocks the program works on verify with its public key, whatever else
\* failed, unless somebody lost a key file.
ChainVerifies ==
  phase = "running" /\ ~lost =>
    \A i \in 1..Len(chain) : chain[i] = keys.verifying

\* Once there is a chain, no key file is ever written again, unless one was lost.
PairKept == [][chain_file.exists /\ ~lost' => UNCHANGED pem]_vars

\* Both key files are there but one was never finished.
TornPair == Missing \notin Range(pem) /\ Torn \in Range(pem)

\* However a start or a save was interrupted, the program can be brought up
\* again, but for a key file that was never finished: that stops it for good.
StartsAgain == phase = "down" ~> phase = "running" \/ TornPair
=============================================================================
