----------------------------- MODULE ChainProofs -----------------------------
(***************************************************************************)
(* Mining: its types and what each phase implies; the chain, which is      *)
(* always linked; where its blocks come from; and, from these inductive    *)
(* invariants, what a run of validate establishes: it accepts every chain  *)
(* of blocks as they were mined, and no chain with a block that was        *)
(* tampered with.                                                          *)
(***************************************************************************)
EXTENDS Mining, SequenceTheorems, TLAPS

(* Sequences of blocks. *)

LEMMA OwnRange ==
  ASSUME NEW S, NEW s \in Seq(S)
  PROVE  s \in Seq(Range(s))
  <1>1. \A i \in 1..Len(s) : s[i] \in Range(s)
    BY DEF Range
  <1>2. s \in [1..Len(s) -> Range(s)] /\ Len(s) \in Nat
    BY <1>1
  <1> QED
    BY <1>2

LEMMA PrefixFacts ==
  ASSUME NEW S, NEW s, NEW m \in Nat, \A i \in 1..m : s[i] \in S
  PROVE  /\ SubSeq(s, 1, m) \in Seq(S) /\ Len(SubSeq(s, 1, m)) = m
         /\ \A i \in 1..m : SubSeq(s, 1, m)[i] = s[i]
  <1>1. /\ SubSeq(s, 1, m) \in Seq(S)
        /\ Len(SubSeq(s, 1, m)) = IF 1 <= m THEN m - 1 + 1 ELSE 0
        /\ \A i \in 1..m - 1 + 1 : SubSeq(s, 1, m)[i] = s[1 + i - 1]
    BY SubSeqProperties
  <1>2. Len(SubSeq(s, 1, m)) = m
    <2> DEFINE l == Len(SubSeq(s, 1, m))
    <2>1. l = IF 1 <= m THEN m - 1 + 1 ELSE 0
      BY <1>1
    <2> HIDE DEF l
    <2> QED
      BY <2>1
  <1>3. ASSUME NEW i \in 1..m PROVE SubSeq(s, 1, m)[i] = s[i]
    <2>1. i \in 1..m - 1 + 1 /\ 1 + i - 1 = i
      OBVIOUS
    <2> QED
      BY <2>1, <1>1
  <1> QED
    BY <1>1, <1>2, <1>3

LEMMA TamperedIsBlock ==
  ASSUME NEW b, IsBlock(b)
  PROVE  /\ IsBlock(Tampered(b)) /\ Tampered(b).hash = b.hash
         /\ Tampered(b).student_id = b.student_id
  BY DEF IsBlock, Tampered, ValidStatus

LEMMA EmptyBlockSeq == IsBlockSeq(<<>>)
  BY DEF IsBlockSeq, Range

LEMMA AppendBlockSeq ==
  ASSUME NEW s, IsBlockSeq(s), NEW b, IsBlock(b)
  PROVE  /\ IsBlockSeq(Append(s, b))
         /\ Len(Append(s, b)) = Len(s) + 1
         /\ \A i \in 1..Len(s) : Append(s, b)[i] = s[i]
         /\ Append(s, b)[Len(s) + 1] = b
  <1> DEFINE t == Append(s, b)
             S == Range(s) \cup {b}
  <1>1. s \in Seq(S) /\ b \in S
    BY DEF IsBlockSeq, Range
  <1>2. /\ t \in Seq(S) /\ Len(t) = Len(s) + 1
        /\ \A i \in 1..Len(s) : t[i] = s[i]
        /\ t[Len(s) + 1] = b
    BY <1>1
  <1>3. \A i \in 1..Len(t) : IsBlock(t[i])
    BY <1>2, <1>1 DEF IsBlockSeq
  <1>4. t \in Seq(Range(t))
    BY <1>2, OwnRange
  <1> QED
    BY <1>2, <1>3, <1>4 DEF IsBlockSeq

LEMMA AppendStudents ==
  ASSUME NEW s, IsBlockSeq(s), NEW k \in 1..2,
         \A i \in k..Len(s) : s[i].student_id \in Students,
         NEW b, IsBlock(b), b.student_id \in Students
  PROVE  \A i \in k..Len(Append(s, b)) : Append(s, b)[i].student_id \in Students
  <1> DEFINE t == Append(s, b)
  <1>1. /\ Len(t) = Len(s) + 1 /\ Len(s) \in Nat
        /\ \A i \in 1..Len(s) : t[i] = s[i]
        /\ t[Len(s) + 1] = b
    BY AppendBlockSeq DEF IsBlockSeq
  <1> HIDE DEF t
  <1> SUFFICES ASSUME NEW i \in k..Len(t) PROVE t[i].student_id \in Students
    BY DEF t
  <1>2. CASE i = Len(s) + 1
    BY <1>1, <1>2
  <1>3. CASE i # Len(s) + 1
    <2>1. i \in 1..Len(s) /\ i \in k..Len(s)
      BY <1>1, <1>3
    <2> QED
      BY <1>1, <2>1
  <1> QED
    BY <1>2, <1>3

LEMMA TailBlockSeq ==
  ASSUME NEW s, IsBlockSeq(s), s # <<>>
  PROVE  /\ IsBlockSeq(Tail(s)) /\ Len(s) \in Nat \ {0}
         /\ Len(Tail(s)) = Len(s) - 1
         /\ \A i \in 1..Len(s) - 1 : Tail(s)[i] = s[i + 1]
         /\ Head(s) = s[1] /\ IsBlock(s[1])
  <1>1. /\ Tail(s) \in Seq(Range(s)) /\ Len(s) \in Nat \ {0}
        /\ Len(Tail(s)) = Len(s) - 1 /\ Head(s) = s[1]
        /\ \A i \in 1..Len(s) - 1 : Tail(s)[i] = s[i + 1]
    BY DEF IsBlockSeq
  <1>2. Tail(s) \in Seq(Range(Tail(s)))
    BY <1>1, OwnRange
  <1>3. \A i \in 1..Len(Tail(s)) : IsBlock(Tail(s)[i])
    BY <1>1 DEF IsBlockSeq
  <1> QED
    BY <1>1, <1>2, <1>3 DEF IsBlockSeq

LEMMA FrontBlockSeq ==
  ASSUME NEW s, IsBlockSeq(s), Len(s) > 0
  PROVE  LET t == SubSeq(s, 1, Len(s) - 1)
         IN  /\ IsBlockSeq(t) /\ Len(t) = Len(s) - 1
             /\ \A i \in 1..Len(t) : t[i] = s[i]
  <1> DEFINE t == SubSeq(s, 1, Len(s) - 1)
  <1>1. /\ t \in Seq(Range(s)) /\ Len(t) = Len(s) - 1
        /\ \A i \in 1..Len(t) : t[i] = s[i]
    <2>1. s \in Seq(Range(s)) /\ Len(s) - 1 \in Nat
      BY DEF IsBlockSeq
    <2>2. \A i \in 1..Len(s) - 1 : s[i] \in Range(s)
      BY <2>1
    <2> DEFINE m == Len(s) - 1
    <2> HIDE DEF m
    <2>3. m \in Nat /\ \A i \in 1..m : s[i] \in Range(s)
      BY <2>1, <2>2 DEF m
    <2>4. /\ SubSeq(s, 1, m) \in Seq(Range(s)) /\ Len(SubSeq(s, 1, m)) = m
          /\ \A i \in 1..m : SubSeq(s, 1, m)[i] = s[i]
      BY <2>3, PrefixFacts
    <2> QED
      BY <2>4 DEF m
  <1>2. t \in Seq(Range(t))
    BY <1>1, OwnRange
  <1>3. \A i \in 1..Len(t) : IsBlock(t[i])
    BY <1>1 DEF IsBlockSeq
  <1> QED
    BY <1>1, <1>2, <1>3 DEF IsBlockSeq

LEMMA TamperBlockSeq ==
  ASSUME NEW s, IsBlockSeq(s), NEW i \in 1..Len(s)
  PROVE  LET t == [s EXCEPT ![i] = Tampered(@)]
         IN  /\ IsBlockSeq(t) /\ Len(t) = Len(s)
             /\ \A j \in 1..Len(s) : t[j] = IF j = i THEN Tampered(s[j]) ELSE s[j]
  <1> DEFINE b == Tampered(s[i])
             t == [s EXCEPT ![i] = b]
  <1>1. IsBlock(b)
    BY TamperedIsBlock DEF IsBlockSeq
  <1>2. /\ t \in Seq(Range(s) \cup {b}) /\ Len(t) = Len(s)
        /\ \A j \in 1..Len(s) : t[j] = IF j = i THEN b ELSE s[j]
    <2>1. s \in Seq(Range(s) \cup {b})
      BY DEF IsBlockSeq, Range
    <2> QED
      BY <2>1
  <1>3. t \in Seq(Range(t))
    BY <1>2, OwnRange
  <1>4. \A j \in 1..Len(t) : IsBlock(t[j])
    BY <1>1, <1>2 DEF IsBlockSeq
  <1> QED
    BY <1>2, <1>3, <1>4 DEF IsBlockSeq
(* Blocks. *)

LEMMA NewBlockType ==
  ASSUME NEW index \in Nat, NEW timestamp \in Nat, NEW status \in ValidStatus,
         NEW student \in Students \cup {GENESIS}, NEW reward \in Nat, NEW prev
  PROVE  IsBlock(NewBlock(index, timestamp, student, status, reward, prev))
  BY DEF IsBlock, NewBlock

LEMMA SignBlockType ==
  ASSUME NEW b, IsBlock(b), NEW clipped \in BOOLEAN
  PROVE  LET s == SignBlock(b, clipped)
         IN  /\ IsBlock(s)
             /\ s.student_id = b.student_id /\ s.timestamp = b.timestamp
  BY DEF IsBlock, SignBlock

LEMMA GenesisType ==
  ASSUME NEW timestamp \in Nat, NEW clipped \in BOOLEAN
  PROVE  IsBlock(GenesisBlock(timestamp, clipped))
  <1> DEFINE new == NewBlock(0, timestamp, GENESIS, "PRESENT", 0, GENESIS_PREV_HASH)
             signed == SignBlock(new, clipped)
  <1>1. IsBlock(new)
    BY NewBlockType DEF ValidStatus
  <1>2. IsBlock(signed)
    BY <1>1, SignBlockType
  <1> HIDE DEF signed
  <1>3. IsBlock([signed EXCEPT !.hash = ComputeBlockHash(signed)])
    BY <1>2 DEF IsBlock
  <1> QED
    BY <1>3 DEF GenesisBlock, signed

LEMMA RelinkType ==
  ASSUME NEW b, IsBlock(b), NEW index \in Nat, NEW prev
  PROVE  LET r == [b EXCEPT !.index = index, !.previous_hash = prev, !.nonce = 0]
         IN  /\ IsBlock(r)
             /\ r.student_id = b.student_id /\ r.timestamp = b.timestamp
  <1> DEFINE r1 == [b EXCEPT !.index = index]
             r2 == [r1 EXCEPT !.previous_hash = prev]
             r3 == [r2 EXCEPT !.nonce = 0]
  <1>1. /\ IsBlock(r1) /\ r1.student_id = b.student_id
        /\ r1.timestamp = b.timestamp
    BY DEF IsBlock
  <1> HIDE DEF r1
  <1>2. /\ IsBlock(r2) /\ r2.student_id = b.student_id
        /\ r2.timestamp = b.timestamp
    BY <1>1 DEF IsBlock
  <1> HIDE DEF r2
  <1>3. /\ IsBlock(r3) /\ r3.student_id = b.student_id
        /\ r3.timestamp = b.timestamp
    BY <1>2 DEF IsBlock
  <1> QED
    BY <1>3, Zenon DEF r1, r2

LEMMA MinedBlockType ==
  ASSUME NEW s, IsBlockSeq(s), s # <<>>, NEW b, IsBlock(b),
         NEW clipped \in BOOLEAN, NEW zeros \in Nat
  PROVE  LET m == Mined(PrepareForMining(b, s, clipped), zeros)
         IN  /\ IsBlock(m)
             /\ m.student_id = b.student_id /\ m.timestamp = b.timestamp
  <1> DEFINE linked == [b EXCEPT !.index = Tip(s).index + 1,
                                 !.previous_hash = Tip(s).hash, !.nonce = 0]
             signed == SignBlock(linked, clipped)
             solved == [signed EXCEPT !.nonce = zeros]
  <1>1. Tip(s).index + 1 \in Nat
    BY DEF IsBlockSeq, IsBlock, Tip
  <1>2. /\ IsBlock(linked)
        /\ linked.student_id = b.student_id /\ linked.timestamp = b.timestamp
    BY <1>1, RelinkType, ZenonT(60)
  <1> HIDE DEF linked
  <1>3. /\ IsBlock(signed)
        /\ signed.student_id = b.student_id /\ signed.timestamp = b.timestamp
    BY <1>2, SignBlockType
  <1> HIDE DEF signed
  <1>4. /\ IsBlock(solved)
        /\ solved.student_id = b.student_id /\ solved.timestamp = b.timestamp
    BY <1>3 DEF IsBlock
  <1> HIDE DEF solved
  <1>5. LET m == [solved EXCEPT !.hash = ComputeBlockHash(solved)]
        IN  /\ IsBlock(m)
            /\ m.student_id = b.student_id /\ m.timestamp = b.timestamp
    BY <1>4 DEF IsBlock
  <1>6. PrepareForMining(b, s, clipped) = signed
    BY DEF PrepareForMining, signed, linked
  <1> QED
    BY <1>5, <1>6 DEF Mined, solved
(* The ledger. *)

LEMMA LedgerInitType ==
  ASSUME NEW m \in LedgerModels PROVE LedgerInit(m) \in Ledgers
  BY DEF LedgerInit, Ledgers, Owners

LEMMA CreditType ==
  ASSUME NEW l \in Ledgers, NEW owner \in Owners, NEW amount \in Int
  PROVE  Credited(l, owner, amount) \in Ledgers /\ TryCredit(l, owner, amount) \in Ledgers
  <1>1. Credited(l, owner, amount) \in Ledgers
    <2>1. [l.credit EXCEPT ![owner] = @ + amount] \in [Owners -> Int]
      BY DEF Ledgers
    <2> QED
      BY <2>1 DEF Credited, Ledgers
  <1> QED
    BY <1>1 DEF TryCredit

-----------------------------------------------------------------------------
(* The type invariant, one lemma per action. *)

LEMMA TypeInit == Init => TypeOK
  <1> SUFFICES ASSUME Init PROVE TypeOK
    OBVIOUS
  <1> USE DEF Init
  <1>1. PhaseOK
    BY DEF PhaseOK, Phases, MiningModes, TornFile
  <1>2. IsChain(chain) /\ PoolOK
    BY EmptyBlockSeq, MiningAssumption DEF IsChain, PoolOK
  <1>3. FileOK
    BY EmptyBlockSeq, MiningAssumption DEF FileOK, IsChain, TornFile
  <1>4. PoolJobOK
    BY MiningAssumption DEF PoolJobOK
  <1>5. CountersOK
    BY DEF CountersOK, MIN_DIFFICULTY
  <1>6. ledger \in Ledgers
    BY LedgerInitType DEF LedgerModels
  <1> QED
    BY <1>1, <1>2, <1>3, <1>4, <1>5, <1>6 DEF TypeOK

LEMMA TornFileOK == file' = TornFile => FileOK'
  <1> SUFFICES ASSUME file' = TornFile PROVE FileOK'
    OBVIOUS
  <1>1. IsChain(<<>>)
    BY EmptyBlockSeq, MiningAssumption DEF IsChain
  <1> QED
    BY <1>1 DEF FileOK, TornFile

LEMMA TypeBootFromFile == TypeOK /\ BootFromFile => TypeOK'
  <1> SUFFICES ASSUME TypeOK, BootFromFile PROVE TypeOK'
    OBVIOUS
  <1> USE DEF BootFromFile, Start, TypeOK
  <1>1. PhaseOK'
    BY DEF PhaseOK, Phases, MiningModes, FileOK
  <1>2. IsChain(chain)' /\ FileOK' /\ PoolOK'
    BY EmptyBlockSeq, MiningAssumption DEF FileOK, IsChain, PoolOK
  <1>3. PoolJobOK'
    BY DEF PoolJobOK, poolJob, PhaseOK
  <1>4. CountersOK'
    BY MiningAssumption, SMTT(30) DEF CountersOK, FileOK, IsChain, IsBlockSeq, Clamp,
      MIN_DIFFICULTY, MAX_DIFFICULTY
  <1>5. ledger' \in Ledgers
    BY LedgerInitType, MiningAssumption
  <1> QED
    BY <1>1, <1>2, <1>3, <1>4, <1>5

LEMMA SingletonChain ==
  ASSUME NEW b, IsBlock(b) PROVE IsChain(<<b>>)
  BY MiningAssumption DEF IsChain, IsBlockSeq, Range

LEMMA TypeBootFresh == TypeOK /\ BootFresh => TypeOK'
  <1> SUFFICES ASSUME TypeOK, BootFresh PROVE TypeOK'
    OBVIOUS
  <1> USE DEF BootFresh, Start, TypeOK
  <1>1. IsChain(chain)' /\ Len(chain') = 1
    <2>1. PICK clipped \in Clippings : chain' = <<GenesisBlock(clock, clipped)>>
      OBVIOUS
    <2>2. IsBlock(GenesisBlock(clock, clipped))
      BY GenesisType, MiningAssumption DEF CountersOK
    <2>3. IsChain(<<GenesisBlock(clock, clipped)>>)
      BY <2>2, SingletonChain
    <2> QED
      BY <2>1, <2>3
  <1>2. PhaseOK'
    BY <1>1 DEF PhaseOK, Phases, MiningModes, TornFile
  <1>3. FileOK' /\ PoolOK'
    BY EmptyBlockSeq, MiningAssumption DEF FileOK, IsChain, PoolOK, TornFile
  <1>4. PoolJobOK'
    BY DEF PoolJobOK, poolJob, PhaseOK
  <1>5. CountersOK'
    BY MiningAssumption DEF CountersOK, Clamp, MIN_DIFFICULTY, MAX_DIFFICULTY
  <1>6. ledger' \in Ledgers
    BY LedgerInitType, MiningAssumption
  <1> QED
    BY <1>1, <1>2, <1>3, <1>4, <1>5, <1>6

LEMMA TypeHalt == TypeOK /\ Halt => TypeOK'
  <1> SUFFICES ASSUME TypeOK, Halt PROVE TypeOK'
    OBVIOUS
  <1> USE DEF Halt, TypeOK
  <1>1. PhaseOK'
    BY DEF PhaseOK, Phases, MiningModes
  <1>2. IsChain(chain)' /\ PoolOK' /\ FileOK'
    BY EmptyBlockSeq, MiningAssumption DEF FileOK, IsChain, PoolOK
  <1>3. PoolJobOK'
    BY MiningAssumption DEF PoolJobOK, NoPoolJob
  <1>4. CountersOK'
    BY DEF CountersOK, MIN_DIFFICULTY
  <1>5. ledger' \in Ledgers
    BY LedgerInitType DEF LedgerModels
  <1> QED
    BY <1>1, <1>2, <1>3, <1>4, <1>5

LEMMA TypeMarkAttendance ==
  ASSUME TypeOK, NEW s \in Students, NEW status \in ValidStatus,
         MarkAttendance(s, status)
  PROVE  TypeOK'
  <1> USE DEF MarkAttendance, TypeOK
  <1>1. PoolOK'
    <2> DEFINE b == NewBlock(Tip(chain).index + 1 + Len(pool), clock, s, status,
                             TokenRewardForStatus(status), Tip(chain).hash)
    <2>1. /\ Tip(chain).index + 1 + Len(pool) \in Nat
          /\ TokenRewardForStatus(status) \in Nat
      BY DEF IsChain, PhaseOK, PoolOK, IsBlockSeq, IsBlock, Tip,
        TokenRewardForStatus, REWARD_PRESENT, REWARD_LATE, REWARD_ABSENT
    <2>2. IsBlock(b) /\ b.student_id = s
      BY <2>1, NewBlockType DEF CountersOK, NewBlock
    <2> HIDE DEF b
    <2> DEFINE signed == SignBlock(b, FALSE)
    <2>3. IsBlock(signed) /\ signed.student_id = s
      BY <2>2, SignBlockType
    <2>4. pool' = Append(pool, signed)
      BY DEF b, PendingAdd
    <2> HIDE DEF signed
    <2>5. /\ IsBlockSeq(pool) /\ Len(pool) + 1 <= MAX_PENDING /\ Len(pool) \in Nat
          /\ \A i \in 1..Len(pool) : pool[i].student_id \in Students
      BY MiningAssumption DEF PoolOK, IsBlockSeq
    <2>6. IsBlockSeq(Append(pool, signed)) /\ Len(Append(pool, signed)) = Len(pool) + 1
      BY <2>3, <2>5, AppendBlockSeq
    <2>7. 1 \in 1..2
      OBVIOUS
    <2>8. \A i \in 1..Len(Append(pool, signed)) :
            Append(pool, signed)[i].student_id \in Students
      BY <2>3, <2>5, <2>7, AppendStudents, Zenon
    <2> QED
      BY <2>4, <2>5, <2>6, <2>8 DEF PoolOK
  <1>2. PhaseOK' /\ IsChain(chain)' /\ FileOK' /\ PoolJobOK' /\ CountersOK'
    BY DEF PhaseOK, FileOK, PoolJobOK, poolJob, CountersOK
  <1> QED
    BY <1>1, <1>2
LEMMA TypeSetDifficulty ==
  ASSUME TypeOK, NEW d \in DifficultyInputs, SetDifficulty(d)
  PROVE  TypeOK'
  BY MiningAssumption DEF SetDifficulty, TypeOK, PhaseOK, FileOK, PoolOK,
    PoolJobOK, poolJob, CountersOK

LEMMA TypeSwitchModel ==
  ASSUME TypeOK, NEW m \in Models, SwitchModel(m)
  PROVE  TypeOK'
  <1> USE DEF SwitchModel, TypeOK
  <1>1. PhaseOK' /\ IsChain(chain)' /\ FileOK' /\ PoolOK' /\ PoolJobOK'
    BY DEF PhaseOK, FileOK, PoolOK, PoolJobOK, poolJob
  <1>2. CountersOK'
    BY DEF CountersOK, IsChain, IsBlockSeq
  <1>3. ledger' \in Ledgers
    BY LedgerInitType, MiningAssumption
  <1> QED
    BY <1>1, <1>2, <1>3

LEMMA TransferType ==
  ASSUME NEW l \in Ledgers, NEW s \in TypedIds, NEW r \in TypedIds
  PROVE  Transferred(l, s, r) \subseteq Ledgers
  <1>1. ASSUME NEW k \in Ledgers, NEW id \in TypedIds PROVE Opened(k, id) \in Ledgers
    BY DEF Opened, Ledgers
  <1>2. ASSUME NEW n \in Nat PROVE WithOutputs(l, n) \in Ledgers
    BY DEF WithOutputs, Ledgers
  <1>3. Opened(Opened(l, s), r) \in Ledgers
    BY <1>1
  <1>4. l.outputs \in Nat /\ l.outputs..(l.outputs + 2) \subseteq Nat
    BY DEF Ledgers
  <1> QED
    BY <1>2, <1>3, <1>4 DEF Transferred

LEMMA TypeTransfer ==
  ASSUME TypeOK, NEW s \in TypedIds, NEW r \in TypedIds, Transfer(s, r)
  PROVE  TypeOK'
  <1>1. ledger' \in Ledgers
    BY TransferType DEF Transfer, TypeOK
  <1> QED
    BY <1>1 DEF Transfer, TypeOK, PhaseOK, FileOK, PoolOK, PoolJobOK, poolJob,
      CountersOK

LEMMA TamperInRange ==
  (\E i \in TamperInputs : Tamper(i)) => \E i \in 2..Len(chain) : Tamper(i)
  BY DEF Tamper

LEMMA TypeTamper ==
  ASSUME TypeOK, NEW i \in 2..Len(chain), Tamper(i)
  PROVE  TypeOK'
  <1> USE DEF TypeOK
  <1>1. IsChain(chain') /\ Len(chain') = Len(chain)
    <2>1. IsBlockSeq(chain) /\ i \in 1..Len(chain)
      BY DEF IsChain, IsBlockSeq
    <2>2. /\ IsBlockSeq(chain') /\ Len(chain') = Len(chain)
          /\ \A j \in 1..Len(chain) :
               chain'[j] = IF j = i THEN Tampered(chain[j]) ELSE chain[j]
      BY <2>1, TamperBlockSeq DEF Tamper
    <2>3. \A j \in 2..Len(chain) : chain'[j].student_id \in Students
      <3> SUFFICES ASSUME NEW j \in 2..Len(chain)
                   PROVE  chain'[j].student_id \in Students
        OBVIOUS
      <3>1. j \in 1..Len(chain) /\ chain[j].student_id \in Students
        BY DEF IsChain, IsBlockSeq
      <3>2. IsBlock(chain[j])
        BY <3>1 DEF IsChain, IsBlockSeq
      <3>3. Tampered(chain[j]).student_id = chain[j].student_id
        BY <3>2, TamperedIsBlock
      <3> QED
        BY <2>2, <3>1, <3>3
    <2> QED
      BY <2>2, <2>3 DEF IsChain
  <1>2. PhaseOK'
    BY <1>1 DEF Tamper, PhaseOK, Phases, MiningModes, TornFile, IsChain, IsBlockSeq
  <1>3. FileOK'
    <2>1. CASE file' = TornFile
      BY <2>1, TornFileOK
    <2>2. CASE file' = file
      BY <2>2 DEF FileOK
    <2> QED
      BY <2>1, <2>2 DEF Tamper
  <1>4. PoolOK' /\ PoolJobOK' /\ CountersOK' /\ ledger' \in Ledgers
    BY DEF Tamper, PoolOK, PoolJobOK, poolJob, CountersOK
  <1> QED
    BY <1>1, <1>2, <1>3, <1>4 DEF Tamper

LEMMA TypeStartSolo == TypeOK /\ StartSolo => TypeOK'
  BY DEF StartSolo, BeginMining, memory, poolJob, TypeOK, PhaseOK, Phases,
    MiningModes, FileOK, PoolOK, PoolJobOK, CountersOK

LEMMA DistributableType ==
  ASSUME NEW n \in Nat PROVE Distributable(n) \in Int
  BY DEF Distributable, MINING_REWARD, POOL_FEE_PERCENT

LEMMA TypeStartPool ==
  ASSUME TypeOK, NEW count \in MinerCounts, StartPool(count)
  PROVE  TypeOK'
  <1> USE DEF StartPool, BeginMining, memory, TypeOK
  <1>1. /\ PhaseOK' /\ IsChain(chain)' /\ FileOK' /\ PoolOK' /\ CountersOK'
        /\ ledger' \in Ledgers
    BY DEF PhaseOK, Phases, MiningModes, FileOK, PoolOK, CountersOK
  <1>2. PoolJobOK'
    <2>1. PoolSize(count) \in 1..MAX_POOL_MINERS
      BY MiningAssumption DEF PoolSize
    <2>2. Distributable(Len(pool)) \in Int
      BY DistributableType DEF PoolOK, IsBlockSeq
    <2> QED
      BY <2>1, <2>2 DEF PoolJobOK
  <1> QED
    BY <1>1, <1>2
LEMMA TypeDrawHashRate ==
  ASSUME TypeOK, NEW rate \in HashRates, DrawHashRate(rate)
  PROVE  TypeOK'
  <1> USE DEF DrawHashRate, memory, TypeOK
  <1>1. /\ PhaseOK' /\ IsChain(chain)' /\ FileOK' /\ PoolOK' /\ CountersOK'
        /\ ledger' \in Ledgers
    BY DEF PhaseOK, Phases, MiningModes, FileOK, PoolOK, CountersOK
  <1>2. PoolJobOK'
    <2>1. /\ attempts' \in Seq(HashRates) /\ Len(attempts') = Len(attempts) + 1
          /\ attempts' # <<>>
      BY DEF PoolJobOK
    <2>2. rate \in Nat /\ rate > 0
      BY MiningAssumption
    <2> QED
      BY <2>1, <2>2, MiningAssumption DEF PoolJobOK
  <1> QED
    BY <1>1, <1>2

LEMMA TailFacts ==
  ASSUME NEW S, NEW s \in Seq(S), s # <<>>
  PROVE  /\ Tail(s) \in Seq(S) /\ Len(Tail(s)) = Len(s) - 1 /\ Head(s) \in S
         /\ Tail(s) = <<>> <=> Len(s) = 1
  <1>1. Head(s) \in S
    OBVIOUS
  <1>2. Len(Tail(s)) = Len(s) - 1
    OBVIOUS
  <1>3. Tail(s) \in Seq(S)
    OBVIOUS
  <1>4. ASSUME NEW t \in Seq(S) PROVE t = <<>> <=> Len(t) = 0
    BY <1>4
  <1>5. Tail(s) = <<>> <=> Len(Tail(s)) = 0
    BY <1>3, <1>4, Zenon
  <1>6. Len(Tail(s)) = 0 <=> Len(s) = 1
    <2>1. Len(s) \in Nat
      OBVIOUS
    <2> QED
      BY <2>1, <1>2
  <1> QED
    BY <1>1, <1>2, <1>3, <1>5, <1>6, Zenon

LEMMA TypePayPoolMiner == TypeOK /\ PayPoolMiner => TypeOK'
  <1> SUFFICES ASSUME TypeOK, PayPoolMiner PROVE TypeOK'
    OBVIOUS
  <1> USE DEF PayPoolMiner, TypeOK
  <1>1. PhaseOK' /\ IsChain(chain)' /\ FileOK' /\ PoolOK' /\ CountersOK'
    BY DEF PhaseOK, Phases, MiningModes, FileOK, PoolOK, CountersOK
  <1>2. /\ attempts \in Seq(HashRates) /\ attempts # <<>> /\ total \in Nat \ {0}
        /\ Len(attempts) \in 1..miners /\ miners \in 1..MAX_POOL_MINERS
    BY MiningAssumption DEF PoolJobOK
  <1>3. PoolJobOK'
    <2>1. /\ attempts' \in Seq(HashRates) /\ Len(attempts') = Len(attempts) - 1
          /\ attempts' = <<>> <=> Len(attempts) = 1
      BY <1>2, TailFacts
    <2> QED
      BY <1>2, <2>1 DEF PoolJobOK
  <1>4. ledger' \in Ledgers
    <2> DEFINE miner == PoolMiner[miners - Len(attempts) + 1]
               share == (Head(attempts) * earnings) \div total
    <2>1. miners - Len(attempts) + 1 \in 1..MAX_POOL_MINERS
      BY <1>2, MiningAssumption
    <2>2. miner \in Owners
      BY <2>1, MiningAssumption DEF Owners
    <2>3. Head(attempts) \in Int /\ earnings \in Int
      <3>1. Head(attempts) \in HashRates
        BY <1>2, TailFacts
      <3>2. HashRates \subseteq Int
        BY MiningAssumption
      <3> QED
        BY <3>1, <3>2 DEF PoolJobOK
    <2>4. share \in Int
      BY <1>2, <2>3
    <2> HIDE DEF miner, share
    <2>5. TryCredit(ledger, miner, share) \in Ledgers
      BY <2>2, <2>4, CreditType
    <2>6. ledger' = ledger \/ ledger' = TryCredit(ledger, miner, share)
      BY DEF miner, share
    <2> QED
      BY <2>5, <2>6
  <1> QED
    BY <1>1, <1>3, <1>4

(* A sum that wraps around is a number again. *)
LEMMA AsIntIsInt == ASSUME NEW x \in Int PROVE AsInt(x) \in Int
  <1> DEFINE w == 2 * (INT_MAX + 1)
             d == x - INT_MIN
  <1>1. w \in Nat \ {0} /\ d \in Int /\ INT_MIN \in Int
    BY IntMaxAssumption DEF INT_MIN
  <1>2. d % w \in Int
    <2> HIDE DEF w, d
    <2> QED
      BY <1>1
  <1> QED
    BY <1>1, <1>2 DEF AsInt

LEMMA TypeStartCloud ==
  ASSUME TypeOK, NEW rounds \in CloudRounds, NEW fees \in CloudFees,
         StartCloud(rounds, fees)
  PROVE  TypeOK'
  <1> USE DEF StartCloud, BeginMining, memory, TypeOK
  <1>1. /\ PhaseOK' /\ IsChain(chain)' /\ FileOK' /\ PoolOK' /\ CountersOK'
        /\ ledger' \in Ledgers
    BY DEF PhaseOK, Phases, MiningModes, FileOK, PoolOK, CountersOK
  <1>2. PoolJobOK'
    <2>1. rounds \in Int /\ fees \in Int /\ Len(pool) \in Int
      BY MiningAssumption DEF PoolOK, IsBlockSeq
    <2>2. CloudProfit(rounds, Len(pool), fees) \in Int
      <3>1. rounds * (MINING_REWARD * Len(pool) - fees) \in Int
        BY <2>1 DEF MINING_REWARD
      <3> QED
        BY <3>1, AsIntIsInt DEF CloudProfit
    <2> QED
      BY <2>2 DEF PoolJobOK
  <1> QED
    BY <1>1, <1>2
LEMMA DonePoolJob == Done => PoolJobOK'
  BY MiningAssumption DEF Done, NoPoolJob, PoolJobOK

LEMMA TypeMineFront == TypeOK /\ MineFront => TypeOK'
  <1> SUFFICES ASSUME TypeOK, MineFront PROVE TypeOK'
    OBVIOUS
  <1> USE DEF TypeOK
  <1>1. /\ IsBlockSeq(pool) /\ pool # <<>> /\ pool' = Tail(pool)
        /\ \A i \in 1..Len(pool) : pool[i].student_id \in Students
        /\ Len(pool) <= MAX_PENDING /\ phase = "mining"
    BY DEF MineFront, PendingRemoveFront, PoolOK
  <1>2. /\ IsBlockSeq(Tail(pool)) /\ Len(pool) \in Nat \ {0}
        /\ Len(Tail(pool)) = Len(pool) - 1
        /\ \A i \in 1..Len(pool) - 1 : Tail(pool)[i] = pool[i + 1]
        /\ Head(pool) = pool[1] /\ IsBlock(pool[1])
    BY <1>1, TailBlockSeq
  <1>3. PoolOK'
    <2>1. \A i \in 1..Len(Tail(pool)) : Tail(pool)[i].student_id \in Students
      BY <1>1, <1>2
    <2> QED
      BY <1>1, <1>2, <2>1, MiningAssumption DEF PoolOK
  <1>4. IsBlock(Head(pool)) /\ Head(pool).student_id \in Students
    BY <1>1, <1>2
  <1>5. CountersOK' /\ ledger' \in Ledgers /\ \A b \in confirmed' : IsBlock(b)
    BY DEF MineFront, CountersOK
  <1>6. IsBlockSeq(chain) /\ chain # <<>> /\ Len(chain) \in Nat \ {0}
    BY <1>1 DEF PhaseOK, IsChain, IsBlockSeq
  <1>7. CASE phase' = "saving"
    <2>1. /\ difficulty \in MIN_DIFFICULTY..MAX_DIFFICULTY
          /\ Len(chain) < MAX_BLOCKS /\ file' = TornFile
          /\ UNCHANGED <<mode, poolJob>>
      BY <1>7 DEF MineFront, Done
    <2>2. PICK clipped \in Clippings, zeros \in difficulty..MaxZeros :
            chain' = Append(chain,
              Mined(PrepareForMining(Head(pool), chain, clipped), zeros))
      BY <1>7 DEF MineFront, Done
    <2> DEFINE b == Mined(PrepareForMining(Head(pool), chain, clipped), zeros)
    <2>3. clipped \in BOOLEAN /\ zeros \in Nat
      BY <2>1, MiningAssumption DEF MIN_DIFFICULTY, MAX_DIFFICULTY
    <2>4. IsBlock(b) /\ b.student_id \in Students
      BY <1>4, <1>6, <2>3, MinedBlockType
    <2>5. chain' = Append(chain, b)
      BY <2>2
    <2> HIDE DEF b
    <2>6. IsBlockSeq(Append(chain, b)) /\ Len(Append(chain, b)) = Len(chain) + 1
      BY <1>6, <2>4, AppendBlockSeq
    <2>7. 2 \in 1..2 /\ \A i \in 2..Len(chain) : chain[i].student_id \in Students
      BY DEF IsChain
    <2>8. \A i \in 2..Len(Append(chain, b)) :
            Append(chain, b)[i].student_id \in Students
      BY <1>6, <2>4, <2>7, AppendStudents, Zenon
    <2>9. IsChain(chain') /\ Len(chain') >= 2
      BY <1>6, <2>1, <2>5, <2>6, <2>8, MiningAssumption DEF IsChain
    <2>10. PhaseOK'
      BY <1>1, <1>7, <2>1, <2>9 DEF PhaseOK, Phases, MiningModes, TornFile,
        IsChain, IsBlockSeq
    <2>11. PoolJobOK'
      BY <1>1, <1>7, <2>1 DEF PoolJobOK, poolJob
    <2> QED
      BY <1>3, <1>5, <2>1, <2>9, <2>10, <2>11, TornFileOK
  <1>8. CASE phase' # "saving"
    <2>1. Done /\ UNCHANGED <<chain, file>>
      BY <1>8 DEF MineFront
    <2>2. PhaseOK'
      BY <1>1, <2>1 DEF Done, PhaseOK, Phases, MiningModes
    <2>3. FileOK'
      BY <2>1 DEF FileOK
    <2> QED
      BY <1>3, <1>5, <2>1, <2>2, <2>3, DonePoolJob
  <1> QED
    BY <1>7, <1>8

LEMMA TypeSaveSucceeds == TypeOK /\ SaveSucceeds => TypeOK'
  <1> SUFFICES ASSUME TypeOK, SaveSucceeds PROVE TypeOK'
    OBVIOUS
  <1> USE DEF TypeOK
  <1>1. /\ phase = "saving" /\ mode \in MiningModes \cup {"boot", "tamper"}
        /\ IsBlockSeq(chain) /\ chain # <<>> /\ Len(chain) \in Nat \ {0}
        /\ UNCHANGED <<chain, pool, difficulty, ledger, base, clock, boots, session>>
    BY DEF SaveSucceeds, memory, PhaseOK, IsChain, IsBlockSeq
  <1>2. IsChain(chain)' /\ PoolOK' /\ CountersOK' /\ ledger' \in Ledgers
    BY <1>1 DEF PoolOK, CountersOK
  <1>3. FileOK'
    <2>1. CASE file' = WholeFile(chain)
      BY <1>1, <2>1 DEF WholeFile, FileOK
    <2>2. CASE file' = TornFile
      BY <2>2, TornFileOK
    <2> QED
      BY <2>1, <2>2 DEF SaveSucceeds
  <1>4. \A b \in confirmed' : IsBlock(b)
    <2>1. IsBlock(Tip(chain))
      BY <1>1 DEF Tip, IsBlockSeq
    <2> QED
      BY <2>1 DEF SaveSucceeds
  <1>5. CASE Done
    <2>1. PhaseOK'
      BY <1>1, <1>5 DEF Done, PhaseOK, Phases, MiningModes
    <2> QED
      BY <1>2, <1>3, <1>4, <1>5, <2>1, DonePoolJob
  <1>6. CASE /\ mode \in MiningModes
             /\ phase' = "crediting" /\ UNCHANGED <<mode, poolJob>>
    <2>1. PhaseOK'
      BY <1>1, <1>6 DEF PhaseOK, Phases, MiningModes
    <2>2. PoolJobOK'
      BY <1>1, <1>6 DEF PoolJobOK, poolJob
    <2> QED
      BY <1>2, <1>3, <1>4, <2>1, <2>2
  <1> QED
    BY <1>1, <1>5, <1>6 DEF SaveSucceeds
LEMMA TypeSaveFails == TypeOK /\ SaveFails => TypeOK'
  <1> SUFFICES ASSUME TypeOK, SaveFails PROVE TypeOK'
    OBVIOUS
  <1>1. CASE mode = "boot" /\ Halt
    BY <1>1, TypeHalt
  <1>2. CASE mode # "boot" /\ Done
    <2> USE DEF TypeOK
    <2>1. /\ phase = "saving" /\ mode \in MiningModes \cup {"tamper"}
          /\ UNCHANGED <<pool, difficulty, ledger, base, file, clock, boots,
                         session, confirmed>>
      BY <1>2 DEF SaveFails, PhaseOK, Halt, Done, MiningModes
    <2>2. IsChain(chain') /\ chain' # <<>>
      <3>1. CASE mode = "tamper"
        BY <1>2, <2>1, <3>1 DEF SaveFails, Halt, Done, PhaseOK
      <3>2. CASE mode \in MiningModes
        <4> DEFINE t == SubSeq(chain, 1, Len(chain) - 1)
        <4>1. chain' = t
          BY <1>2, <2>1, <3>2 DEF SaveFails, WithoutTip, Halt, Done, MiningModes
        <4>2. IsBlockSeq(chain) /\ Len(chain) \in Nat /\ Len(chain) >= 2
          BY <2>1, <3>2 DEF PhaseOK, IsChain, IsBlockSeq
        <4>3. /\ IsBlockSeq(t) /\ Len(t) = Len(chain) - 1
              /\ \A i \in 1..Len(t) : t[i] = chain[i]
          BY <4>2, FrontBlockSeq
        <4> HIDE DEF t
        <4>4. \A i \in 2..Len(t) : t[i].student_id \in Students
          BY <4>2, <4>3 DEF IsChain
        <4>5. Len(t) <= MAX_BLOCKS
          BY <4>2, <4>3, MiningAssumption DEF IsChain
        <4>6. t # <<>>
          BY <4>2, <4>3
        <4> QED
          BY <4>1, <4>3, <4>4, <4>5, <4>6 DEF IsChain
      <3> QED
        BY <2>1, <3>1, <3>2
    <2>3. PhaseOK'
      BY <1>2, <2>1, <2>2 DEF Done, PhaseOK, Phases, MiningModes
    <2>4. FileOK' /\ PoolOK' /\ CountersOK'
      BY <2>1 DEF FileOK, PoolOK, CountersOK
    <2> QED
      BY <1>2, <2>1, <2>2, <2>3, <2>4, DonePoolJob
  <1> QED
    BY <1>1, <1>2 DEF SaveFails

\* The block being credited is no genesis block.
LEMMA CreditedBlock ==
  ASSUME TypeOK, phase = "crediting"
  PROVE  Tip(chain).student_id \in Owners /\ Tip(chain).token_reward \in Nat
  <1>1. Len(chain) \in 2..Len(chain) /\ Len(chain) \in 1..Len(chain)
    BY DEF TypeOK, PhaseOK, IsChain, IsBlockSeq
  <1>2. chain[Len(chain)].student_id \in Students /\ IsBlock(chain[Len(chain)])
    BY <1>1 DEF TypeOK, IsChain, IsBlockSeq
  <1> QED
    BY <1>2 DEF Tip, Owners, IsBlock

LEMMA TypeCreditSolo == TypeOK /\ CreditSolo => TypeOK'
  <1> SUFFICES ASSUME TypeOK, CreditSolo PROVE TypeOK'
    OBVIOUS
  <1> DEFINE b == Tip(chain)
             rewarded == Credited(ledger, b.student_id, NetReward(b.token_reward))
             afterStudent == IF b.token_reward > 0 THEN rewarded ELSE ledger
             afterMiner == Credited(afterStudent, SOLO_MINER, MINING_REWARD)
  <1>1. b.student_id \in Owners /\ NetReward(b.token_reward) \in Int
    BY CreditedBlock DEF CreditSolo, NetReward, TX_FEE
  <1>2. rewarded \in Ledgers /\ afterStudent \in Ledgers
    BY <1>1, CreditType DEF TypeOK
  <1>3. afterMiner \in Ledgers
    <2>1. SOLO_MINER \in Owners /\ MINING_REWARD \in Int
      BY MiningAssumption DEF Owners, MINING_REWARD
    <2> QED
      BY <1>2, <2>1, CreditType
  <1>4. /\ phase = "crediting" /\ mode = "solo"
        /\ UNCHANGED <<chain, pool, difficulty, file, clock, boots, session,
                       base, confirmed>>
        /\ ledger' \in {ledger, afterStudent, afterMiner}
        /\ Done \/ (phase' = "mining" /\ UNCHANGED <<mode, poolJob>>)
    BY DEF CreditSolo
  <1> HIDE DEF afterMiner, afterStudent
  <1>5. ledger' \in Ledgers /\ PhaseOK' /\ PoolJobOK'
    <2>1. ledger' \in Ledgers
      BY <1>2, <1>3, <1>4 DEF TypeOK
    <2>2. PhaseOK'
      BY <1>4 DEF TypeOK, PhaseOK, Phases, MiningModes, Done
    <2>3. PoolJobOK'
      BY <1>4, DonePoolJob DEF TypeOK, PoolJobOK, poolJob
    <2> QED
      BY <2>1, <2>2, <2>3
  <1> QED
    BY <1>4, <1>5 DEF TypeOK, FileOK, PoolOK, CountersOK

LEMMA TypeCreditShared == TypeOK /\ CreditShared => TypeOK'
  <1> SUFFICES ASSUME TypeOK, CreditShared PROVE TypeOK'
    OBVIOUS
  <1> DEFINE b == Tip(chain)
             tried == TryCredit(ledger, b.student_id, NetReward(b.token_reward))
  <1>1. b.student_id \in Owners /\ NetReward(b.token_reward) \in Int
    BY CreditedBlock DEF CreditShared, NetReward, TX_FEE
  <1>2. tried \in Ledgers
    BY <1>1, CreditType DEF TypeOK
  <1>3. ledger' \in {ledger, tried}
    BY DEF CreditShared
  <1>4. ledger' \in Ledgers
    BY <1>2, <1>3 DEF TypeOK
  <1> QED
    BY <1>4 DEF CreditShared, TypeOK, PhaseOK, Phases, MiningModes, FileOK,
      PoolOK, PoolJobOK, poolJob, CountersOK

LEMMA TypeFinishMining == TypeOK /\ FinishMining => TypeOK'
  <1> SUFFICES ASSUME TypeOK, FinishMining PROVE TypeOK'
    OBVIOUS
  <1>1. TryCredit(ledger, CLOUD_USER, earnings) \in Ledgers
    BY CreditType, MiningAssumption DEF TypeOK, PoolJobOK, Owners
  <1>2. ledger' \in Ledgers
    BY <1>1 DEF FinishMining, TypeOK
  <1>3. PhaseOK' /\ PoolJobOK'
    BY DonePoolJob DEF FinishMining, Done, TypeOK, PhaseOK, Phases, MiningModes
  <1> QED
    BY <1>2, <1>3 DEF FinishMining, TypeOK, FileOK, PoolOK, CountersOK

LEMMA TypeNext == TypeOK /\ [Next]_vars => TypeOK'
  <1> SUFFICES ASSUME TypeOK, [Next]_vars PROVE TypeOK'
    OBVIOUS
  <1>1. CASE BootFromFile \/ BootFresh \/ Crash
    BY <1>1, TypeBootFromFile, TypeBootFresh, TypeHalt DEF Crash
  <1>2. CASE Internal
    BY <1>2, TypeDrawHashRate, TypePayPoolMiner, TypeMineFront, TypeSaveSucceeds,
      TypeSaveFails, TypeCreditSolo, TypeCreditShared, TypeFinishMining
    DEF Internal
  <1>3. CASE Command
    BY <1>3, TypeMarkAttendance, TypeSetDifficulty, TypeSwitchModel,
      TypeTransfer, TamperInRange, TypeTamper, TypeStartSolo, TypeStartPool, TypeStartCloud, TypeHalt
    DEF Command, Quit
  <1>4. CASE UNCHANGED vars
    BY <1>4 DEF vars, TypeOK, PhaseOK, FileOK, PoolOK, PoolJobOK, CountersOK
  <1> QED
    BY <1>1, <1>2, <1>3, <1>4 DEF Next

\* Every variable always has the type of what it models (attendance.h), for
\* every registry, every capacity and every mix of commands and faults.
THEOREM TypeCorrect == Spec => []TypeOK
  BY TypeInit, TypeNext, PTL DEF Spec
-----------------------------------------------------------------------------

(* Blocks. *)

LEMMA PayloadsOf ==
  ASSUME NEW b, NEW c,
         b.index = c.index, b.timestamp = c.timestamp,
         b.student_id = c.student_id, b.status = c.status,
         b.token_reward = c.token_reward, b.transaction_id = c.transaction_id,
         b.previous_hash = c.previous_hash
  PROVE  /\ SignaturePayload(b) = SignaturePayload(c)
         /\ b.nonce = c.nonce => ComputeBlockHash(b) = ComputeBlockHash(c)
  BY DEF SignaturePayload, ComputeBlockHash, HashPayload

LEMMA SignedBlock ==
  ASSUME NEW b, IsBlock(b), NEW clipped \in BOOLEAN
  PROVE  LET s == SignBlock(b, clipped)
         IN  /\ s.signature.over = SignaturePayload(s)
             /\ s.index = b.index /\ s.previous_hash = b.previous_hash
  <1> DEFINE s == SignBlock(b, clipped)
             payload == SignaturePayload(b)
  <1>1. SignaturePayload(s) = payload
    BY PayloadsOf DEF SignBlock, IsBlock
  <1> HIDE DEF payload
  <1>2. s = [b EXCEPT !.signature = [over |-> payload, clipped |-> clipped]]
    BY DEF SignBlock, payload
  <1> QED
    BY <1>1, <1>2 DEF IsBlock

LEMMA HashedBlock ==
  ASSUME NEW b, IsBlock(b), b.signature.over = SignaturePayload(b)
  PROVE  LET m == [b EXCEPT !.hash = ComputeBlockHash(b)]
         IN  Sealed(m) /\ m.index = b.index /\ m.previous_hash = b.previous_hash
  <1> DEFINE digest == ComputeBlockHash(b)
             m == [b EXCEPT !.hash = digest]
  <1>1. SignaturePayload(m) = SignaturePayload(b) /\ ComputeBlockHash(m) = digest
    BY PayloadsOf DEF IsBlock
  <1> HIDE DEF digest
  <1>2. /\ m.hash = digest /\ m.signature = b.signature
        /\ m.index = b.index /\ m.previous_hash = b.previous_hash
    BY DEF IsBlock
  <1> QED
    BY <1>1, <1>2 DEF Sealed, digest

LEMMA MinedBlock ==
  ASSUME NEW s, IsBlockSeq(s), s # <<>>, NEW b, IsBlock(b),
         NEW clipped \in BOOLEAN, NEW zeros \in Nat
  PROVE  LET m == Mined(PrepareForMining(b, s, clipped), zeros)
         IN  /\ m.index = Tip(s).index + 1 /\ m.previous_hash = Tip(s).hash
             /\ Sealed(m)
  <1> DEFINE linked == [b EXCEPT !.index = Tip(s).index + 1,
                                 !.previous_hash = Tip(s).hash, !.nonce = 0]
             signed == SignBlock(linked, clipped)
             solved == [signed EXCEPT !.nonce = zeros]
  <1>1. Tip(s).index + 1 \in Nat
    BY DEF IsBlockSeq, IsBlock, Tip
  <1>2. /\ IsBlock(linked) /\ linked.index = Tip(s).index + 1
        /\ linked.previous_hash = Tip(s).hash
    <2>1. IsBlock(linked)
      BY <1>1, RelinkType, Zenon
    <2> QED
      BY <2>1 DEF IsBlock
  <1> HIDE DEF linked
  <1>3. /\ IsBlock(signed) /\ signed.signature.over = SignaturePayload(signed)
        /\ signed.index = linked.index
        /\ signed.previous_hash = linked.previous_hash
    BY <1>2, SignBlockType, SignedBlock
  <1> HIDE DEF signed
  <1>4. /\ IsBlock(solved) /\ solved.signature.over = SignaturePayload(solved)
        /\ solved.index = linked.index
        /\ solved.previous_hash = linked.previous_hash
    <2>1. /\ IsBlock(solved) /\ solved.signature = signed.signature
          /\ solved.index = linked.index
          /\ solved.previous_hash = linked.previous_hash
      BY <1>3 DEF IsBlock
    <2>2. SignaturePayload(solved) = SignaturePayload(signed)
      BY <1>3, PayloadsOf DEF IsBlock
    <2> QED
      BY <1>3, <2>1, <2>2
  <1> HIDE DEF solved
  <1>5. LET m == [solved EXCEPT !.hash = ComputeBlockHash(solved)]
        IN  /\ m.index = linked.index /\ m.previous_hash = linked.previous_hash
            /\ Sealed(m)
    BY <1>4, HashedBlock
  <1>6. PrepareForMining(b, s, clipped) = signed
    BY DEF PrepareForMining, signed, linked
  <1> QED
    BY <1>2, <1>5, <1>6 DEF Mined, solved

LEMMA FreshGenesis ==
  ASSUME NEW timestamp \in Nat, NEW clipped \in BOOLEAN
  PROVE  LET g == GenesisBlock(timestamp, clipped)
         IN  /\ g.index = 0 /\ g.previous_hash = GENESIS_PREV_HASH
             /\ Sealed(g)
  <1> DEFINE new == NewBlock(0, timestamp, GENESIS, "PRESENT", 0, GENESIS_PREV_HASH)
             signed == SignBlock(new, clipped)
  <1>1. IsBlock(new) /\ new.index = 0 /\ new.previous_hash = GENESIS_PREV_HASH
    BY NewBlockType DEF ValidStatus, NewBlock
  <1> HIDE DEF new
  <1>2. /\ IsBlock(signed) /\ signed.signature.over = SignaturePayload(signed)
        /\ signed.index = new.index /\ signed.previous_hash = new.previous_hash
    BY <1>1, SignBlockType, SignedBlock
  <1> HIDE DEF signed
  <1>3. LET g == [signed EXCEPT !.hash = ComputeBlockHash(signed)]
        IN  /\ g.index = signed.index /\ g.previous_hash = signed.previous_hash
            /\ Sealed(g)
    BY <1>2, HashedBlock
  <1> QED
    BY <1>1, <1>2, <1>3 DEF GenesisBlock, signed, new

LEMMA TamperedBlock ==
  ASSUME NEW b, IsBlock(b)
  PROVE  LET t == Tampered(b)
         IN  /\ t.index = b.index /\ t.previous_hash = b.previous_hash
             /\ t.hash = b.hash /\ t = [b EXCEPT !.status = t.status]
  BY DEF Tampered, IsBlock

-----------------------------------------------------------------------------
(* Steps. *)

\* A step that is none of seven leaves the chain, the file and what was saved
\* alone, and it neither begins nor ends a save.
LEMMA QuietSteps ==
  ASSUME TypeOK, [Next]_vars
  PROVE  \/ BootFromFile \/ BootFresh \/ Halt \/ MineFront \/ SaveSucceeds
         \/ SaveFails \/ \E i \in 2..Len(chain) : Tamper(i)
         \/ /\ UNCHANGED <<chain, file, confirmed>>
            /\ \/ UNCHANGED <<phase, mode>>
               \/ phase # "saving" /\ phase' # "saving"
  <1> DEFINE Quiet == /\ UNCHANGED <<chain, file, confirmed>>
                      /\ \/ UNCHANGED <<phase, mode>>
                         \/ phase # "saving" /\ phase' # "saving"
  <1>1. ASSUME NEW rate \in HashRates, DrawHashRate(rate) PROVE Quiet
    BY <1>1 DEF DrawHashRate, memory
  <1>2. PayPoolMiner \/ CreditSolo \/ CreditShared \/ FinishMining => Quiet
    BY DEF PayPoolMiner, CreditSolo, CreditShared, FinishMining, Done
  <1>3. ASSUME NEW s, NEW status, MarkAttendance(s, status) PROVE Quiet
    BY <1>3 DEF MarkAttendance
  <1>4. ASSUME NEW d, SetDifficulty(d) PROVE Quiet
    BY <1>4 DEF SetDifficulty
  <1>5. ASSUME NEW m, SwitchModel(m) PROVE Quiet
    BY <1>5 DEF SwitchModel
  <1>6. StartSolo => Quiet
    BY DEF StartSolo, BeginMining, memory
  <1>7. ASSUME NEW count, StartPool(count) PROVE Quiet
    BY <1>7 DEF StartPool, BeginMining, memory
  <1>8. ASSUME NEW rounds, NEW fees, StartCloud(rounds, fees) PROVE Quiet
    BY <1>8 DEF StartCloud, BeginMining, memory
  <1>9. UNCHANGED vars => Quiet
    BY DEF vars
  <1>13. ASSUME NEW s, NEW r, Transfer(s, r) PROVE Quiet
    BY <1>13 DEF Transfer
  <1> HIDE DEF Quiet
  <1>10. CASE Internal
    BY <1>1, <1>2, <1>10 DEF Internal, Quiet
  <1>11. CASE Command
    BY <1>3, <1>4, <1>5, <1>6, <1>7, <1>8, <1>11, <1>13, TamperInRange
    DEF Command, Quit, Quiet
  <1>12. CASE BootFromFile \/ BootFresh \/ Crash
    BY <1>12 DEF Crash
  <1> QED
    BY <1>9, <1>10, <1>11, <1>12 DEF Next, Quiet

\* What the steps that do change the chain or the file make of them.
LEMMA MineFrontStep ==
  ASSUME TypeOK, MineFront
  PROVE  /\ IsBlockSeq(chain) /\ Len(chain) \in Nat \ {0} /\ phase = "mining"
         /\ UNCHANGED confirmed
         /\ \/ /\ UNCHANGED <<chain, file>> /\ phase' = "idle"
            \/ /\ phase' = "saving" /\ mode' = mode /\ mode # "tamper"
               /\ file' = TornFile
               /\ \E b : /\ IsBlock(b) /\ Sealed(b)
                         /\ b.index = Tip(chain).index + 1
                         /\ b.previous_hash = Tip(chain).hash
                         /\ chain' = Append(chain, b)
  <1>1. /\ IsBlockSeq(chain) /\ chain # <<>> /\ Len(chain) \in Nat \ {0}
        /\ phase = "mining" /\ mode # "tamper" /\ UNCHANGED confirmed
    BY DEF TypeOK, MineFront, PhaseOK, IsChain, IsBlockSeq
  <1>2. IsBlock(Head(pool))
    <2>1. IsBlockSeq(pool) /\ pool # <<>>
      BY DEF MineFront, TypeOK, PoolOK
    <2> QED
      BY <2>1, TailBlockSeq
  <1>3. CASE phase' = "saving"
    <2>1. /\ difficulty \in MIN_DIFFICULTY..MAX_DIFFICULTY
          /\ file' = TornFile /\ mode' = mode
      BY <1>3 DEF MineFront, Done
    <2>2. PICK clipped \in Clippings, zeros \in difficulty..MaxZeros :
            chain' = Append(chain,
              Mined(PrepareForMining(Head(pool), chain, clipped), zeros))
      BY <1>3 DEF MineFront, Done
    <2>3. clipped \in BOOLEAN /\ zeros \in Nat
      BY <2>1, MiningAssumption DEF MIN_DIFFICULTY, MAX_DIFFICULTY
    <2> DEFINE b == Mined(PrepareForMining(Head(pool), chain, clipped), zeros)
    <2>4. /\ IsBlock(b) /\ Sealed(b) /\ b.index = Tip(chain).index + 1
          /\ b.previous_hash = Tip(chain).hash
      BY <1>1, <1>2, <2>3, MinedBlock, MinedBlockType
    <2>5. chain' = Append(chain, b)
      BY <2>2
    <2> HIDE DEF b
    <2> QED
      BY <1>1, <1>3, <2>1, <2>4, <2>5
  <1>4. CASE phase' # "saving"
    BY <1>1, <1>4 DEF MineFront, Done
  <1> QED
    BY <1>3, <1>4

LEMMA TamperStep ==
  ASSUME TypeOK, NEW i \in 2..Len(chain), Tamper(i)
  PROVE  /\ IsBlockSeq(chain) /\ Len(chain') = Len(chain) /\ phase = "idle"
         /\ \A j \in 1..Len(chain) :
              chain'[j] = IF j = i THEN Tampered(chain[j]) ELSE chain[j]
         /\ UNCHANGED confirmed /\ file' \in {TornFile, file}
         /\ \/ phase' = "saving" /\ mode' = "tamper"
            \/ phase' = "idle"
  <1>1. IsBlockSeq(chain) /\ i \in 1..Len(chain)
    BY DEF TypeOK, IsChain, IsBlockSeq
  <1>2. /\ Len(chain') = Len(chain)
        /\ \A j \in 1..Len(chain) :
             chain'[j] = IF j = i THEN Tampered(chain[j]) ELSE chain[j]
    BY <1>1, TamperBlockSeq DEF Tamper
  <1> QED
    BY <1>1, <1>2 DEF Tamper

LEMMA SaveFailsStep ==
  ASSUME TypeOK, SaveFails
  PROVE  /\ UNCHANGED <<file, confirmed>> /\ phase = "saving"
         /\ phase' \in {"idle", "down"}
         /\ \/ chain' = <<>>
            \/ mode = "tamper" /\ UNCHANGED chain
            \/ /\ mode # "tamper" /\ Len(chain) \in Nat \ {0}
               /\ Len(chain') = Len(chain) - 1
               /\ \A j \in 1..Len(chain') : chain'[j] = chain[j]
  <1>1. CASE mode = "boot"
    BY <1>1 DEF SaveFails, Halt
  <1>2. CASE mode = "tamper"
    BY <1>2 DEF SaveFails, Done, Halt
  <1>3. CASE mode \notin {"boot", "tamper"}
    <2>1. IsBlockSeq(chain) /\ Len(chain) > 0 /\ Len(chain) \in Nat \ {0}
      BY <1>3 DEF SaveFails, TypeOK, PhaseOK, IsChain, IsBlockSeq
    <2>2. chain' = SubSeq(chain, 1, Len(chain) - 1)
      BY <1>3 DEF SaveFails, WithoutTip, Done, Halt
    <2>3. /\ Len(chain') = Len(chain) - 1
          /\ \A j \in 1..Len(chain') : chain'[j] = chain[j]
      BY <2>1, <2>2, FrontBlockSeq
    <2> QED
      BY <1>3, <2>1, <2>3 DEF SaveFails, Done, Halt
  <1> QED
    BY <1>1, <1>2, <1>3

-----------------------------------------------------------------------------
(* The links. *)

LEMMA LinkedShort ==
  /\ Linked(<<>>)
  /\ \A b : b.index = 0 /\ b.previous_hash = GENESIS_PREV_HASH => Linked(<<b>>)
  BY DEF Linked

LEMMA LinkedAppend ==
  ASSUME NEW s, IsBlockSeq(s), Len(s) \in Nat \ {0}, Linked(s), NEW b, IsBlock(b),
         b.index = Tip(s).index + 1, b.previous_hash = Tip(s).hash
  PROVE  Linked(Append(s, b))
  <1> DEFINE t == Append(s, b)
             n == Len(s)
  <1>1. /\ Len(t) = n + 1 /\ \A i \in 1..n : t[i] = s[i]
        /\ t[n + 1] = b /\ n \in Nat \ {0}
    BY AppendBlockSeq
  <1>2. /\ \A i \in 1..n : /\ s[i].index = i - 1
                          /\ s[i].previous_hash = IF i = 1 THEN GENESIS_PREV_HASH
                                                            ELSE s[i - 1].hash
        /\ b.index = s[n].index + 1 /\ b.previous_hash = s[n].hash
    BY DEF Linked, Tip
  <1> HIDE DEF t, n
  <1> SUFFICES ASSUME NEW i \in 1..n + 1
               PROVE  /\ t[i].index = i - 1
                      /\ t[i].previous_hash = IF i = 1 THEN GENESIS_PREV_HASH
                                                        ELSE t[i - 1].hash
    BY <1>1 DEF Linked, t
  <1>3. CASE i = n + 1
    <2>1. i # 1 /\ i - 1 = n /\ n \in 1..n
      BY <1>1, <1>3
    <2>2. b.index = n - 1 + 1 /\ n - 1 + 1 = n
      BY <1>1, <1>2, <2>1
    <2> QED
      BY <1>1, <1>2, <1>3, <2>1, <2>2
  <1>4. CASE i # n + 1
    <2>1. i \in 1..n /\ (i # 1 => i - 1 \in 1..n)
      BY <1>1, <1>4
    <2> QED
      BY <1>1, <1>2, <2>1
  <1> QED
    BY <1>3, <1>4

LEMMA LinkedPrefix ==
  ASSUME NEW s, Linked(s), NEW t, Len(s) \in Nat, Len(t) \in Nat, Len(t) <= Len(s),
         \A i \in 1..Len(t) : t[i] = s[i]
  PROVE  Linked(t)
  <1> SUFFICES ASSUME NEW i \in 1..Len(t)
               PROVE  /\ t[i].index = i - 1
                      /\ t[i].previous_hash = IF i = 1 THEN GENESIS_PREV_HASH
                                                        ELSE t[i - 1].hash
    BY DEF Linked
  <1>1. i \in 1..Len(s) /\ (i # 1 => i - 1 \in 1..Len(t))
    OBVIOUS
  <1> QED
    BY <1>1 DEF Linked

LEMMA LinkedTamper ==
  ASSUME NEW s, IsBlockSeq(s), Linked(s), NEW i, NEW t, Len(t) = Len(s),
         \A j \in 1..Len(s) : t[j] = IF j = i THEN Tampered(s[j]) ELSE s[j]
  PROVE  Linked(t)
  <1>1. \A j \in 1..Len(s) : /\ t[j].index = s[j].index /\ t[j].hash = s[j].hash
                             /\ t[j].previous_hash = s[j].previous_hash
    BY TamperedBlock DEF IsBlockSeq
  <1> SUFFICES ASSUME NEW j \in 1..Len(s)
               PROVE  /\ t[j].index = j - 1
                      /\ t[j].previous_hash = IF j = 1 THEN GENESIS_PREV_HASH
                                                        ELSE t[j - 1].hash
    BY DEF Linked
  <1>2. Len(s) \in Nat /\ (j # 1 => j - 1 \in 1..Len(s))
    BY DEF IsBlockSeq
  <1> QED
    BY <1>1, <1>2 DEF Linked

LEMMA LinkedInit == Init => ChainLinked
  BY LinkedShort DEF Init, ChainLinked, TornFile

LEMMA LinkedNext == TypeOK /\ ChainLinked /\ [Next]_vars => ChainLinked'
  <1> SUFFICES ASSUME TypeOK, ChainLinked, [Next]_vars PROVE ChainLinked'
    OBVIOUS
  <1> USE DEF ChainLinked
  <1>1. CASE BootFromFile
    BY <1>1 DEF BootFromFile
  <1>2. CASE BootFresh
    <2>1. PICK clipped \in Clippings : chain' = <<GenesisBlock(clock, clipped)>>
      BY <1>2 DEF BootFresh
    <2>2. clipped \in BOOLEAN /\ clock \in Nat
      BY MiningAssumption DEF TypeOK, CountersOK
    <2>3. /\ GenesisBlock(clock, clipped).index = 0
          /\ GenesisBlock(clock, clipped).previous_hash = GENESIS_PREV_HASH
      BY <2>2, FreshGenesis
    <2> HIDE DEF ChainLinked
    <2>4. Linked(chain') /\ file' = TornFile
      BY <1>2, <2>1, <2>3, LinkedShort DEF BootFresh
    <2> QED
      BY <2>4, LinkedShort DEF ChainLinked, TornFile
  <1>3. CASE Halt
    BY <1>3, LinkedShort DEF Halt
  <1>4. CASE MineFront
    <2>1. CASE UNCHANGED <<chain, file>>
      BY <2>1
    <2>2. CASE phase' = "saving"
      <3>1. PICK b : /\ IsBlock(b) /\ b.index = Tip(chain).index + 1
                     /\ b.previous_hash = Tip(chain).hash
                     /\ chain' = Append(chain, b)
        BY <1>4, <2>2, MineFrontStep
      <3>2. /\ IsBlockSeq(chain) /\ Len(chain) \in Nat \ {0} /\ file' = TornFile
        BY <1>4, <2>2, MineFrontStep
      <3>3. Linked(chain')
        BY <3>1, <3>2, LinkedAppend
      <3> QED
        BY <3>2, <3>3, LinkedShort DEF TornFile
    <2> QED
      BY <1>4, <2>1, <2>2, MineFrontStep
  <1>5. CASE SaveSucceeds
    BY <1>5, LinkedShort DEF SaveSucceeds, memory, WholeFile, TornFile
  <1>6. CASE SaveFails
    <2>1. UNCHANGED file
      BY <1>6, SaveFailsStep
    <2>2. CASE chain' = <<>>
      BY <2>1, <2>2, LinkedShort
    <2>3. CASE UNCHANGED chain
      BY <2>1, <2>3
    <2>4. CASE /\ Len(chain) \in Nat \ {0} /\ Len(chain') = Len(chain) - 1
               /\ \A j \in 1..Len(chain') : chain'[j] = chain[j]
      <3>1. Len(chain') \in Nat /\ Len(chain') <= Len(chain) /\ Len(chain) \in Nat
        BY <2>4
      <3>2. Linked(chain')
        BY <2>4, <3>1, LinkedPrefix
      <3> QED
        BY <2>1, <3>2
    <2> QED
      BY <1>6, <2>2, <2>3, <2>4, SaveFailsStep
  <1>7. ASSUME NEW i \in 2..Len(chain), Tamper(i) PROVE ChainLinked'
    <2>1. Linked(chain')
      BY <1>7, TamperStep, LinkedTamper
    <2>2. file' \in {TornFile, file}
      BY <1>7, TamperStep
    <2> QED
      BY <2>1, <2>2, LinkedShort DEF TornFile
  <1>8. CASE UNCHANGED <<chain, file>>
    BY <1>8
  <1> QED
    BY <1>1, <1>2, <1>3, <1>4, <1>5, <1>6, <1>7, <1>8, QuietSteps

\* The chain in memory and the chain on disk are always linked from genesis to
\* tip (prepare_block_for_mining, blockchain_append_mined_block), under every
\* fault and for every value of the constants.
THEOREM AlwaysLinked == Spec => []ChainLinked
  BY TypeInit, TypeNext, LinkedInit, LinkedNext, PTL DEF Spec

-----------------------------------------------------------------------------
(* The provenance of blocks. *)

LEMMA SavedTampered ==
  ASSUME TypeOK, NEW b, IsBlock(b), Saved(b)
  PROVE  Saved(Tampered(b))
  <1> DEFINE t == Tampered(b)
  <1>1. PICK c \in confirmed : b = [c EXCEPT !.status = b.status]
    BY DEF Saved
  <1>2. IsBlock(c)
    BY DEF TypeOK
  <1>3. t = [b EXCEPT !.status = t.status]
    BY TamperedBlock
  <1> HIDE DEF t
  <1>4. t = [c EXCEPT !.status = t.status]
    BY <1>1, <1>2, <1>3 DEF IsBlock
  <1> QED
    BY <1>4 DEF Saved, t

LEMMA ProvenanceInit == Init => Provenance
  BY DEF Init, Provenance, TornFile

\* A step that leaves what was saved alone, and empties or keeps the file.
LEMMA ProvenanceKept ==
  ASSUME Provenance, UNCHANGED confirmed, file' \in {file, TornFile},
         \A i \in 1..Len(chain') :
           IF Settled(i)' THEN Saved(chain'[i]) ELSE Sealed(chain'[i])
  PROVE  Provenance'
  <1>1. \A c \in confirmed' : Sealed(c)
    BY DEF Provenance
  <1>2. \A b : Saved(b) => Saved(b)'
    BY DEF Saved
  <1>3. \A i \in 1..Len(file'.blocks) : Saved(file'.blocks[i])
    BY DEF Provenance, TornFile
  <1>4. \A i \in 1..Len(file'.blocks) : Saved(file.blocks[i])'
    BY <1>2, <1>3 DEF Saved
  <1>5. \A i \in 1..Len(chain') :
          IF Settled(i)' THEN Saved(chain[i])' ELSE Sealed(chain[i])'
    BY <1>2 DEF Saved, Sealed
  <1> QED
    BY <1>1, <1>4, <1>5 DEF Provenance

LEMMA ProvenanceMineFront ==
  ASSUME TypeOK, Provenance, MineFront
  PROVE  Provenance'
  <1>1. /\ IsBlockSeq(chain) /\ Len(chain) \in Nat \ {0} /\ phase = "mining"
        /\ UNCHANGED confirmed
    BY MineFrontStep
  <1>2. \A i \in 1..Len(chain) : Saved(chain[i])
    BY <1>1 DEF Provenance, Settled
  <1>3. CASE UNCHANGED <<chain, file>> /\ phase' = "idle"
    BY <1>1, <1>2, <1>3, ProvenanceKept DEF Settled
  <1>4. CASE phase' = "saving" /\ mode' # "tamper" /\ file' = TornFile
    <2>1. PICK b : IsBlock(b) /\ Sealed(b) /\ chain' = Append(chain, b)
      BY <1>4, MineFrontStep
    <2>2. /\ Len(chain') = Len(chain) + 1 /\ chain'[Len(chain) + 1] = b
          /\ \A i \in 1..Len(chain) : chain'[i] = chain[i]
      BY <1>1, <2>1, AppendBlockSeq
    <2>3. \A i \in 1..Len(chain') : Settled(i)' <=> i <= Len(chain)
      BY <1>1, <1>4, <2>2 DEF Settled
    <2>4. \A i \in 1..Len(chain') :
            IF Settled(i)' THEN Saved(chain'[i]) ELSE Sealed(chain'[i])
      <3> SUFFICES ASSUME NEW i \in 1..Len(chain')
                   PROVE  IF Settled(i)' THEN Saved(chain'[i])
                                         ELSE Sealed(chain'[i])
        OBVIOUS
      <3>1. CASE i \in 1..Len(chain)
        BY <1>1, <1>2, <2>2, <2>3, <3>1
      <3>2. CASE i = Len(chain) + 1
        BY <1>1, <2>1, <2>2, <2>3, <3>2
      <3> QED
        BY <1>1, <2>2, <3>1, <3>2
    <2> QED
      BY <1>1, <1>4, <2>4, ProvenanceKept
  <1> QED
    BY <1>3, <1>4, MineFrontStep

LEMMA ProvenanceSaveSucceeds ==
  ASSUME TypeOK, Provenance, SaveSucceeds
  PROVE  Provenance'
  <1>1. /\ phase = "saving" /\ phase' # "saving" /\ chain' = chain
        /\ IsBlockSeq(chain) /\ Len(chain) \in Nat \ {0}
        /\ file' \in {WholeFile(chain), TornFile}
    BY DEF SaveSucceeds, memory, Done, TypeOK, PhaseOK, IsChain, IsBlockSeq
  <1>2. \A i \in 1..Len(chain) : mode # "tamper" /\ i = Len(chain) => ~Settled(i)
    BY <1>1 DEF Settled
  <1>3. Sealed(Tip(chain)) \/ UNCHANGED confirmed
    BY <1>1, <1>2 DEF SaveSucceeds, Provenance, Tip
  <1>4. /\ confirmed \subseteq confirmed' /\ \A c \in confirmed' : Sealed(c)
    BY <1>3 DEF SaveSucceeds, Provenance
  <1>5. \A i \in 1..Len(chain) : Saved(chain[i])'
    <2> SUFFICES ASSUME NEW i \in 1..Len(chain) PROVE Saved(chain[i])'
      OBVIOUS
    <2>1. CASE Settled(i)
      <3>1. Saved(chain[i])
        BY <2>1 DEF Provenance
      <3> QED
        BY <1>1, <1>4, <3>1 DEF Saved
    <2>2. CASE ~Settled(i)
      <3>1. mode # "tamper" /\ i = Len(chain)
        BY <1>1, <2>2 DEF Settled
      <3>2. chain[i] \in confirmed'
        BY <3>1 DEF SaveSucceeds, Tip
      <3>3. chain[i] = [chain[i] EXCEPT !.status = chain[i].status]
        BY <1>1 DEF IsBlockSeq, IsBlock
      <3> QED
        BY <1>1, <3>2, <3>3 DEF Saved
    <2> QED
      BY <2>1, <2>2
  <1>6. \A i \in 1..Len(file'.blocks) : Saved(file.blocks[i])'
    BY <1>1, <1>5 DEF WholeFile, TornFile, Saved
  <1> QED
    BY <1>1, <1>4, <1>5, <1>6 DEF Provenance, Settled

LEMMA ProvenanceNext == TypeOK /\ Provenance /\ [Next]_vars => Provenance'
  <1> SUFFICES ASSUME TypeOK, Provenance, [Next]_vars PROVE Provenance'
    OBVIOUS
  <1>1. CASE BootFromFile
    <2>1. /\ chain' = file.blocks /\ UNCHANGED <<file, confirmed>>
          /\ phase' = "idle"
      BY <1>1 DEF BootFromFile, Start
    <2>2. \A i \in 1..Len(chain') : Saved(chain'[i])
      BY <2>1 DEF Provenance
    <2> QED
      BY <2>1, <2>2, ProvenanceKept DEF Settled
  <1>2. CASE BootFresh
    <2>1. PICK clipped \in Clippings : chain' = <<GenesisBlock(clock, clipped)>>
      BY <1>2 DEF BootFresh
    <2>2. clipped \in BOOLEAN /\ clock \in Nat
      BY MiningAssumption DEF TypeOK, CountersOK
    <2> DEFINE g == GenesisBlock(clock, clipped)
    <2>3. Sealed(g) /\ chain' = <<g>>
      BY <2>1, <2>2, FreshGenesis
    <2> HIDE DEF g
    <2>4. \A i \in 1..Len(chain') : ~Settled(i)' /\ Sealed(chain'[i])
      BY <1>2, <2>3 DEF BootFresh, Settled
    <2>5. UNCHANGED confirmed /\ file' = TornFile
      BY <1>2 DEF BootFresh, Start
    <2> QED
      BY <2>4, <2>5, ProvenanceKept
  <1>3. CASE Halt
    BY <1>3, ProvenanceKept DEF Halt
  <1>4. CASE MineFront
    BY <1>4, ProvenanceMineFront
  <1>5. CASE SaveSucceeds
    BY <1>5, ProvenanceSaveSucceeds
  <1>6. CASE SaveFails
    <2>1. /\ UNCHANGED <<file, confirmed>> /\ phase = "saving"
          /\ phase' \in {"idle", "down"}
      BY <1>6, SaveFailsStep
    <2>2. \A i \in 1..Len(chain') : Saved(chain'[i])
      <3>1. CASE chain' = <<>>
        BY <3>1
      <3>2. CASE mode = "tamper" /\ UNCHANGED chain
        BY <3>2 DEF Provenance, Settled
      <3>3. CASE /\ mode # "tamper" /\ Len(chain) \in Nat \ {0}
                 /\ Len(chain') = Len(chain) - 1
                 /\ \A j \in 1..Len(chain') : chain'[j] = chain[j]
        <4>1. \A i \in 1..Len(chain') : i \in 1..Len(chain) /\ Settled(i)
          BY <3>3 DEF Settled
        <4> QED
          BY <3>3, <4>1 DEF Provenance
      <3> QED
        BY <1>6, <3>1, <3>2, <3>3, SaveFailsStep
    <2> QED
      BY <2>1, <2>2, ProvenanceKept DEF Settled
  <1>7. ASSUME NEW i \in 2..Len(chain), Tamper(i) PROVE Provenance'
    <2>1. /\ IsBlockSeq(chain) /\ Len(chain') = Len(chain) /\ phase = "idle"
          /\ \A j \in 1..Len(chain) :
               chain'[j] = IF j = i THEN Tampered(chain[j]) ELSE chain[j]
          /\ UNCHANGED confirmed /\ file' \in {TornFile, file}
          /\ \/ phase' = "saving" /\ mode' = "tamper"
            \/ phase' = "idle"
      BY <1>7, TamperStep
    <2>2. \A j \in 1..Len(chain) : Saved(chain[j]) /\ IsBlock(chain[j])
      BY <2>1 DEF Provenance, Settled, IsBlockSeq
    <2>3. \A j \in 1..Len(chain) : Saved(Tampered(chain[j]))
      BY <2>2, SavedTampered
    <2>4. \A j \in 1..Len(chain') : Saved(chain'[j]) /\ Settled(j)'
      BY <2>1, <2>2, <2>3 DEF Settled
    <2> QED
      BY <2>1, <2>4, ProvenanceKept
  <1>8. CASE /\ UNCHANGED <<chain, file, confirmed>>
             /\ \/ UNCHANGED <<phase, mode>>
                \/ phase # "saving" /\ phase' # "saving"
    <2>1. \A i \in 1..Len(chain) : Settled(i)' <=> Settled(i)
      BY <1>8 DEF Settled
    <2> QED
      BY <1>8, <2>1, ProvenanceKept DEF Provenance
  <1> QED
    BY <1>1, <1>2, <1>3, <1>4, <1>5, <1>6, <1>7, <1>8, QuietSteps

\* Every block of the chain and of the file was hashed, signed and saved as
\* mined, and at most its status was changed since (blockchain_tamper_demo),
\* under every fault and for every value of the constants.
THEOREM AlwaysFromMining == Spec => []Provenance
  BY TypeInit, TypeNext, ProvenanceInit, ProvenanceNext, PTL DEF Spec

-----------------------------------------------------------------------------
(* What validate establishes. *)

LEMMA ValidBlockWasSaved ==
  ASSUME TypeOK, Provenance, NEW b, IsBlock(b), Saved(b),
         ComputeBlockHash(b) = b.hash
  PROVE  b \in confirmed
  <1>1. PICK c \in confirmed : b = [c EXCEPT !.status = b.status]
    BY DEF Saved
  <1>2. IsBlock(c) /\ c.hash = ComputeBlockHash(c)
    BY DEF TypeOK, Provenance, Sealed
  <1>3. b.hash = c.hash
    BY <1>1, <1>2 DEF IsBlock
  <1>4. b.status = c.status
    BY <1>2, <1>3 DEF ComputeBlockHash, HashPayload
  <1>5. b = c
    BY <1>1, <1>2, <1>4 DEF IsBlock
  <1> QED
    BY <1>5

LEMMA TamperEvidence == TypeOK /\ Provenance => TamperEvident
  <1> SUFFICES ASSUME TypeOK, Provenance, phase # "saving",
                      NEW d \in MIN_DIFFICULTY..MAX_DIFFICULTY,
                      BlockchainValidate(chain, d),
                      NEW i \in 1..Len(chain)
               PROVE  chain[i] \in confirmed
    <2>1. DOMAIN chain = 1..Len(chain)
      BY DEF TypeOK, IsChain, IsBlockSeq
    <2> QED
      BY <2>1 DEF TamperEvident, Range
  <1>1. Saved(chain[i]) /\ IsBlock(chain[i])
    BY DEF Provenance, Settled, TypeOK, IsChain, IsBlockSeq
  <1>2. ComputeBlockHash(chain[i]) = chain[i].hash
    BY DEF BlockchainValidate, BlockValid
  <1> QED
    BY <1>1, <1>2, ValidBlockWasSaved

LEMMA HonestyPasses == TypeOK /\ ChainLinked /\ Provenance => HonestChainValidates
  <1> SUFFICES ASSUME TypeOK, ChainLinked, Provenance,
                      phase \notin {"down", "saving"}, Range(chain) \subseteq confirmed,
                      NEW d \in MIN_DIFFICULTY..MAX_DIFFICULTY,
                      Unexceptional(chain, d)
               PROVE  BlockchainValidate(chain, d)
    BY DEF HonestChainValidates
  <1>1. IsBlockSeq(chain) /\ Len(chain) \in Nat /\ Len(chain) > 0
    BY DEF TypeOK, PhaseOK, IsChain, IsBlockSeq
  <1> SUFFICES ASSUME NEW i \in 1..Len(chain) PROVE BlockValid(chain, i, d)
    BY <1>1 DEF BlockchainValidate
  <1>2. IsBlock(chain[i]) /\ chain[i] \in confirmed
    BY <1>1 DEF IsBlockSeq, Range
  <1>3. ComputeBlockHash(chain[i]) = chain[i].hash
    BY <1>2 DEF Provenance, Sealed
  <1>4. i > 1 => HashMeetsDifficulty(chain[i].hash, d)
    <2>1. chain[i].hash.nonce = chain[i].nonce
      BY <1>3 DEF ComputeBlockHash, HashPayload
    <2> QED
      BY <2>1 DEF Unexceptional, HashMeetsDifficulty, LeadingZeros,
        MIN_DIFFICULTY, MAX_DIFFICULTY
  <1>5. chain[i].previous_hash = IF i = 1 THEN GENESIS_PREV_HASH
                                          ELSE chain[i - 1].hash
    BY DEF ChainLinked, Linked
  <1>6. VerifyBlockSignature(chain[i])
    BY <1>2 DEF VerifyBlockSignature, Provenance, Sealed, Unexceptional
  <1> QED
    BY <1>3, <1>4, <1>5, <1>6 DEF BlockValid

\* Whatever is typed and whatever fails, a chain that passes validate consists
\* of blocks as they were mined and saved (blockchain_validate).
THEOREM TamperingIsDetected == Spec => []TamperEvident
  BY TypeCorrect, AlwaysFromMining, TamperEvidence, PTL

\* Conversely a chain of blocks as they were mined and saved passes validate at
\* every difficulty its hashes meet, signatures that end in a zero byte aside.
THEOREM HonestyIsRewarded == Spec => []HonestChainValidates
  BY TypeCorrect, AlwaysLinked, AlwaysFromMining, HonestyPasses, PTL
=============================================================================
