----------------------------- MODULE Blockchain -----------------------------
(***************************************************************************)
(* Blocks, their digests and signatures, and the validation of a chain     *)
(* (crypto.c, blockchain.c and the hash target of mining.c), as operators  *)
(* on values.  Three abstractions:                                         *)
(*                                                                         *)
(*  - SHA-256 is injective: a digest is the record of the fields that      *)
(*    serialize_block_payload prints.                                      *)
(*  - All a nonce does is to give the digest a number of leading zeros, so *)
(*    the nonce of a block stands for that number.                         *)
(*  - A signature is what it signs, and whether its DER encoding ends in a *)
(*    zero byte ("clipped"): signature_length measures the stored buffer   *)
(*    by stripping trailing zeros, so such a signature is verified one     *)
(*    byte short and refused.                                              *)
(***************************************************************************)
EXTENDS Attendance

CONSTANTS NONE,              \* a zeroed field: the transaction_id of an absence
          GENESIS,           \* the student id of the genesis block
          GENESIS_PREV_HASH  \* sixty-four '0' characters

SignaturePayload(b) ==
  [index |-> b.index, timestamp |-> b.timestamp, student_id |-> b.student_id,
   status |-> b.status, token_reward |-> b.token_reward,
   transaction_id |-> b.transaction_id, previous_hash |-> b.previous_hash]

HashPayload(b) ==
  [index |-> b.index, timestamp |-> b.timestamp, student_id |-> b.student_id,
   status |-> b.status, token_reward |-> b.token_reward,
   transaction_id |-> b.transaction_id, previous_hash |-> b.previous_hash,
   nonce |-> b.nonce]

ComputeBlockHash(b) == HashPayload(b)

LeadingZeros(hash) == hash.nonce

HashMeetsDifficulty(hash, difficulty) ==
  difficulty >= 1 /\ LeadingZeros(hash) >= difficulty

SignBlock(b, clipped) ==
  [b EXCEPT !.signature = [over |-> SignaturePayload(b), clipped |-> clipped]]

VerifyBlockSignature(b) ==
  /\ ~b.signature.clipped
  /\ b.signature.over = SignaturePayload(b)

\* The transaction_id a pending block is given.
TransactionIdFor(owner, reward) ==
  IF reward > 0 THEN RewardTransaction(owner, reward) ELSE NONE

\* A zeroed block with the fields its creator fills in.
NewBlock(index, timestamp, student, status, reward, prev) ==
  [index |-> index, timestamp |-> timestamp, student_id |-> student,
   status |-> status, token_reward |-> reward,
   transaction_id |-> TransactionIdFor(student, reward), nonce |-> 0,
   previous_hash |-> prev, signature |-> [over |-> NONE, clipped |-> FALSE],
   hash |-> GENESIS_PREV_HASH]

GenesisBlock(timestamp, clipped) ==
  LET signed == SignBlock(NewBlock(0, timestamp, GENESIS, "PRESENT", 0,
                                   GENESIS_PREV_HASH), clipped)
  IN  [signed EXCEPT !.hash = ComputeBlockHash(signed)]

Tip(chain) == chain[Len(chain)]

\* Variants with a bug: the block stays linked to what was the tip when it was
\* marked, or it is not signed again.
PrepareWithOldLink(b, chain, clipped) ==
  SignBlock([b EXCEPT !.index = Tip(chain).index + 1, !.nonce = 0], clipped)

PrepareUnsigned(b, chain, clipped) ==
  [b EXCEPT !.index = Tip(chain).index + 1,
            !.previous_hash = Tip(chain).hash, !.nonce = 0]

\* Link a pending block to the tip and sign it again.
PrepareForMining(b, chain, clipped) ==
  SignBlock([b EXCEPT !.index = Tip(chain).index + 1,
                      !.previous_hash = Tip(chain).hash,
                      !.nonce = 0], clipped)

\* The block mine_block_pow leaves: its digest has the given leading zeros.
Mined(b, zeros) ==
  LET solved == [b EXCEPT !.nonce = zeros]
  IN  [solved EXCEPT !.hash = ComputeBlockHash(solved)]

\* The checks blockchain_validate makes of the block at position i.
BlockValid(chain, i, difficulty) ==
  LET b == chain[i]
  IN  /\ ComputeBlockHash(b) = b.hash
      /\ i > 1 => HashMeetsDifficulty(b.hash, difficulty)
      /\ b.previous_hash = IF i = 1 THEN GENESIS_PREV_HASH
                                    ELSE chain[i - 1].hash
      /\ VerifyBlockSignature(b)

\* Variant with a bug: the tip is not looked at.
ValidateBelowTip(chain, difficulty) ==
  Len(chain) > 0 /\ \A i \in 1..(Len(chain) - 1) : BlockValid(chain, i, difficulty)

BlockchainValidate(chain, difficulty) ==
  Len(chain) > 0 /\ \A i \in 1..Len(chain) : BlockValid(chain, i, difficulty)

\* The tamper demo overwrites the status and nothing else.
Tampered(b) ==
  [b EXCEPT !.status = IF @ = "ABSENT" THEN "PRESENT" ELSE "ABSENT"]
=============================================================================
