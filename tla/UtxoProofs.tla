------------------------------ MODULE UtxoProofs ------------------------------
(***************************************************************************)
(* The UTXO model: its types and references, that nothing is spent twice,  *)
(* and that it is a token bank, with references as they are cut off by the *)
(* code and with whole ones.  A transfer is followed from the selection of *)
(* its inputs over their marks to the outputs that it adds.                *)
(***************************************************************************)
EXTENDS UtxoLedger, NumberLemmas

IsSequence(s) == s \in Seq(Range(s))

\* An entry of the table is an output of the transaction it names.
IsEntry(u) ==
  /\ u = [tx_id |-> u.tx_id, output_index |-> u.output_index, owner |-> u.owner,
          amount |-> u.amount, spent |-> u.spent]
  /\ u.owner \in Owners /\ u.amount \in MachineInts /\ u.spent \in BOOLEAN
  /\ u.output_index \in Nat /\ Len(u.tx_id.outputs) \in Nat
  /\ u.output_index + 1 \in 1..Len(u.tx_id.outputs)
  /\ u.tx_id.outputs[u.output_index + 1] = Output(u.owner, u.amount)
  /\ Len(u.tx_id.inputs) \in 0..MAX_TX_INPUTS

\* The inductive invariant behind the types and the references.
TableOK ==
  /\ IsSequence(outputs) /\ Len(outputs) <= MAX_UTXOS
  /\ \A i \in 1..Len(outputs) : IsEntry(outputs[i])

ReplyOK ==
  /\ reply.verdict \in {"none", "insufficient", "double spend", "failed", "confirmed"}
  /\ {reply.had, reply.needed} \subseteq MachineInts
-----------------------------------------------------------------------------
(* The table. *)

LEMMA TableLength ==
  ASSUME TableOK
  PROVE  /\ Len(outputs) \in 0..MAX_UTXOS /\ Len(outputs) \in Nat
         /\ outputs = [i \in 1..Len(outputs) |-> outputs[i]]
         /\ DOMAIN outputs = 1..Len(outputs)
  <1>1. outputs \in Seq(Range(outputs)) /\ Len(outputs) <= MAX_UTXOS
    BY DEF TableOK, IsSequence
  <1>2. MAX_UTXOS \in Nat
    BY UtxoAssumption
  <1> QED
    BY <1>1, <1>2

LEMMA TableEntries ==
  ASSUME TableOK, NEW i \in 1..Len(outputs)
  PROVE  /\ IsEntry(outputs[i]) /\ outputs[i].owner \in Owners
         /\ outputs[i].amount \in MachineInts /\ outputs[i].amount \in Int
  <1>1. IsEntry(outputs[i])
    BY DEF TableOK
  <1> QED
    BY <1>1, IntIsNumber DEF IsEntry

\* Where entries name the same output they have one owner and one amount.
LEMMA EntriesAgree ==
  ASSUME NEW u, NEW v, IsEntry(u), IsEntry(v), Ref(u) = Ref(v)
  PROVE  u.owner = v.owner /\ u.amount = v.amount
  <1>1. u.tx_id = v.tx_id /\ u.output_index = v.output_index
    BY DEF Ref
  <1>2. Output(u.owner, u.amount) = Output(v.owner, v.amount)
    BY <1>1 DEF IsEntry
  <1> QED
    BY <1>2 DEF Output

\* How many outputs of tx find room in a table of n.
Room(n, tx) == IF Len(tx.outputs) <= MAX_UTXOS - n THEN Len(tx.outputs) ELSE MAX_UTXOS - n

\* t is the table with the outputs of tx for which there is room.
IsExtended(t, table, tx) ==
  /\ Len(table) \in Nat /\ Room(Len(table), tx) \in 0..Len(tx.outputs)
  /\ IsSequence(t) /\ Len(t) = Len(table) + Room(Len(table), tx) /\ Len(t) <= MAX_UTXOS
  /\ \A i \in 1..Len(table) : t[i] = table[i]
  /\ \A i \in 1..Room(Len(table), tx) :
       t[Len(table) + i] = Utxo(tx, i - 1, tx.outputs[i])

LEMMA AddedTable ==
  ASSUME NEW table, IsSequence(table), Len(table) <= MAX_UTXOS,
         NEW tx, Len(tx.outputs) \in Nat
  PROVE  IsExtended(AddOutputs(table, tx), table, tx)
  <1> DEFINE t == AddOutputs(table, tx)
             n == Len(table)
             a == Room(n, tx)
             new == [i \in 1..a |-> Utxo(tx, i - 1, tx.outputs[i])]
  <1>1. n \in Nat /\ a \in Nat /\ a <= Len(tx.outputs) /\ n + a <= MAX_UTXOS
    BY UtxoAssumption DEF IsSequence, Room
  <1>2. t = table \o new
    BY DEF AddOutputs, Room
  <1>3. new \in Seq(Range(new)) /\ Len(new) = a
    <2> DEFINE r == Range(new)
    <2>1. \A i \in 1..a : new[i] \in r
      BY DEF Range
    <2> HIDE DEF r
    <2>2. new \in [1..a -> r]
      BY <2>1
    <2> HIDE DEF new
    <2>3. new \in Seq(r)
      BY <1>1, <2>2
    <2>4. Len(new) = a
      BY <1>1, <2>2
    <2> QED
      BY <2>3, <2>4 DEF r
  <1>4. \A i \in 1..a : new[i] = Utxo(tx, i - 1, tx.outputs[i])
    OBVIOUS
  <1>5. table \in Seq(Range(table))
    BY DEF IsSequence
  <1> HIDE DEF a, new, t
  <1> DEFINE S == Range(table) \cup Range(new)
  <1>6. table \in Seq(S) /\ new \in Seq(S)
    BY <1>3, <1>5
  <1> HIDE DEF S
  <1>7. /\ t \in Seq(S) /\ Len(t) = n + a
        /\ \A i \in 1..n : t[i] = table[i]
        /\ \A i \in 1..a : t[n + i] = new[i]
    <2>1. n = Len(table)
      OBVIOUS
    <2> HIDE DEF n
    <2>2. t \in Seq(S)
      BY <1>2, <1>6
    <2>3. Len(t) = n + a
      BY <1>2, <1>3, <1>6, <2>1
    <2>4. \A i \in 1..n : t[i] = table[i]
      BY <1>2, <1>6, <2>1
    <2>5. \A i \in 1..a : t[n + i] = new[i]
      <3> SUFFICES ASSUME NEW i \in 1..a PROVE t[n + i] = new[i]
        OBVIOUS
      <3>1. n + i \in 1..Len(t) /\ n + i > Len(table) /\ (n + i) - Len(table) = i
        BY <1>1, <2>1, <2>3
      <3> QED
        BY <1>2, <1>3, <1>6, <2>1, <3>1
    <2> QED
      BY <2>2, <2>3, <2>4, <2>5
  <1>8. IsSequence(t)
    <2>1. \A i \in 1..Len(t) : t[i] \in Range(t)
      BY <1>7 DEF Range
    <2>2. Len(t) \in Nat /\ t \in [1..Len(t) -> Range(t)]
      BY <1>7, <2>1
    <2> QED
      BY <2>2 DEF IsSequence
  <1> QED
    BY <1>1, <1>4, <1>7, <1>8 DEF t, a, IsExtended

LEMMA WorthIsInt == ASSUME TableOK, NEW P \in SUBSET (1..Len(outputs))
  PROVE  /\ IsFiniteSet(P) /\ \A i \in P : Amounts[i] \in Int /\ Amounts[i] = outputs[i].amount
         /\ SumFunctionOnSet(Amounts, P) \in Int /\ Worth(P) \in MachineInts
  <1>1. IsFiniteSet(P)
    <2>1. IsFiniteSet(1..Len(outputs))
      BY TableLength, FS_Interval
    <2> QED
      BY <2>1, FS_Subset
  <1>2. \A i \in P : Amounts[i] = outputs[i].amount /\ Amounts[i] \in Int
    BY TableEntries DEF Amounts
  <1>3. SumFunctionOnSet(Amounts, P) \in Int
    BY <1>1, <1>2, SumIsInt
  <1> QED
    BY <1>1, <1>2, <1>3, AsIntType DEF Worth
-----------------------------------------------------------------------------
(* What the loop over the table selects. *)

\* s is a beginning of the owner's unspent positions, in table order; the loop
\* has come to position n and has broken off if it left one out.
Chosen(s, owner, needed, n) ==
  /\ s \in Seq(1..n) /\ Len(s) <= MAX_TX_INPUTS
  /\ \A k \in 1..Len(s) : s[k] \in Spendable(owner)
  /\ \A j, k \in 1..Len(s) : j < k => s[j] < s[k]
  /\ \A k \in 1..Len(s) : \A i \in Spendable(owner) :
       i < s[k] => \E j \in 1..(k - 1) : s[j] = i
  /\ \/ Sufficient(s, needed)
     \/ \A i \in Spendable(owner) : i <= n => \E j \in 1..Len(s) : s[j] = i

LEMMA ChosenNext ==
  ASSUME NEW n \in Nat, NEW s, NEW owner, NEW needed, Chosen(s, owner, needed, n),
         NEW t, t = IF n + 1 \in Spendable(owner) /\ ~Sufficient(s, needed)
                    THEN Append(s, n + 1) ELSE s
  PROVE  Chosen(t, owner, needed, n + 1)
  <1>0. Spendable(owner) \subseteq Int /\ s \in Seq(1..n) /\ Len(s) \in Nat
        /\ 1..n \subseteq 1..(n + 1)
    BY DEF Spendable, Chosen
  <1>a. s \in Seq(1..(n + 1))
    BY <1>0
  <1>1. CASE n + 1 \in Spendable(owner) /\ ~Sufficient(s, needed)
    <2>1. /\ t = Append(s, n + 1) /\ Len(t) = Len(s) + 1 /\ t[Len(t)] = n + 1
          /\ \A k \in 1..Len(s) : t[k] = s[k]
          /\ t \in Seq(1..(n + 1))
      BY <1>0, <1>1, <1>a
    <2>b. \A k \in 1..Len(t) : k \in 1..Len(s) \/ k = Len(t)
      BY <1>0, <2>1
    <2>2. Len(t) <= MAX_TX_INPUTS
      BY <1>0, <1>1, <2>1, UtxoAssumption DEF Sufficient
    <2>3. \A i \in Spendable(owner) : i <= n => \E j \in 1..Len(s) : s[j] = i
      BY <1>1 DEF Chosen
    <2>4. \A k \in 1..Len(s) : s[k] \in 1..n
      BY <1>0
    <2>5. \A k \in 1..Len(t) : t[k] \in Spendable(owner)
      <3> SUFFICES ASSUME NEW k \in 1..Len(t) PROVE t[k] \in Spendable(owner)
        OBVIOUS
      <3>1. k \in 1..Len(s) \/ k = Len(t)
        BY <1>0, <2>1
      <3> QED
        BY <1>1, <2>1, <3>1 DEF Chosen
    <2>6. ASSUME NEW j \in 1..Len(t), NEW k \in 1..Len(t), j < k PROVE t[j] < t[k]
      <3>1. j \in 1..Len(s) /\ (k \in 1..Len(s) \/ k = Len(t))
        BY <1>0, <2>1, <2>6
      <3>2. CASE k \in 1..Len(s)
        BY <2>1, <2>6, <3>1, <3>2 DEF Chosen
      <3>3. CASE k = Len(t)
        BY <2>1, <2>4, <3>1, <3>3
      <3> QED
        BY <3>1, <3>2, <3>3
    <2>7. ASSUME NEW k \in 1..Len(t), NEW i \in Spendable(owner), i < t[k]
          PROVE  \E j \in 1..(k - 1) : t[j] = i
      <3>1. k \in 1..Len(s) \/ k = Len(t)
        BY <2>b
      <3>2. CASE k \in 1..Len(s)
        <4>1. PICK j \in 1..(k - 1) : s[j] = i
          BY <2>1, <2>7, <3>2 DEF Chosen
        <4>2. j \in 1..Len(s)
          BY <1>0, <3>2
        <4> QED
          BY <2>1, <4>1, <4>2
      <3>3. CASE k = Len(t)
        <4>1. i <= n
          BY <1>0, <2>1, <2>7, <3>3
        <4>2. PICK j \in 1..Len(s) : s[j] = i
          BY <2>3, <4>1
        <4>3. j \in 1..(k - 1)
          BY <1>0, <2>1, <3>3
        <4> QED
          BY <2>1, <4>2, <4>3
      <3> QED
        BY <3>1, <3>2, <3>3
    <2>8. ASSUME NEW i \in Spendable(owner), i <= n + 1
          PROVE  \E j \in 1..Len(t) : t[j] = i
      <3>1. CASE i = n + 1
        BY <1>0, <2>1, <3>1, SMTT(30)
      <3>2. CASE i # n + 1
        <4>1. i <= n
          BY <1>0, <2>8, <3>2
        <4>2. PICK j \in 1..Len(s) : s[j] = i
          BY <2>3, <4>1
        <4>3. j \in 1..Len(t)
          BY <1>0, <2>1
        <4> QED
          BY <2>1, <4>2, <4>3
      <3> QED
        BY <3>1, <3>2
    <2> QED
      BY <2>1, <2>2, <2>5, <2>6, <2>7, <2>8 DEF Chosen
  <1>2. CASE ~(n + 1 \in Spendable(owner) /\ ~Sufficient(s, needed))
    <2>1. t = s
      BY <1>2
    <2>2. \/ Sufficient(s, needed)
          \/ \A i \in Spendable(owner) : i <= n + 1 => \E j \in 1..Len(s) : s[j] = i
      <3>1. CASE n + 1 \notin Spendable(owner)
        <4>1. \A i \in Spendable(owner) : i <= n + 1 => i <= n
          BY <1>0, <3>1
        <4> QED
          BY <4>1 DEF Chosen
      <3> QED
        BY <1>2, <3>1
    <2> QED
      BY <1>a, <2>1, <2>2 DEF Chosen
  <1> QED
    BY <1>1, <1>2

\* One turn of the loop.
Scanned(G, owner, needed, i) ==
  IF i = 0 THEN <<>>
  ELSE IF i \in Spendable(owner) /\ ~Sufficient(G[i - 1], needed)
       THEN Append(G[i - 1], i) ELSE G[i - 1]

LEMMA ScanExists ==
  ASSUME Len(outputs) \in Nat, NEW owner, NEW needed
  PROVE  \E G : G = [i \in 0..Len(outputs) |-> Scanned(G, owner, needed, i)]
  <1> DEFINE N == Len(outputs)
             X == Seq(1..N)
             step == [p \in (1..N) \X X |->
                        IF p[1] \in Spendable(owner) /\ ~Sufficient(p[2], needed)
                        THEN Append(p[2], p[1]) ELSE p[2]]
  <1>1. step \in [(1..N) \X X -> X]
    <2> SUFFICES ASSUME NEW i \in 1..N, NEW x \in X
                 PROVE  Append(x, i) \in X
      OBVIOUS
    <2> QED
      OBVIOUS
  <1>2. \A i \in 1..N : \A x \in X :
          step[<<i, x>>] = IF i \in Spendable(owner) /\ ~Sufficient(x, needed)
                           THEN Append(x, i) ELSE x
    OBVIOUS
  <1>3. <<>> \in X /\ N \in Nat
    OBVIOUS
  <1> HIDE DEF step, X, N
  <1>4. PICK G \in [0..N -> X] : IsRun(G, <<>>, step, N)
    BY <1>1, <1>3, Recursion
  <1>5. ASSUME NEW i \in 0..N PROVE G[i] = Scanned(G, owner, needed, i)
    <2>1. CASE i = 0
      BY <1>4, <2>1 DEF IsRun, Scanned
    <2>2. CASE i # 0
      <3>1. i \in 1..N /\ i - 1 \in 0..N
        BY <1>3, <2>2
      <3>2. G[i - 1] \in X /\ G[i] = step[<<i, G[i - 1]>>]
        BY <1>4, <3>1 DEF IsRun
      <3> QED
        BY <1>2, <2>2, <3>1, <3>2 DEF Scanned
    <2> QED
      BY <2>1, <2>2
  <1>6. G = [i \in 0..N |-> Scanned(G, owner, needed, i)]
    BY <1>4, <1>5
  <1> QED
    BY <1>6 DEF N

LEMMA SelectedIsChosen ==
  ASSUME Len(outputs) \in Nat, NEW owner, NEW needed
  PROVE  Chosen(Selected(owner, needed), owner, needed, Len(outputs))
  <1> DEFINE N == Len(outputs)
             G == CHOOSE g : g = [i \in 0..N |-> Scanned(g, owner, needed, i)]
             good == {n \in Nat : n <= N => Chosen(G[n], owner, needed, n)}
  <1>1. Selected(owner, needed) = G[N]
    BY DEF Selected, Scanned
  <1>2. G = [i \in 0..N |-> Scanned(G, owner, needed, i)]
    BY ScanExists
  <1>3. N \in Nat
    OBVIOUS
  <1> HIDE DEF G, N
  <1>4. \A i \in 0..N : G[i] = Scanned(G, owner, needed, i)
    BY <1>2
  <1>5. 0 \in good
    <2>1. G[0] = <<>>
      BY <1>3, <1>4 DEF Scanned
    <2>2. Chosen(<<>>, owner, needed, 0)
      <3>1. \A i \in Spendable(owner) : ~(i <= 0)
        BY DEF Spendable
      <3> QED
        BY <3>1, UtxoAssumption DEF Chosen
    <2> QED
      BY <2>1, <2>2
  <1>6. ASSUME NEW n \in Nat, n \in good PROVE n + 1 \in good
    <2> SUFFICES ASSUME n + 1 <= N PROVE Chosen(G[n + 1], owner, needed, n + 1)
      OBVIOUS
    <2>1. n + 1 \in 0..N /\ n + 1 # 0 /\ (n + 1) - 1 = n
      BY <1>3
    <2>2. G[n + 1] = IF n + 1 \in Spendable(owner) /\ ~Sufficient(G[n], needed)
                     THEN Append(G[n], n + 1) ELSE G[n]
      BY <1>4, <2>1 DEF Scanned
    <2>3. Chosen(G[n], owner, needed, n)
      BY <1>3, <1>6
    <2> QED
      BY <2>2, <2>3, ChosenNext
  <1> HIDE DEF good
  <1>7. N \in good
    BY <1>3, <1>5, <1>6, Induction
  <1> QED
    BY <1>1, <1>3, <1>7 DEF good, N
-----------------------------------------------------------------------------
(* What marking inputs as spent does. *)

\* The buffer of a reference holds a digest, a colon and a digit.
WideRefs == REF_SIZE - 1 >= HASH_DIGITS + 2

SpentBy(P) ==
  [i \in 1..Len(outputs) |-> IF i \in P THEN [outputs[i] EXCEPT !.spent = TRUE]
                                       ELSE outputs[i]]

FirstOf(s, k) == {s[j] : j \in 1..k}

LEMMA SpentByFacts ==
  ASSUME TableOK, NEW P
  PROVE  /\ SpentBy(P) \in Seq(Range(SpentBy(P))) /\ Len(SpentBy(P)) = Len(outputs)
         /\ \A i \in 1..Len(outputs) :
              /\ IsEntry(SpentBy(P)[i]) /\ Ref(SpentBy(P)[i]) = Ref(outputs[i])
              /\ (SpentBy(P)[i].spent <=> i \in P \/ outputs[i].spent)
              /\ SpentBy(P)[i].owner = outputs[i].owner
              /\ SpentBy(P)[i].amount = outputs[i].amount
              /\ SpentBy(P)[i].tx_id = outputs[i].tx_id
              /\ SpentBy(P)[i].output_index = outputs[i].output_index
  <1> DEFINE t == SpentBy(P)
  <1>1. \A i \in 1..Len(outputs) :
          t[i] = IF i \in P THEN [outputs[i] EXCEPT !.spent = TRUE] ELSE outputs[i]
    BY DEF SpentBy
  <1>2. t \in [1..Len(outputs) -> Range(t)]
    <2>1. DOMAIN t = 1..Len(outputs) /\ t = [i \in 1..Len(outputs) |-> t[i]]
      BY DEF SpentBy
    <2> HIDE DEF t
    <2>2. \A i \in 1..Len(outputs) : t[i] \in Range(t)
      BY <2>1 DEF Range
    <2> QED
      BY <2>1, <2>2
  <1> HIDE DEF t
  <1>3. t \in Seq(Range(t)) /\ Len(t) = Len(outputs)
    <2>1. Len(outputs) \in Nat
      BY TableLength
    <2> DEFINE r == Range(t)
               n == Len(outputs)
    <2> HIDE DEF r, n
    <2>2. t \in [1..n -> r] /\ n \in Nat
      BY <1>2, <2>1 DEF r, n
    <2>3. t \in Seq(r)
      BY <2>2
    <2>4. Len(t) = n
      BY <2>2
    <2> QED
      BY <2>3, <2>4 DEF r, n
  <1>4. ASSUME NEW i \in 1..Len(outputs)
        PROVE  /\ IsEntry(t[i]) /\ Ref(t[i]) = Ref(outputs[i])
               /\ (t[i].spent <=> i \in P \/ outputs[i].spent)
               /\ t[i].owner = outputs[i].owner /\ t[i].amount = outputs[i].amount
               /\ t[i].tx_id = outputs[i].tx_id
               /\ t[i].output_index = outputs[i].output_index
    <2>1. IsEntry(outputs[i])
      BY TableEntries
    <2> DEFINE u == outputs[i]
    <2>2. u = [tx_id |-> u.tx_id, output_index |-> u.output_index, owner |-> u.owner,
               amount |-> u.amount, spent |-> u.spent]
      BY <2>1 DEF IsEntry
    <2> HIDE DEF u
    <2>3. CASE i \in P
      <3>1. t[i] = [u EXCEPT !.spent = TRUE]
        BY <1>1, <2>3 DEF u
      <3>2. t[i] = [tx_id |-> u.tx_id, output_index |-> u.output_index, owner |-> u.owner,
                    amount |-> u.amount, spent |-> TRUE]
        BY <2>2, <3>1
      <3>3. IsEntry(t[i])
        BY <2>1, <3>2 DEF IsEntry, u
      <3>4. t[i].spent = TRUE
        BY <3>2
      <3> QED
        BY <2>3, <3>2, <3>3, <3>4 DEF Ref, u
    <2>4. CASE i \notin P
      <3>1. t[i] = u
        BY <1>1, <2>4 DEF u
      <3> QED
        BY <2>1, <2>4, <3>1 DEF u
    <2> QED
      BY <2>3, <2>4
  <1> QED
    BY <1>3, <1>4 DEF t

\* An input finds the very output it was selected for: all outputs before it
\* that its reference names are the owner's, selected earlier and marked.
LEMMA MarkNext ==
  ASSUME TableOK, NEW owner, NEW needed, NEW s, Chosen(s, owner, needed, Len(outputs)),
         NEW k \in 1..Len(s)
  PROVE  LET table == SpentBy(FirstOf(s, k - 1))
             ref == Ref(outputs[s[k]])
         IN  /\ Named(table, ref) # {}
             /\ MarkSpent(table, ref) = SpentBy(FirstOf(s, k))
  <1> DEFINE P == FirstOf(s, k - 1)
             t == SpentBy(P)
             p == s[k]
             ref == Ref(outputs[p])
             N == Len(outputs)
  <1>1. /\ N \in Nat /\ p \in 1..N /\ ~outputs[p].spent /\ outputs[p].owner = owner
        /\ Len(s) \in Nat
    BY TableLength DEF Chosen, Spendable
  <1>2. /\ Len(t) = N
        /\ \A i \in 1..N : /\ Ref(t[i]) = Ref(outputs[i])
                           /\ (t[i].spent <=> i \in P \/ outputs[i].spent)
    BY SpentByFacts
  <1>3. p \notin P
    <2> SUFFICES ASSUME NEW j \in 1..(k - 1), s[j] = p PROVE FALSE
      BY DEF FirstOf
    <2>1. j \in 1..Len(s) /\ j < k
      BY <1>1
    <2>2. s[j] < s[k]
      BY <2>1 DEF Chosen
    <2> QED
      BY <1>1, <2>2
  <1>4. \A i \in 1..N : \A j \in 1..N : i < j /\ j = p => i < p
    OBVIOUS
  <1>5. p \in Named(t, ref)
    BY <1>1, <1>2, <1>3 DEF Named
  <1>6. ASSUME NEW i \in Named(t, ref) PROVE p <= i
    <2>1. i \in 1..N /\ ~outputs[i].spent /\ i \notin P /\ Ref(outputs[i]) = ref
      BY <1>2 DEF Named
    <2>2. outputs[i].owner = owner
      BY <1>1, <2>1, EntriesAgree, TableEntries
    <2>3. i \in Spendable(owner)
      BY <2>1, <2>2 DEF Spendable
    <2>4. i < p => i \in P
      BY <2>3 DEF Chosen, FirstOf
    <2> QED
      BY <1>1, <2>1, <2>4
  <1>7. Min(Named(t, ref)) = p
    <2>1. Named(t, ref) \subseteq Int
      BY <1>1, <1>2 DEF Named
    <2> DEFINE S == Named(t, ref)
    <2>2. p \in S /\ (\A y \in S : p <= y) /\ S \subseteq Int
      BY <1>5, <1>6, <2>1
    <2> HIDE DEF S, p
    <2>3. \A x \in S : (\A y \in S : x <= y) => x = p
      BY <2>2
    <2>4. (CHOOSE x \in S : \A y \in S : x <= y) = p
      BY <2>2, <2>3
    <2> QED
      BY <2>4 DEF Min, S
  <1>8. FirstOf(s, k) = P \cup {p}
    <2>1. \A j \in 1..k : j \in 1..(k - 1) \/ j = k
      BY <1>1
    <2>2. \A j \in 1..(k - 1) : j \in 1..k
      BY <1>1
    <2> QED
      BY <2>1, <2>2 DEF FirstOf
  <1>9. [t EXCEPT ![p].spent = TRUE] = SpentBy(P \cup {p})
    <2> DEFINE f == [t EXCEPT ![p].spent = TRUE]
               g == SpentBy(P \cup {p})
    <2>1. DOMAIN t = 1..N /\ t = [i \in 1..N |-> t[i]] /\ t[p] = outputs[p]
      BY <1>1, <1>3 DEF SpentBy
    <2>2. f = [i \in 1..N |-> IF i = p THEN [outputs[p] EXCEPT !.spent = TRUE] ELSE t[i]]
      <3> HIDE DEF t, N, p, P
      <3>1. f = [t EXCEPT ![p] = [t[p] EXCEPT !.spent = TRUE]]
        OBVIOUS
      <3> QED
        BY <2>1, <3>1
    <2>3. \A i \in 1..N :
            g[i] = IF i = p THEN [outputs[p] EXCEPT !.spent = TRUE] ELSE t[i]
      BY DEF SpentBy
    <2>4. g = [i \in 1..N |-> g[i]]
      BY DEF SpentBy
    <2> HIDE DEF f, g, N, t, p, P
    <2> QED
      BY <2>2, <2>3, <2>4 DEF f, g
  <1>10. MarkSpent(t, ref) = [t EXCEPT ![p].spent = TRUE]
    <2> DEFINE S == Named(t, ref)
    <2>1. S # {} /\ Min(S) = p
      BY <1>5, <1>7
    <2>2. MarkSpent(t, ref) = IF S = {} THEN t ELSE [t EXCEPT ![Min(S)].spent = TRUE]
      BY DEF MarkSpent
    <2> HIDE DEF S, t, p, ref
    <2> QED
      BY <2>1, <2>2
  <1> QED
    BY <1>5, <1>8, <1>9, <1>10

\* One call of utxo_mark_spent.
MarkedBefore(g, tx, n) ==
  IF n = 0 THEN outputs ELSE MarkSpent(g[n - 1], tx.inputs[n].utxo_ref)

\* What the marks of a transaction come to is settled by its first step and
\* its next steps, whichever function is chosen to satisfy the recursion.
LEMMA MarkedIs ==
  ASSUME NEW tx, Len(tx.inputs) \in Nat, NEW f,
         f = [n \in 0..Len(tx.inputs) |-> MarkedBefore(f, tx, n)],
         NEW k \in 0..Len(tx.inputs)
  PROVE  Marked(tx, k) = f[k]
  <1> DEFINE N == Len(tx.inputs)
             g == CHOOSE h : h = [n \in 0..N |-> MarkedBefore(h, tx, n)]
             good == {n \in Nat : n <= N => g[n] = f[n]}
  <1>1. Marked(tx, k) = g[k]
    BY DEF Marked, MarkedBefore
  <1>2. g = [n \in 0..N |-> MarkedBefore(g, tx, n)]
    OBVIOUS
  <1>3. N \in Nat /\ k \in 0..N /\ f = [n \in 0..N |-> MarkedBefore(f, tx, n)]
    OBVIOUS
  <1> HIDE DEF g, N
  <1>4. \A n \in 0..N : g[n] = MarkedBefore(g, tx, n) /\ f[n] = MarkedBefore(f, tx, n)
    BY <1>2, <1>3
  <1>5. 0 \in good
    <2>1. 0 \in 0..N
      BY <1>3
    <2>2. g[0] = outputs /\ f[0] = outputs
      BY <1>4, <2>1 DEF MarkedBefore
    <2> QED
      BY <2>2
  <1>6. ASSUME NEW n \in Nat, n \in good PROVE n + 1 \in good
    <2> SUFFICES ASSUME n + 1 <= N PROVE g[n + 1] = f[n + 1]
      OBVIOUS
    <2>1. n + 1 \in 0..N /\ n + 1 # 0 /\ (n + 1) - 1 = n /\ g[n] = f[n]
      BY <1>3, <1>6
    <2> QED
      BY <1>4, <2>1 DEF MarkedBefore
  <1> HIDE DEF good
  <1>7. k \in good
    BY <1>3, <1>5, <1>6, Induction
  <1> QED
    BY <1>1, <1>3, <1>7 DEF good

\* With references that are not truncated the inputs selected are marked, and
\* none of them dangles.
LEMMA AllMarked ==
  ASSUME TableOK, NEW owner, NEW needed, NEW s, Chosen(s, owner, needed, Len(outputs)),
         NEW tx, Len(tx.inputs) = Len(s),
         \A k \in 1..Len(s) : tx.inputs[k].utxo_ref = Ref(outputs[s[k]])
  PROVE  Dangling(tx) = {} /\ Marked(tx, Len(s)) = SpentBy(FirstOf(s, Len(s)))
  <1> DEFINE M == Len(s)
             f == [n \in 0..M |-> SpentBy(FirstOf(s, n))]
  <1>1. M \in Nat /\ Len(tx.inputs) = M
    BY DEF Chosen
  <1>2. \A n \in 0..M : f[n] = SpentBy(FirstOf(s, n))
    OBVIOUS
  <1>3. SpentBy(FirstOf(s, 0)) = outputs
    <2>1. FirstOf(s, 0) = {}
      BY DEF FirstOf
    <2>2. SpentBy({}) = [i \in 1..Len(outputs) |-> outputs[i]]
      BY DEF SpentBy
    <2> QED
      BY <2>1, <2>2, TableLength
  <1>4. \A k \in 1..M : /\ Named(f[k - 1], tx.inputs[k].utxo_ref) # {}
                        /\ MarkSpent(f[k - 1], tx.inputs[k].utxo_ref) = f[k]
    <2> SUFFICES ASSUME NEW k \in 1..M
                 PROVE  /\ Named(f[k - 1], tx.inputs[k].utxo_ref) # {}
                        /\ MarkSpent(f[k - 1], tx.inputs[k].utxo_ref) = f[k]
      OBVIOUS
    <2>1. f[k - 1] = SpentBy(FirstOf(s, k - 1)) /\ f[k] = SpentBy(FirstOf(s, k))
      BY <1>1, <1>2
    <2>2. tx.inputs[k].utxo_ref = Ref(outputs[s[k]])
      OBVIOUS
    <2> HIDE DEF f
    <2> QED
      BY <2>1, <2>2, MarkNext
  <1>5. f = [n \in 0..M |-> f[n]]
    OBVIOUS
  <1> HIDE DEF f, M
  <1>6. ASSUME NEW n \in 0..M PROVE f[n] = MarkedBefore(f, tx, n)
    <2>1. CASE n = 0
      BY <1>2, <1>3, <2>1 DEF MarkedBefore
    <2>2. CASE n # 0
      <3>1. n \in 1..M
        BY <1>1, <2>2
      <3> QED
        BY <1>4, <2>2, <3>1 DEF MarkedBefore
    <2> QED
      BY <2>1, <2>2
  <1>7. f = [n \in 0..M |-> MarkedBefore(f, tx, n)]
    BY <1>5, <1>6
  <1>8. \A k \in 0..M : Marked(tx, k) = f[k]
    BY <1>1, <1>7, MarkedIs
  <1>9. Dangling(tx) = {}
    <2> SUFFICES ASSUME NEW k \in 1..M
                 PROVE  Named(Marked(tx, k - 1), tx.inputs[k].utxo_ref) # {}
      BY <1>1 DEF Dangling
    <2>1. k - 1 \in 0..M
      BY <1>1
    <2> QED
      BY <1>4, <1>8, <2>1
  <1>10. Marked(tx, M) = SpentBy(FirstOf(s, M))
    <2>1. M \in 0..M
      BY <1>1
    <2> QED
      BY <1>2, <1>8, <2>1
  <1> QED
    BY <1>9, <1>10 DEF M

LEMMA NothingSpent == ASSUME TableOK PROVE SpentBy({}) = outputs
  <1>1. SpentBy({}) = [i \in 1..Len(outputs) |-> outputs[i]]
    BY DEF SpentBy
  <1> QED
    BY <1>1, TableLength

\* A truncated reference names no output, so every input dangles.
LEMMA NoneMarked ==
  ASSUME TableOK, ~WideRefs, NEW s, Len(s) \in Nat,
         NEW tx, Len(tx.inputs) = Len(s),
         \A k \in 1..Len(s) : tx.inputs[k].utxo_ref = StoredRef(outputs[s[k]])
  PROVE  /\ Dangling(tx) = 1..Len(s)
         /\ \A k \in 0..Len(s) : Marked(tx, k) = outputs
  <1> DEFINE M == Len(s)
             f == [n \in 0..M |-> outputs]
  <1>1. M \in Nat /\ Len(tx.inputs) = M
    OBVIOUS
  <1>2. \A k \in 1..M : Named(outputs, tx.inputs[k].utxo_ref) = {}
    <2> SUFFICES ASSUME NEW k \in 1..M, NEW i \in 1..Len(outputs)
                 PROVE  Ref(outputs[i]) # StoredRef(outputs[s[k]])
      BY DEF Named
    <2>1. outputs[i].output_index \in Nat
      BY TableEntries DEF IsEntry
    <2>2. Ref(outputs[i]).output_index # -1
      BY <2>1 DEF Ref
    <2>3. StoredRef(outputs[s[k]]).output_index = -1
      BY DEF StoredRef, WideRefs
    <2> QED
      BY <2>2, <2>3
  <1>3. \A n \in 0..M : f[n] = outputs
    OBVIOUS
  <1>4. f = [n \in 0..M |-> f[n]]
    OBVIOUS
  <1> HIDE DEF f, M
  <1>5. ASSUME NEW n \in 0..M PROVE f[n] = MarkedBefore(f, tx, n)
    <2>1. CASE n = 0
      BY <1>3, <2>1 DEF MarkedBefore
    <2>2. CASE n # 0
      <3>1. n \in 1..M /\ n - 1 \in 0..M
        BY <1>1, <2>2
      <3> QED
        BY <1>2, <1>3, <2>2, <3>1 DEF MarkedBefore, MarkSpent
    <2> QED
      BY <2>1, <2>2
  <1>6. f = [n \in 0..M |-> MarkedBefore(f, tx, n)]
    BY <1>4, <1>5
  <1>7. \A k \in 0..M : Marked(tx, k) = outputs
    BY <1>1, <1>3, <1>6, MarkedIs
  <1>8. \A k \in 1..M : k - 1 \in 0..M
    BY <1>1
  <1>9. Dangling(tx) = 1..M
    BY <1>1, <1>2, <1>7, <1>8 DEF Dangling
  <1> QED
    BY <1>7, <1>9 DEF M
-----------------------------------------------------------------------------
(* What a transfer does. *)

Needed(amount) == AsInt(amount + TX_FEE)

Inputs(sender, amount) == Selected(sender, Needed(amount))

Had(sender, amount) == Worth(Range(Inputs(sender, amount)))

Change(sender, amount) ==
  IF Had(sender, amount) > Needed(amount)
  THEN <<Output(sender, AsInt(Had(sender, amount) - Needed(amount)))>> ELSE <<>>

Tx(sender, recipient, amount) ==
  TransferTransaction(Inputs(sender, amount), sender, recipient, amount,
                      Change(sender, amount))

\* The transfer goes through, but for outputs the table has no room for.
Settles(sender, recipient, amount) ==
  /\ Had(sender, amount) >= Needed(amount)
  /\ WideRefs \/ Inputs(sender, amount) = <<>>
  /\ outputs' = AddOutputs(SpentBy(Range(Inputs(sender, amount))),
                           Tx(sender, recipient, amount))

LEMMA InputsFacts ==
  ASSUME TableOK, NEW sender, NEW amount \in MachineInts
  PROVE  LET s == Inputs(sender, amount)
         IN  /\ Chosen(s, sender, Needed(amount), Len(outputs))
             /\ Len(s) \in 0..MAX_TX_INPUTS /\ DOMAIN s = 1..Len(s)
             /\ Range(s) = FirstOf(s, Len(s))
             /\ Range(s) \subseteq Spendable(sender) /\ Range(s) \subseteq 1..Len(outputs)
             /\ Had(sender, amount) \in MachineInts /\ Needed(amount) \in MachineInts
             /\ amount + TX_FEE \in Int
  <1> DEFINE s == Inputs(sender, amount)
  <1>1. Chosen(s, sender, Needed(amount), Len(outputs))
    BY TableLength, SelectedIsChosen DEF Inputs
  <1> HIDE DEF s
  <1>2. Len(s) \in 0..MAX_TX_INPUTS /\ DOMAIN s = 1..Len(s)
    BY <1>1, UtxoAssumption DEF Chosen
  <1>3. Range(s) = FirstOf(s, Len(s))
    BY <1>2 DEF Range, FirstOf
  <1>4. Range(s) \subseteq Spendable(sender) /\ Range(s) \subseteq 1..Len(outputs)
    BY <1>1, <1>2 DEF Chosen, Range, Spendable
  <1>5. Worth(Range(s)) \in MachineInts
    BY <1>4, WorthIsInt
  <1>6. amount + TX_FEE \in Int
    BY IntIsNumber DEF TX_FEE
  <1>7. Needed(amount) \in MachineInts
    BY <1>6, AsIntType DEF Needed
  <1> QED
    BY <1>1, <1>2, <1>3, <1>4, <1>5, <1>6, <1>7 DEF s, Had

LEMMA ChangeType ==
  ASSUME TableOK, NEW sender, NEW amount \in MachineInts
  PROVE  /\ Had(sender, amount) - Needed(amount) \in Int
         /\ AsInt(Had(sender, amount) - Needed(amount)) \in MachineInts
  <1>1. Had(sender, amount) - Needed(amount) \in Int
    BY InputsFacts, IntIsNumber
  <1> QED
    BY <1>1, AsIntType

LEMMA OneAndOne ==
  ASSUME NEW x, NEW y, NEW s, s = <<x>> \o <<y>>
  PROVE  Len(s) = 2 /\ s[1] = x /\ s[2] = y
  <1>1. <<x>> \in Seq({x, y}) /\ <<y>> \in Seq({x, y}) /\ Len(<<x>>) = 1 /\ Len(<<y>>) = 1
    OBVIOUS
  <1> QED
    BY <1>1

LEMMA InputRefs ==
  ASSUME NEW sender, NEW recipient, NEW amount, NEW k \in 1..Len(Inputs(sender, amount))
  PROVE  Tx(sender, recipient, amount).inputs[k].utxo_ref
           = StoredRef(outputs[Inputs(sender, amount)[k]])
  BY DEF Tx, TransferTransaction

LEMMA TxFacts ==
  ASSUME TableOK, NEW sender, NEW recipient, NEW amount \in MachineInts
  PROVE  LET tx == Tx(sender, recipient, amount)
             s == Inputs(sender, amount)
         IN  /\ tx.is_reward = FALSE
             /\ Len(tx.inputs) = Len(s)
             /\ Len(tx.outputs) =
                  IF Had(sender, amount) > Needed(amount) THEN 2 ELSE 1
             /\ tx.outputs[1] = Output(recipient, amount)
             /\ Had(sender, amount) > Needed(amount) =>
                  tx.outputs[2] =
                    Output(sender, AsInt(Had(sender, amount) - Needed(amount)))
  <1> DEFINE tx == Tx(sender, recipient, amount)
             s == Inputs(sender, amount)
             M == Len(s)
             in == [k \in 1..M |-> [utxo_ref |-> StoredRef(outputs[s[k]]),
                                    owner |-> sender, amount |-> outputs[s[k]].amount]]
  <1>1. /\ tx.is_reward = FALSE /\ tx.inputs = in
        /\ tx.outputs = <<Output(recipient, amount)>> \o Change(sender, amount)
    BY DEF Tx, TransferTransaction
  <1>2. M \in Nat
    BY InputsFacts
  <1>3. Len(in) = M
    <2>1. DOMAIN in = 1..M
      OBVIOUS
    <2> DEFINE r == Range(in)
    <2>2. in = [k \in 1..M |-> in[k]] /\ \A k \in 1..M : in[k] \in r
      BY <2>1 DEF Range
    <2> HIDE DEF in, r, M
    <2>3. in \in [1..M -> r]
      BY <2>2
    <2> QED
      BY <1>2, <2>3
  <1>5. CASE Had(sender, amount) > Needed(amount)
    <2>1. /\ Len(tx.outputs) = 2 /\ tx.outputs[1] = Output(recipient, amount)
          /\ tx.outputs[2] = Output(sender, AsInt(Had(sender, amount) - Needed(amount)))
      <3> DEFINE x == Output(recipient, amount)
                 y == Output(sender, AsInt(Had(sender, amount) - Needed(amount)))
      <3>1. tx.outputs = <<x>> \o <<y>>
        BY <1>1, <1>5 DEF Change
      <3> HIDE DEF x, y
      <3>2. /\ Len(tx.outputs) = 2 /\ tx.outputs[1] = x /\ tx.outputs[2] = y
        BY <3>1, OneAndOne
      <3> QED
        BY <3>2 DEF x, y
    <2> QED
      BY <1>1, <1>3, <1>5, <2>1
  <1>6. CASE ~(Had(sender, amount) > Needed(amount))
    <2>1. tx.outputs = <<Output(recipient, amount)>>
      BY <1>1, <1>6 DEF Change
    <2> QED
      BY <1>1, <1>3, <1>6, <2>1
  <1> QED
    BY <1>5, <1>6

LEMMA TransferStep ==
  ASSUME TableOK, NEW s \in Registry, NEW r \in Registry, NEW a \in TransferAmounts,
         Transfer(s, r, a)
  PROVE  /\ a > 0 /\ s # r /\ a \in MachineInts /\ ReplyOK'
         /\ UNCHANGED outputs \/ Settles(s, r, a)
  <1> DEFINE tx == Tx(s, r, a)
             in == Inputs(s, a)
             M == Len(in)
  <1>1. a \in MachineInts
    BY UtxoAssumption
  <1>2. /\ a > 0 /\ s # r
        /\ \E v \in {"insufficient", "double spend", "failed", "confirmed"} :
             reply' = [verdict |-> v, had |-> Had(s, a), needed |-> Needed(a)]
        /\ \/ UNCHANGED outputs
           \/ /\ Had(s, a) >= Needed(a) /\ Dangling(tx) # {}
              /\ outputs' = Marked(tx, Min(Dangling(tx)) - 1)
           \/ /\ Had(s, a) >= Needed(a) /\ Dangling(tx) = {}
              /\ outputs' = AddOutputs(Marked(tx, Len(tx.inputs)), tx)
    BY DEF Transfer, Tx, Inputs, Had, Needed, Change
  <1>3. ReplyOK'
    <2>1. Had(s, a) \in MachineInts /\ Needed(a) \in MachineInts
      BY <1>1, InputsFacts
    <2> QED
      <3>1. PICK v \in {"insufficient", "double spend", "failed", "confirmed"} :
              reply' = [verdict |-> v, had |-> Had(s, a), needed |-> Needed(a)]
        BY <1>2
      <3>2. /\ reply'.verdict = v /\ reply'.had = Had(s, a)
            /\ reply'.needed = Needed(a)
        BY <3>1
      <3> QED
        BY <2>1, <3>2 DEF ReplyOK
  <1>4. /\ Chosen(in, s, Needed(a), Len(outputs)) /\ M \in Nat
        /\ Range(in) = FirstOf(in, M) /\ DOMAIN in = 1..M
    BY <1>1, InputsFacts
  <1>5. /\ Len(tx.inputs) = M
        /\ \A k \in 1..M : tx.inputs[k].utxo_ref = StoredRef(outputs[in[k]])
    <2>1. Len(tx.inputs) = M
      BY <1>1, TxFacts
    <2>2. \A k \in 1..M : tx.inputs[k].utxo_ref = StoredRef(outputs[in[k]])
      <3> SUFFICES ASSUME NEW k \in 1..M
                   PROVE  tx.inputs[k].utxo_ref = StoredRef(outputs[in[k]])
        OBVIOUS
      <3> QED
        BY <1>1, InputRefs
    <2> QED
      BY <2>1, <2>2
  <1>6. CASE WideRefs
    <2>1. \A k \in 1..M : tx.inputs[k].utxo_ref = Ref(outputs[in[k]])
      BY <1>5, <1>6 DEF StoredRef, WideRefs
    <2> HIDE DEF tx, in
    <2>2. Dangling(tx) = {} /\ Marked(tx, M) = SpentBy(FirstOf(in, M))
      BY <1>4, <1>5, <2>1, AllMarked
    <2>3. UNCHANGED outputs \/ Settles(s, r, a)
      BY <1>2, <1>4, <1>5, <1>6, <2>2 DEF Settles, tx, in
    <2> QED
      BY <1>1, <1>2, <1>3, <2>3
  <1>7. CASE ~WideRefs
    <2> HIDE DEF tx, in
    <2>1. Dangling(tx) = 1..M /\ \A k \in 0..M : Marked(tx, k) = outputs
      BY <1>4, <1>5, <1>7, NoneMarked
    <2>2. CASE M = 0
      <3>1. Dangling(tx) = {} /\ Marked(tx, M) = outputs
        BY <2>1, <2>2
      <3>2. in = <<>> /\ Range(in) = {}
        BY <1>4, <2>2 DEF Chosen, FirstOf
      <3>3. SpentBy(Range(in)) = outputs
        BY <3>2, NothingSpent
      <3>4. UNCHANGED outputs \/ Settles(s, r, a)
        BY <1>2, <1>5, <3>1, <3>2, <3>3 DEF Settles, tx, in
      <3> QED
        BY <1>1, <1>2, <1>3, <3>4
    <2>3. CASE M # 0
      <3>1. Dangling(tx) # {} /\ Dangling(tx) = 1..M
        BY <1>4, <2>1, <2>3
      <3>2. Min(Dangling(tx)) - 1 \in 0..M
        <4>1. 1 \in 1..M /\ \A y \in 1..M : 1 <= y
          BY <1>4, <2>3
        <4> HIDE DEF M
        <4>2. (CHOOSE x \in 1..M : \A y \in 1..M : x <= y) \in 1..M
          BY <4>1
        <4>3. Min(1..M) \in 1..M
          BY <4>2 DEF Min
        <4> QED
          BY <1>4, <3>1, <4>3
      <3>3. UNCHANGED outputs
        BY <1>2, <2>1, <3>1, <3>2
      <3> QED
        BY <1>1, <1>2, <1>3, <3>3
    <2> QED
      BY <1>4, <2>2, <2>3
  <1> QED
    BY <1>6, <1>7

CreditAmounts == {NetReward(r) : r \in Rewards} \cup MinerAmounts

\* A credit of one output for o.
Credits(o, a) ==
  /\ o \in Owners /\ a \in MachineInts /\ a >= 0 /\ a \in CreditAmounts
  /\ \E tx : /\ tx.is_reward = TRUE /\ tx.inputs = <<>> /\ tx.outputs = <<Output(o, a)>>
             /\ outputs' = AddOutputs(outputs, tx)

\* Both commands that credit an owner do so with one output.
LEMMA RewardIsCredit ==
  ASSUME NEW s \in Registry, NEW reward \in Rewards, ApplyReward(s, reward)
  PROVE  /\ UNCHANGED reply /\ Credits(s, NetReward(reward))
         /\ s \in Owners /\ NetReward(reward) \in MachineInts
  <1>1. NetReward(reward) \in MachineInts /\ NetReward(reward) >= 0
    BY UtxoAssumption, IntMaxAssumption
      DEF ApplyReward, NetReward, TX_FEE, MachineInts, INT_MIN
  <1>2. /\ UNCHANGED reply /\ outputs' = AddOutputs(outputs, RewardTransaction(s, reward))
        /\ NetReward(reward) \in CreditAmounts /\ s \in Owners
    BY DEF ApplyReward, Apply, CreditAmounts, Owners
  <1>3. Credits(s, NetReward(reward))
    BY <1>1, <1>2 DEF Credits, RewardTransaction
  <1> QED
    BY <1>1, <1>2, <1>3

LEMMA MinerCreditIsCredit ==
  ASSUME NEW m \in Miners, NEW a \in MinerAmounts, CreditMiner(m, a)
  PROVE  UNCHANGED reply /\ Credits(m, a) /\ m \in Owners /\ a \in MachineInts
  <1>1. a \in MachineInts /\ a >= 0
    BY UtxoAssumption, IntIsNumber DEF CreditMiner
  <1>2. /\ UNCHANGED reply /\ outputs' = AddOutputs(outputs, MinerTransaction(m, a))
        /\ a \in CreditAmounts /\ m \in Owners
    BY DEF CreditMiner, Apply, CreditAmounts, Owners
  <1>3. Credits(m, a)
    BY <1>1, <1>2 DEF Credits, MinerTransaction
  <1> QED
    BY <1>1, <1>2, <1>3

LEMMA TableSteps ==
  ASSUME TableOK, [Next]_vars
  PROVE  \/ UNCHANGED outputs /\ (ReplyOK' \/ UNCHANGED reply)
         \/ outputs' = <<>> /\ reply' = NoReply
         \/ UNCHANGED reply /\ \E o \in Owners, a \in MachineInts : Credits(o, a)
         \/ /\ ReplyOK'
            /\ \E s, r \in Registry, a \in TransferAmounts :
                 a > 0 /\ s # r /\ a \in MachineInts /\ Settles(s, r, a)
  <1>1. CASE \E s \in Registry, reward \in Rewards : ApplyReward(s, reward)
    BY <1>1, RewardIsCredit
  <1>2. CASE \E m \in Miners, a \in MinerAmounts : CreditMiner(m, a)
    BY <1>2, MinerCreditIsCredit
  <1>3. CASE \E s, r \in Registry, a \in TransferAmounts : Transfer(s, r, a)
    BY <1>3, TransferStep
  <1>4. CASE Reset
    BY <1>4 DEF Reset
  <1>5. CASE UNCHANGED vars
    BY <1>5 DEF vars
  <1> QED
    BY <1>1, <1>2, <1>3, <1>4, <1>5 DEF Next

\* Outputs of a transaction within its limits become entries.
LEMMA GrownTable ==
  ASSUME NEW table, IsSequence(table), Len(table) <= MAX_UTXOS,
         \A i \in 1..Len(table) : IsEntry(table[i]),
         NEW tx, Len(tx.outputs) \in Nat, Len(tx.inputs) \in 0..MAX_TX_INPUTS,
         \A i \in 1..Len(tx.outputs) :
           \E o \in Owners, a \in MachineInts : tx.outputs[i] = Output(o, a)
  PROVE  \A i \in 1..Len(AddOutputs(table, tx)) : IsEntry(AddOutputs(table, tx)[i])
  <1> DEFINE t == AddOutputs(table, tx)
             n == Len(table)
             k == Room(n, tx)
  <1>1. /\ n \in Nat /\ k \in 0..Len(tx.outputs) /\ Len(t) = n + k
        /\ \A i \in 1..n : t[i] = table[i]
        /\ \A i \in 1..k : t[n + i] = Utxo(tx, i - 1, tx.outputs[i])
    <2>1. IsExtended(t, table, tx)
      BY AddedTable
    <2> QED
      BY <2>1 DEF IsExtended
  <1> SUFFICES ASSUME NEW i \in 1..Len(t) PROVE IsEntry(t[i])
    OBVIOUS
  <1> HIDE DEF t, n, k
  <1>2. CASE i \in 1..n
    <2>1. IsEntry(table[i])
      BY <1>2 DEF n
    <2> QED
      BY <1>1, <1>2, <2>1
  <1>3. CASE i \notin 1..n
    <2> DEFINE j == i - n
    <2>1. j \in 1..k /\ j \in 1..Len(tx.outputs) /\ j - 1 \in Nat /\ n + j = i
          /\ (j - 1) + 1 = j
      BY <1>1, <1>3
    <2>2. t[i] = Utxo(tx, j - 1, tx.outputs[j])
      BY <1>1, <2>1
    <2> HIDE DEF j
    <2>3. PICK o \in Owners, a \in MachineInts : tx.outputs[j] = Output(o, a)
      BY <2>1
    <2>4. t[i] = [tx_id |-> tx, output_index |-> j - 1, owner |-> o, amount |-> a,
                  spent |-> FALSE]
      BY <2>2, <2>3 DEF Utxo, Output
    <2> QED
      BY <2>1, <2>3, <2>4 DEF IsEntry
  <1> QED
    BY <1>2, <1>3

\* The outputs of a transfer.
LEMMA TxOutputs ==
  ASSUME TableOK, NEW s \in Registry, NEW r \in Registry, NEW a \in MachineInts
  PROVE  /\ Len(Tx(s, r, a).outputs) \in {1, 2}
         /\ Len(Tx(s, r, a).inputs) \in 0..MAX_TX_INPUTS
         /\ \A i \in 1..Len(Tx(s, r, a).outputs) :
              \E o \in Owners, b \in MachineInts : Tx(s, r, a).outputs[i] = Output(o, b)
  <1> DEFINE tx == Tx(s, r, a)
             change == AsInt(Had(s, a) - Needed(a))
  <1>1. /\ Len(tx.inputs) = Len(Inputs(s, a)) /\ tx.outputs[1] = Output(r, a)
        /\ Len(tx.outputs) = IF Had(s, a) > Needed(a) THEN 2 ELSE 1
        /\ Had(s, a) > Needed(a) => tx.outputs[2] = Output(s, change)
    BY TxFacts, ZenonT(60)
  <1>2. change \in MachineInts /\ Len(Inputs(s, a)) \in 0..MAX_TX_INPUTS
    BY ChangeType, InputsFacts
  <1>3. s \in Owners /\ r \in Owners
    BY DEF Owners
  <1> HIDE DEF tx, change
  <1>4. ASSUME NEW i \in 1..Len(tx.outputs)
        PROVE  \E o \in Owners, b \in MachineInts : tx.outputs[i] = Output(o, b)
    <2>1. i = 1 \/ (i = 2 /\ Had(s, a) > Needed(a))
      BY <1>1
    <2> QED
      BY <1>1, <1>2, <1>3, <2>1
  <1> QED
    BY <1>1, <1>2, <1>4 DEF tx

LEMMA TableInEveryStep ==
  ASSUME TableOK, ReplyOK, [Next]_vars PROVE TableOK' /\ ReplyOK'
  <1>1. CASE UNCHANGED outputs /\ (ReplyOK' \/ UNCHANGED reply)
    BY <1>1 DEF TableOK, ReplyOK
  <1>2. CASE outputs' = <<>> /\ reply' = NoReply
    <2>1. TableOK'
      BY <1>2, UtxoAssumption DEF TableOK, IsSequence
    <2>2. reply'.verdict = "none" /\ reply'.had = 0 /\ reply'.needed = 0
      BY <1>2 DEF NoReply
    <2>3. 0 \in MachineInts
      BY IntMaxAssumption DEF MachineInts, INT_MIN
    <2>4. ReplyOK'
      BY <2>2, <2>3 DEF ReplyOK
    <2> QED
      BY <2>1, <2>4
  <1>3. CASE UNCHANGED reply /\ \E o \in Owners, a \in MachineInts : Credits(o, a)
    <2>1. PICK o \in Owners, a \in MachineInts : Credits(o, a)
      BY <1>3
    <2>2. PICK tx : /\ tx.inputs = <<>> /\ tx.outputs = <<Output(o, a)>>
                    /\ outputs' = AddOutputs(outputs, tx)
      BY <2>1 DEF Credits
    <2>3. /\ Len(tx.outputs) = 1 /\ Len(tx.inputs) \in 0..MAX_TX_INPUTS
          /\ tx.outputs[1] = Output(o, a)
      BY <2>2, UtxoAssumption
    <2>4. \A i \in 1..Len(tx.outputs) :
            \E p \in Owners, b \in MachineInts : tx.outputs[i] = Output(p, b)
      BY <2>3
    <2>5. IsSequence(outputs) /\ Len(outputs) <= MAX_UTXOS /\ Len(tx.outputs) \in Nat
      BY <2>3 DEF TableOK
    <2>6. /\ IsSequence(AddOutputs(outputs, tx))
          /\ Len(AddOutputs(outputs, tx)) <= MAX_UTXOS
      BY <2>5, AddedTable DEF IsExtended
    <2>7. \A i \in 1..Len(AddOutputs(outputs, tx)) : IsEntry(AddOutputs(outputs, tx)[i])
      BY <2>3, <2>4, <2>5, GrownTable DEF TableOK
    <2>8. TableOK'
      BY <2>2, <2>6, <2>7 DEF TableOK
    <2> QED
      BY <1>3, <2>8 DEF ReplyOK
  <1>4. CASE /\ ReplyOK'
             /\ \E s, r \in Registry, a \in TransferAmounts :
                  a > 0 /\ s # r /\ a \in MachineInts /\ Settles(s, r, a)
    <2>1. PICK s \in Registry, r \in Registry, a \in TransferAmounts :
            a \in MachineInts /\ Settles(s, r, a)
      BY <1>4
    <2> DEFINE tx == Tx(s, r, a)
               table == SpentBy(Range(Inputs(s, a)))
    <2>2. outputs' = AddOutputs(table, tx)
      BY <2>1 DEF Settles
    <2>3. /\ Len(tx.outputs) \in {1, 2} /\ Len(tx.inputs) \in 0..MAX_TX_INPUTS
          /\ \A i \in 1..Len(tx.outputs) :
               \E o \in Owners, b \in MachineInts : tx.outputs[i] = Output(o, b)
      BY <2>1, TxOutputs
    <2>4. /\ IsSequence(table) /\ Len(table) <= MAX_UTXOS
          /\ \A i \in 1..Len(table) : IsEntry(table[i])
      BY SpentByFacts, TableLength DEF IsSequence
    <2> HIDE DEF tx, table
    <2>5. IsSequence(AddOutputs(table, tx)) /\ Len(AddOutputs(table, tx)) <= MAX_UTXOS
      BY <2>3, <2>4, AddedTable DEF IsExtended
    <2>6. \A i \in 1..Len(AddOutputs(table, tx)) : IsEntry(AddOutputs(table, tx)[i])
      BY <2>3, <2>4, GrownTable
    <2> QED
      BY <1>4, <2>2, <2>5, <2>6 DEF TableOK
  <1> QED
    BY <1>1, <1>2, <1>3, <1>4, TableSteps

LEMMA TableInit == Init => TableOK /\ ReplyOK
  <1> SUFFICES ASSUME Init PROVE TableOK /\ ReplyOK
    OBVIOUS
  <1>1. TableOK
    BY UtxoAssumption DEF Init, TableOK, IsSequence
  <1>2. ReplyOK
    BY IntMaxAssumption DEF Init, ReplyOK, NoReply, MachineInts, INT_MIN
  <1> QED
    BY <1>1, <1>2

LEMMA TableStays == Spec => [](TableOK /\ ReplyOK)
  <1>1. TableOK /\ ReplyOK /\ [Next]_vars => TableOK' /\ ReplyOK'
    BY TableInEveryStep
  <1> QED
    BY <1>1, TableInit, PTL DEF Spec

LEMMA TableIsTyped == TableOK /\ ReplyOK => TypeOK
  <1> SUFFICES ASSUME TableOK, ReplyOK PROVE TypeOK
    OBVIOUS
  <1>1. Len(outputs) <= MAX_UTXOS
    BY DEF TableOK
  <1>2. ASSUME NEW i \in 1..Len(outputs)
        PROVE  /\ outputs[i].owner \in Owners /\ outputs[i].amount \in MachineInts
               /\ outputs[i].spent \in BOOLEAN
               /\ outputs[i].output_index + 1 \in 1..Len(outputs[i].tx_id.outputs)
               /\ Len(outputs[i].tx_id.inputs) <= MAX_TX_INPUTS
    <2>1. IsEntry(outputs[i])
      BY DEF TableOK
    <2> QED
      BY <2>1, UtxoAssumption DEF IsEntry
  <1>3. /\ reply.verdict \in {"none", "insufficient", "double spend", "failed",
                               "confirmed"}
        /\ {reply.had, reply.needed} \subseteq MachineInts
    BY DEF ReplyOK
  <1> QED
    BY <1>1, <1>2, <1>3 DEF TypeOK

\* The table keeps within its size, and its entries are outputs of the
\* transactions they name, whatever is credited, transferred and emptied
\* (utxo_add, utxo_transfer).
THEOREM UtxoTypeCorrect == Spec => []TypeOK
  BY TableStays, TableIsTyped, PTL

\* Transactions with the same digest are the same, so of several outputs that a
\* reference names it makes no difference which one is marked spent
\* (utxo_mark_spent).
THEOREM ReferencesAreUnambiguous == Spec => []RefsAreUnambiguous
  <1>1. TableOK => RefsAreUnambiguous
    BY EntriesAgree, TableEntries DEF RefsAreUnambiguous
  <1> QED
    BY <1>1, TableStays, PTL
-----------------------------------------------------------------------------
(* What is marked spent has been used as an input, once. *)

Marks(t, ref) == {j \in 1..Len(t) : t[j].spent /\ Ref(t[j]) = ref}

Transfers(t) == {i \in 1..Len(t) : ~t[i].tx_id.is_reward /\ t[i].output_index = 0}

Users(tx, ref) == {k \in 1..Len(tx.inputs) : tx.inputs[k].utxo_ref = ref}

Uses(t, ref) == [i \in 1..Len(t) |-> Cardinality(Users(t[i].tx_id, ref))]

SpentAsUsed(t, ref) ==
  LET times == SumFunctionOnSet(Uses(t, ref), Transfers(t))
  IN  /\ times <= Cardinality(Marks(t, ref))
      /\ Len(t) < MAX_UTXOS => times = Cardinality(Marks(t, ref))

\* The inductive invariant behind NoDoubleSpend: it says of every reference
\* what NoDoubleSpend says of those in the table, for a later transaction may
\* have an output whose reference was used before.
EachIsSpentOnce == \A ref : SpentAsUsed(outputs, ref)

LEMMA MarksAndUses ==
  ASSUME TableOK, NEW ref
  PROVE  /\ IsFiniteSet(Marks(outputs, ref)) /\ IsFiniteSet(Transfers(outputs))
         /\ \A i \in 1..Len(outputs) : Uses(outputs, ref)[i] \in Nat
  <1>1. IsFiniteSet(1..Len(outputs))
    BY TableLength, FS_Interval
  <1>2. IsFiniteSet(Marks(outputs, ref)) /\ IsFiniteSet(Transfers(outputs))
    BY <1>1, FS_Subset DEF Marks, Transfers
  <1>3. ASSUME NEW i \in 1..Len(outputs) PROVE Uses(outputs, ref)[i] \in Nat
    <2> DEFINE M == Len(outputs[i].tx_id.inputs)
    <2>1. M \in Nat
      <3>1. M \in 0..MAX_TX_INPUTS
        BY DEF TableOK, IsEntry
      <3> QED
        BY <3>1, UtxoAssumption
    <2> HIDE DEF M
    <2>2. IsFiniteSet(1..M)
      BY <2>1, FS_Interval
    <2>3. Cardinality(Users(outputs[i].tx_id, ref)) \in Nat
      BY <2>2, FS_Subset, FS_CardinalityType DEF Users, M
    <2> QED
      BY <2>3 DEF Uses
  <1> QED
    BY <1>2, <1>3

\* What utxo_add makes of the table after marking: k outputs more, all of the
\* transaction's unless the table is full then.
Grown(t, P, tx, k) ==
  /\ k \in 0..Len(tx.outputs) /\ Len(t) = Len(outputs) + k
  /\ Len(t) < MAX_UTXOS => k = Len(tx.outputs)
  /\ \A i \in 1..Len(outputs) : t[i] = SpentBy(P)[i]
  /\ \A i \in 1..k : t[Len(outputs) + i] = Utxo(tx, i - 1, tx.outputs[i])

LEMMA SpentAndAdded ==
  ASSUME TableOK, NEW P, NEW tx, Len(tx.outputs) \in Nat
  PROVE  \E k : Grown(AddOutputs(SpentBy(P), tx), P, tx, k)
  <1>1. PICK table : table = SpentBy(P)
    OBVIOUS
  <1>2. IsSequence(table) /\ Len(table) <= MAX_UTXOS /\ Len(table) = Len(outputs)
    BY <1>1, TableLength, SpentByFacts DEF IsSequence
  <1> DEFINE t == AddOutputs(table, tx)
             n == Len(table)
             k == Room(n, tx)
  <1>3. /\ n \in Nat /\ k \in 0..Len(tx.outputs) /\ Len(t) = n + k
        /\ \A i \in 1..n : t[i] = table[i]
        /\ \A i \in 1..k : t[n + i] = Utxo(tx, i - 1, tx.outputs[i])
    <2>1. IsExtended(t, table, tx)
      BY <1>2, AddedTable
    <2> QED
      BY <2>1 DEF IsExtended
  <1>4. Len(t) < MAX_UTXOS => k = Len(tx.outputs)
    BY <1>2, <1>3, UtxoAssumption DEF Room
  <1> HIDE DEF k, t
  <1>5. Grown(t, P, tx, k)
    BY <1>1, <1>2, <1>3, <1>4 DEF Grown
  <1> QED
    BY <1>1, <1>5 DEF t

LEMMA OneMoreUser ==
  ASSUME NEW N \in Nat, NEW T \in SUBSET (1..N), NEW f,
         \A y \in T \cup {N + 1} : f[y] \in Int
  PROVE  SumFunctionOnSet(f, T \cup {N + 1}) = SumFunctionOnSet(f, T) + f[N + 1]
  <1>1. IsFiniteSet(1..N)
    BY FS_Interval
  <1>2. IsFiniteSet(T)
    BY <1>1, FS_Subset
  <1>3. PICK x : x = N + 1
    OBVIOUS
  <1>4. x \notin T
    BY <1>3
  <1>5. \A y \in T \cup {x} : f[y] \in Int
    BY <1>3
  <1>6. SumFunctionOnSet(f, T \cup {x}) = SumFunctionOnSet(f, T) + f[x]
    BY <1>2, <1>4, <1>5, SumWithOneMore
  <1> QED
    BY <1>3, <1>6

\* P are the outputs that the new transaction spends.
Spends(tx, P, ref) ==
  /\ P \in SUBSET (1..Len(outputs)) /\ \A p \in P : ~outputs[p].spent
  /\ Len(tx.outputs) \in {1, 2} /\ Len(tx.inputs) \in Nat
  /\ \/ tx.is_reward = TRUE /\ P = {}
     \/ /\ tx.is_reward = FALSE
        /\ Cardinality({p \in P : Ref(outputs[p]) = ref}) = Cardinality(Users(tx, ref))

LEMMA SpendingIsUsing ==
  ASSUME TableOK, NEW ref, SpentAsUsed(outputs, ref),
         NEW P, NEW tx, Spends(tx, P, ref)
  PROVE  SpentAsUsed(AddOutputs(SpentBy(P), tx), ref)
  <1> SUFFICES ASSUME P \in SUBSET (1..Len(outputs)), \A p \in P : ~outputs[p].spent,
                      Len(tx.outputs) \in {1, 2}, Len(tx.inputs) \in Nat,
                      \/ tx.is_reward = TRUE /\ P = {}
                      \/ /\ tx.is_reward = FALSE
                         /\ Cardinality({p \in P : Ref(outputs[p]) = ref})
                              = Cardinality(Users(tx, ref))
               PROVE  SpentAsUsed(AddOutputs(SpentBy(P), tx), ref)
    BY DEF Spends
  <1> DEFINE N == Len(outputs)
             table == SpentBy(P)
             t == AddOutputs(table, tx)
             M == Len(tx.outputs)
             Q == {p \in P : Ref(outputs[p]) = ref}
             used == Uses(outputs, ref)
             uses == Uses(t, ref)
             T == Transfers(outputs)
  <1>1. N \in Nat /\ Len(table) = N /\ IsSequence(table) /\ N <= MAX_UTXOS
    BY TableLength, SpentByFacts DEF IsSequence
  <1>2. PICK k : Grown(t, P, tx, k)
    <2>1. Len(tx.outputs) \in Nat
      OBVIOUS
    <2> QED
      BY <2>1, SpentAndAdded
  <1>3. /\ k \in 0..M /\ Len(t) = N + k
        /\ Len(t) < MAX_UTXOS => k = M
        /\ \A i \in 1..N : t[i] = table[i]
        /\ \A i \in 1..k : t[N + i] = Utxo(tx, i - 1, tx.outputs[i])
    <2> HIDE DEF t
    <2> QED
      BY <1>2 DEF Grown
  <1>4. \A i \in 1..N :
          /\ t[i].spent <=> i \in P \/ outputs[i].spent
          /\ Ref(t[i]) = Ref(outputs[i])
          /\ t[i].tx_id = outputs[i].tx_id /\ t[i].output_index = outputs[i].output_index
    <2> SUFFICES ASSUME NEW i \in 1..N
                 PROVE  /\ t[i].spent <=> i \in P \/ outputs[i].spent
                        /\ Ref(t[i]) = Ref(outputs[i])
                        /\ t[i].tx_id = outputs[i].tx_id
                        /\ t[i].output_index = outputs[i].output_index
      OBVIOUS
    <2>1. t[i] = table[i]
      BY <1>3
    <2> QED
      BY <2>1, SpentByFacts
  <1>5. \A i \in 1..k : /\ t[N + i].spent = FALSE /\ t[N + i].tx_id = tx
                        /\ t[N + i].output_index = i - 1
    <2> SUFFICES ASSUME NEW i \in 1..k
                 PROVE  /\ t[N + i].spent = FALSE /\ t[N + i].tx_id = tx
                        /\ t[N + i].output_index = i - 1
      OBVIOUS
    <2>1. t[N + i] = Utxo(tx, i - 1, tx.outputs[i])
      BY <1>3
    <2> HIDE DEF t
    <2> QED
      BY <2>1 DEF Utxo
  <1>6. IsFiniteSet(Marks(outputs, ref)) /\ IsFiniteSet(T) /\ \A i \in 1..N : used[i] \in Nat
    BY MarksAndUses
  <1>7. IsFiniteSet(Q) /\ Cardinality(Q) \in Nat
    <2>1. IsFiniteSet(1..N)
      BY <1>1, FS_Interval
    <2> QED
      BY <2>1, FS_Subset, FS_CardinalityType
  <1>8. /\ Len(t) = N + k /\ M \in {1, 2} /\ k \in 0..M
        /\ Len(t) < MAX_UTXOS => k = M
    BY <1>3
  <1> HIDE DEF t, table, N, M
  <1>9. \A i \in 1..Len(t) : i \in 1..N \/ \E j \in 1..k : i = N + j
    <2> SUFFICES ASSUME NEW i \in 1..Len(t), i \notin 1..N PROVE \E j \in 1..k : i = N + j
      OBVIOUS
    <2>1. i - N \in 1..k /\ i = N + (i - N)
      BY <1>1, <1>8
    <2> QED
      BY <2>1
  <1>10. Cardinality(Marks(t, ref)) = Cardinality(Marks(outputs, ref)) + Cardinality(Q)
    <2>1. Marks(outputs, ref) = {j \in 1..N : outputs[j].spent /\ Ref(outputs[j]) = ref}
      BY DEF Marks, N
    <2>2. P \subseteq 1..N /\ 1..N \subseteq 1..Len(t)
      BY <1>1, <1>8 DEF N
    <2>a. \A j \in 1..Len(t) : j \in 1..N \/ t[j].spent = FALSE
      BY <1>5, <1>9
    <2>b. \A j \in 1..N : (t[j].spent /\ Ref(t[j]) = ref) <=>
            (j \in P \/ outputs[j].spent) /\ Ref(outputs[j]) = ref
      BY <1>4
    <2>3. Marks(t, ref) = Marks(outputs, ref) \cup Q
      BY <2>1, <2>2, <2>a, <2>b DEF Marks
    <2>4. Marks(outputs, ref) \cap Q = {}
      BY <2>1
    <2>5. Cardinality(Marks(outputs, ref)) \in Nat
      BY <1>6, FS_CardinalityType
    <2>6. IsFiniteSet(Marks(outputs, ref)) /\ IsFiniteSet(Q)
      BY <1>6, <1>7
    <2> DEFINE marks == Marks(outputs, ref)
    <2>7. Cardinality(marks \cup Q)
            = Cardinality(marks) + Cardinality(Q) - Cardinality(marks \cap Q)
      <3> HIDE DEF Q, marks
      <3> QED
        BY <2>6, FS_Union DEF marks
    <2>8. Cardinality(marks \cap Q) = 0
      BY <2>4, FS_EmptySet
    <2> QED
      BY <1>7, <2>3, <2>5, <2>7, <2>8
  <1>11. T = {i \in 1..N : ~outputs[i].tx_id.is_reward /\ outputs[i].output_index = 0}
    BY DEF Transfers, N
  <1>12. T \subseteq 1..N /\ \A y \in T : used[y] \in Int /\ used[y] = uses[y]
    <2>1. ASSUME NEW y \in 1..N PROVE used[y] \in Int /\ used[y] = uses[y]
      <3>1. y \in 1..Len(outputs) /\ y \in 1..Len(t)
        BY <1>1, <1>8 DEF N
      <3>2. used[y] = Cardinality(Users(outputs[y].tx_id, ref))
        BY <3>1 DEF Uses
      <3>3. uses[y] = Cardinality(Users(t[y].tx_id, ref))
        BY <3>1 DEF Uses
      <3>4. t[y].tx_id = outputs[y].tx_id /\ used[y] \in Nat
        BY <1>4, <1>6
      <3> QED
        BY <3>2, <3>3, <3>4
    <2> QED
      BY <1>11, <2>1
  <1>13. SumFunctionOnSet(used, T) = SumFunctionOnSet(uses, T)
    BY <1>6, <1>12, SameSum
  <1>14. /\ SumFunctionOnSet(used, T) <= Cardinality(Marks(outputs, ref))
         /\ N < MAX_UTXOS => SumFunctionOnSet(used, T) = Cardinality(Marks(outputs, ref))
    BY DEF SpentAsUsed, N
  <1>15. 1..N \subseteq 1..Len(t) /\ N + 1 \notin T
    BY <1>1, <1>8, <1>12
  <1>a. /\ Cardinality(Marks(outputs, ref)) \in Nat
        /\ SumFunctionOnSet(uses, T) \in Int
    <2>1. \A y \in T : uses[y] \in Int
      BY <1>12
    <2> HIDE DEF uses, T
    <2> QED
      BY <1>6, <2>1, FS_CardinalityType, SumIsInt
  <1>b. Len(t) < MAX_UTXOS => N < MAX_UTXOS /\ k # 0
    BY <1>1, <1>8, UtxoAssumption
  <1>16. CASE tx.is_reward = TRUE /\ P = {}
    <2>1. Transfers(t) = T
      BY <1>4, <1>5, <1>9, <1>11, <1>15, <1>16 DEF Transfers
    <2>2. Cardinality(Q) = 0
      BY <1>16, FS_EmptySet
    <2> HIDE DEF uses, T, Q, used
    <2>3. Cardinality(Marks(t, ref)) = Cardinality(Marks(outputs, ref))
      BY <1>10, <1>a, <2>2
    <2> QED
      BY <1>13, <1>14, <1>b, <2>1, <2>3 DEF SpentAsUsed, t, table, uses
  <1>17. CASE /\ tx.is_reward = FALSE
              /\ Cardinality(Q) = Cardinality(Users(tx, ref))
    <2>1. CASE k = 0
      <3>1. Transfers(t) = T
        <4>1. \A i \in 1..Len(t) : i \in 1..N
          BY <1>1, <1>8, <2>1
        <4> QED
          BY <1>4, <1>11, <1>15, <4>1 DEF Transfers
      <3> HIDE DEF uses, T, Q, used
      <3>2. SumFunctionOnSet(uses, T) <= Cardinality(Marks(t, ref))
        BY <1>7, <1>10, <1>13, <1>14, <1>a
      <3>3. ~(Len(t) < MAX_UTXOS)
        BY <1>b, <2>1
      <3> QED
        BY <3>1, <3>2, <3>3 DEF SpentAsUsed, t, table, uses
    <2>2. CASE k # 0
      <3>1. k \in {1, 2}
        BY <1>8, <2>2
      <3>2. \A i \in 1..Len(t) : i \in 1..N \/ i = N + 1 \/ (i = N + 2 /\ 2 \in 1..k)
        BY <1>9, <3>1
      <3>3. /\ t[N + 1].tx_id = tx /\ t[N + 1].output_index = 0
            /\ 2 \in 1..k => t[N + 2].output_index = 1
        BY <1>5, <3>1
      <3>4. N + 1 \in 1..Len(t)
        BY <1>1, <1>8, <3>1
      <3>5. Transfers(t) = T \cup {N + 1}
        BY <1>4, <1>11, <1>15, <1>17, <3>2, <3>3, <3>4 DEF Transfers
      <3>6. uses[N + 1] = Cardinality(Q)
        BY <1>17, <3>3, <3>4 DEF Uses
      <3>7. \A y \in T \cup {N + 1} : uses[y] \in Int
        BY <1>7, <1>12, <3>6
      <3>8. SumFunctionOnSet(uses, T \cup {N + 1}) = SumFunctionOnSet(uses, T) + uses[N + 1]
        <4>1. N \in Nat /\ T \in SUBSET (1..N)
          BY <1>1, <1>12
        <4> HIDE DEF uses, T
        <4> QED
          BY <3>7, <4>1, OneMoreUser
      <3> HIDE DEF uses, T, Q, used
      <3>9. /\ SumFunctionOnSet(uses, Transfers(t))
                 = SumFunctionOnSet(used, T) + Cardinality(Q)
            /\ SumFunctionOnSet(used, T) \in Int
        BY <1>13, <1>a, <3>5, <3>6, <3>8
      <3>10. /\ SumFunctionOnSet(uses, Transfers(t)) <= Cardinality(Marks(t, ref))
             /\ Len(t) < MAX_UTXOS =>
                  SumFunctionOnSet(uses, Transfers(t)) = Cardinality(Marks(t, ref))
        BY <1>7, <1>10, <1>14, <1>a, <1>b, <3>9
      <3> QED
        BY <3>10 DEF SpentAsUsed, t, table, uses
    <2> QED
      BY <2>1, <2>2
  <1> QED
    BY <1>16, <1>17

\* A transfer has as many inputs of one reference as it marks outputs of it.
LEMMA InputsOfOneRef ==
  ASSUME TableOK, NEW s, NEW r, NEW a \in MachineInts,
         WideRefs \/ Inputs(s, a) = <<>>, NEW ref
  PROVE  Cardinality({p \in Range(Inputs(s, a)) : Ref(outputs[p]) = ref})
           = Cardinality(Users(Tx(s, r, a), ref))
  <1> DEFINE in == Inputs(s, a)
             M == Len(in)
             U == Users(Tx(s, r, a), ref)
             Q == {p \in Range(in) : Ref(outputs[p]) = ref}
             f == [k \in U |-> in[k]]
  <1>1. M \in Nat /\ DOMAIN in = 1..M /\ Chosen(in, s, Needed(a), Len(outputs))
    BY InputsFacts
  <1>2. Len(Tx(s, r, a).inputs) = M
    BY TxFacts
  <1>3. ASSUME NEW k \in 1..M
        PROVE  Tx(s, r, a).inputs[k].utxo_ref = Ref(outputs[in[k]])
    <2>1. WideRefs
      <3>1. M # 0
        BY <1>1, <1>3
      <3> QED
        BY <3>1
    <2> QED
      BY <2>1, InputRefs DEF WideRefs, StoredRef
  <1>4. U = {k \in 1..M : Ref(outputs[in[k]]) = ref}
    BY <1>2, <1>3 DEF Users
  <1>5. \A j, k \in 1..M : j < k => in[j] < in[k]
    BY <1>1 DEF Chosen
  <1>6. \A k \in 1..M : in[k] \in Int
    BY <1>1 DEF Chosen
  <1>7. \A p \in Range(in) : \E k \in 1..M : p = in[k]
    BY <1>1 DEF Range
  <1>8. \A k \in 1..M : in[k] \in Range(in)
    BY <1>1 DEF Range
  <1> HIDE DEF in, M, U
  <1>9. f \in Bijection(U, Q)
    <2>1. f \in [U -> Q]
      BY <1>4, <1>8
    <2>2. \A j, k \in U : f[j] = f[k] => j = k
      <3> SUFFICES ASSUME NEW j \in U, NEW k \in U, f[j] = f[k] PROVE j = k
        OBVIOUS
      <3>1. j \in 1..M /\ k \in 1..M /\ in[j] = in[k]
        BY <1>4
      <3>2. in[j] \in Int /\ ~(j < k) /\ ~(k < j)
        BY <1>5, <1>6, <3>1
      <3> QED
        BY <1>1, <3>1, <3>2
    <2>3. \A p \in Q : \E k \in U : f[k] = p
      BY <1>4, <1>7
    <2> QED
      BY <2>1, <2>2, <2>3 DEF Bijection, Injection, Surjection, IsInjective
  <1>10. ExistsBijection(U, Q)
    BY <1>9 DEF ExistsBijection
  <1>11. IsFiniteSet(U)
    <2>1. IsFiniteSet(1..M)
      BY <1>1, FS_Interval
    <2> QED
      BY <1>4, <2>1, FS_Subset
  <1>12. Cardinality(Q) = Cardinality(U)
    BY <1>10, <1>11, FS_Bijection
  <1> QED
    BY <1>12 DEF in, U

LEMMA EmptyIsBalanced == \A ref : SpentAsUsed(<<>>, ref)
  <1> SUFFICES ASSUME NEW ref PROVE SpentAsUsed(<<>>, ref)
    OBVIOUS
  <1>1. Marks(<<>>, ref) = {} /\ Transfers(<<>>) = {}
    BY DEF Marks, Transfers
  <1>2. Cardinality({}) = 0
    BY FS_EmptySet
  <1> QED
    BY <1>1, <1>2, SumOfNone DEF SpentAsUsed

LEMMA SpentOnceInEveryStep ==
  ASSUME TableOK, EachIsSpentOnce, [Next]_vars PROVE EachIsSpentOnce'
  <1> SUFFICES ASSUME NEW ref
               PROVE  SpentAsUsed(outputs', ref)
    BY DEF EachIsSpentOnce
  <1>1. CASE UNCHANGED outputs
    BY <1>1 DEF EachIsSpentOnce
  <1>2. CASE outputs' = <<>>
    BY <1>2, EmptyIsBalanced
  <1>3. CASE \E o \in Owners, a \in MachineInts : Credits(o, a)
    <2>1. PICK o \in Owners, a \in MachineInts : Credits(o, a)
      BY <1>3
    <2>2. PICK tx : /\ tx.is_reward = TRUE /\ tx.inputs = <<>>
                    /\ tx.outputs = <<Output(o, a)>>
                    /\ outputs' = AddOutputs(outputs, tx)
      BY <2>1 DEF Credits
    <2>3. /\ Len(tx.outputs) \in Nat /\ Len(tx.outputs) \in {1, 2} /\ Len(tx.inputs) \in Nat
      BY <2>2
    <2>4. outputs' = AddOutputs(SpentBy({}), tx)
      BY <2>2, NothingSpent
    <2>5. SpentAsUsed(outputs, ref)
      BY DEF EachIsSpentOnce
    <2>6. PICK P : P = {}
      OBVIOUS
    <2>7. P \in SUBSET (1..Len(outputs)) /\ \A p \in P : ~outputs[p].spent
      BY <2>6
    <2>8. Spends(tx, P, ref)
      BY <2>2, <2>3, <2>6, <2>7 DEF Spends
    <2>9. SpentAsUsed(AddOutputs(SpentBy(P), tx), ref)
      BY <2>5, <2>8, SpendingIsUsing
    <2> QED
      BY <2>4, <2>6, <2>9
  <1>4. CASE \E s, r \in Registry, a \in TransferAmounts :
               a > 0 /\ s # r /\ a \in MachineInts /\ Settles(s, r, a)
    <2>1. PICK s \in Registry, r \in Registry, a \in TransferAmounts :
            a \in MachineInts /\ Settles(s, r, a)
      BY <1>4
    <2>2. PICK tx : tx = Tx(s, r, a)
      OBVIOUS
    <2>3. PICK P : P = Range(Inputs(s, a))
      OBVIOUS
    <2>4. outputs' = AddOutputs(SpentBy(P), tx) /\ (WideRefs \/ Inputs(s, a) = <<>>)
      BY <2>1, <2>2, <2>3 DEF Settles
    <2>5. Len(tx.outputs) \in {1, 2} /\ Len(tx.inputs) \in 0..MAX_TX_INPUTS
      BY <2>1, <2>2, TxOutputs
    <2>6. Len(tx.outputs) \in Nat /\ Len(tx.inputs) \in Nat
      BY <2>5, UtxoAssumption
    <2>9. SpentAsUsed(outputs, ref)
      BY DEF EachIsSpentOnce
    <2>10. P \in SUBSET (1..Len(outputs)) /\ P \subseteq Spendable(s)
      BY <2>1, <2>3, InputsFacts
    <2>11. \A p \in P : ~outputs[p].spent
      BY <2>10 DEF Spendable
    <2>12. tx.is_reward = FALSE
      BY <2>1, <2>2, TxFacts
    <2>13. Cardinality({p \in P : Ref(outputs[p]) = ref}) = Cardinality(Users(tx, ref))
      BY <2>1, <2>2, <2>3, <2>4, InputsOfOneRef
    <2>14. Spends(tx, P, ref)
      BY <2>5, <2>6, <2>10, <2>11, <2>12, <2>13 DEF Spends
    <2>15. SpentAsUsed(AddOutputs(SpentBy(P), tx), ref)
      BY <2>9, <2>14, SpendingIsUsing
    <2> QED
      BY <2>4, <2>15
  <1> QED
    BY <1>1, <1>2, <1>3, <1>4, TableSteps

LEMMA SpentOnceInit == Init => EachIsSpentOnce
  BY EmptyIsBalanced DEF Init, EachIsSpentOnce

\* No output is spent twice, and none in vain while the table had room for all
\* outputs: the transfers in the table have used a reference at most as often as
\* outputs of it are marked spent, and exactly as often in a table that is not
\* full (utxo_mark_spent, utxo_transfer).
THEOREM NothingIsSpentTwice == Spec => []NoDoubleSpend
  <1>1. TableOK /\ EachIsSpentOnce /\ ReplyOK /\ [Next]_vars
          => TableOK' /\ EachIsSpentOnce' /\ ReplyOK'
    BY SpentOnceInEveryStep, TableInEveryStep
  <1>2. Init => TableOK /\ EachIsSpentOnce /\ ReplyOK
    BY SpentOnceInit, TableInit
  <1>3. EachIsSpentOnce => NoDoubleSpend
    BY DEF EachIsSpentOnce, NoDoubleSpend, SpentAsUsed, Marks, Uses, Users, Transfers,
           TimesSpent
  <1> QED
    BY <1>1, <1>2, <1>3, PTL DEF Spec
-----------------------------------------------------------------------------
(* What a set of owners holds in the first n outputs of a table. *)

Unspent(t, n, O) == {i \in 1..n : ~t[i].spent /\ t[i].owner \in O}

AmountsOf(t) == [i \in 1..Len(t) |-> t[i].amount]

HeldBy(t, n, O) == SumFunctionOnSet(AmountsOf(t), Unspent(t, n, O))

Value(u, O) == IF ~u.spent /\ u.owner \in O THEN u.amount ELSE 0

Priced(t) == Len(t) \in Nat /\ \A i \in 1..Len(t) : t[i].amount \in Int

LEMMA UnspentFacts ==
  ASSUME NEW t, Priced(t), NEW n \in 0..Len(t), NEW O
  PROVE  /\ IsFiniteSet(Unspent(t, n, O)) /\ Unspent(t, n, O) \subseteq 1..Len(t)
         /\ \A i \in 1..Len(t) : AmountsOf(t)[i] = t[i].amount /\ AmountsOf(t)[i] \in Int
         /\ HeldBy(t, n, O) \in Int
  <1>1. n \in Nat /\ Len(t) \in Nat
    BY DEF Priced
  <1>2. IsFiniteSet(1..n)
    BY <1>1, FS_Interval
  <1>3. IsFiniteSet(Unspent(t, n, O))
    BY <1>2, FS_Subset DEF Unspent
  <1>4. Unspent(t, n, O) \subseteq 1..Len(t)
    BY <1>1 DEF Unspent
  <1>5. \A i \in 1..Len(t) : AmountsOf(t)[i] = t[i].amount /\ AmountsOf(t)[i] \in Int
    BY DEF AmountsOf, Priced
  <1>6. \A i \in Unspent(t, n, O) : AmountsOf(t)[i] \in Int
    BY <1>4, <1>5
  <1>7. HeldBy(t, n, O) \in Int
    BY <1>3, <1>6, SumIsInt DEF HeldBy
  <1> QED
    BY <1>3, <1>4, <1>5, <1>7

LEMMA HeldInNone == ASSUME NEW t, NEW O PROVE HeldBy(t, 0, O) = 0
  <1>1. Unspent(t, 0, O) = {}
    BY DEF Unspent
  <1> QED
    BY <1>1, SumOfNone DEF HeldBy

LEMMA HeldInOneMore ==
  ASSUME NEW t, Priced(t), NEW n \in Nat, n + 1 <= Len(t), NEW O
  PROVE  HeldBy(t, n + 1, O) = HeldBy(t, n, O) + Value(t[n + 1], O)
  <1>1. PICK x : x = n + 1
    OBVIOUS
  <1>2. x \in 1..Len(t) /\ n \in 0..Len(t) /\ x \in 0..Len(t) /\ x \notin 1..n
    BY <1>1 DEF Priced
  <1>3. 1..x = (1..n) \cup {x}
    BY <1>1
  <1> DEFINE S == Unspent(t, n, O)
             f == AmountsOf(t)
  <1>4. /\ IsFiniteSet(S) /\ S \subseteq 1..Len(t)
        /\ \A i \in 1..Len(t) : f[i] = t[i].amount /\ f[i] \in Int
        /\ HeldBy(t, n, O) \in Int
    BY <1>2, UnspentFacts
  <1>5. x \notin S
    BY <1>2 DEF Unspent
  <1>6. CASE ~t[x].spent /\ t[x].owner \in O
    <2>1. Unspent(t, x, O) = S \cup {x}
      BY <1>3, <1>6 DEF Unspent
    <2>2. \A y \in S \cup {x} : f[y] \in Int
      BY <1>2, <1>4
    <2> HIDE DEF S, f
    <2>a. IsFiniteSet(S)
      BY <1>4
    <2>3. SumFunctionOnSet(f, S \cup {x}) = SumFunctionOnSet(f, S) + f[x]
      BY <1>5, <2>2, <2>a, SumWithOneMore
    <2>4. HeldBy(t, x, O) = HeldBy(t, n, O) + f[x]
      BY <2>1, <2>3 DEF HeldBy, S, f
    <2>5. Value(t[x], O) = f[x]
      BY <1>2, <1>4, <1>6 DEF Value
    <2> QED
      BY <1>1, <2>4, <2>5
  <1>7. CASE ~(~t[x].spent /\ t[x].owner \in O)
    <2>1. Unspent(t, x, O) = S
      BY <1>3, <1>7 DEF Unspent
    <2>2. HeldBy(t, x, O) = HeldBy(t, n, O)
      BY <2>1 DEF HeldBy
    <2>3. Value(t[x], O) = 0
      BY <1>7 DEF Value
    <2> QED
      BY <1>1, <1>4, <2>2, <2>3
  <1> QED
    BY <1>6, <1>7

\* Tables that begin alike hold the same there.
LEMMA HeldAlike ==
  ASSUME NEW t, Priced(t), NEW v, Priced(v), NEW n \in 0..Len(t), n <= Len(v), NEW O,
         \A i \in 1..n : /\ t[i].amount = v[i].amount /\ t[i].owner = v[i].owner
                         /\ t[i].spent <=> v[i].spent
  PROVE  HeldBy(t, n, O) = HeldBy(v, n, O)
  <1> DEFINE S == Unspent(t, n, O)
  <1>1. Unspent(v, n, O) = S
    BY DEF Unspent
  <1>2. n \in 0..Len(v) /\ 1..n \subseteq 1..Len(t) /\ 1..n \subseteq 1..Len(v)
    BY DEF Priced
  <1>3. /\ IsFiniteSet(S)
        /\ \A i \in 1..Len(t) : AmountsOf(t)[i] = t[i].amount /\ AmountsOf(t)[i] \in Int
    BY UnspentFacts
  <1>4. \A i \in 1..Len(v) : AmountsOf(v)[i] = v[i].amount /\ AmountsOf(v)[i] \in Int
    BY <1>2, UnspentFacts
  <1>5. S \subseteq 1..n
    BY DEF Unspent
  <1>6. \A y \in S : AmountsOf(t)[y] \in Int /\ AmountsOf(t)[y] = AmountsOf(v)[y]
    BY <1>2, <1>3, <1>4, <1>5
  <1> HIDE DEF S
  <1>7. SumFunctionOnSet(AmountsOf(t), S) = SumFunctionOnSet(AmountsOf(v), S)
    BY <1>3, <1>6, SameSum
  <1> QED
    BY <1>1, <1>7 DEF HeldBy, S

\* Spending outputs of one owner takes their worth from every set it is in.
LEMMA HeldAfterSpending ==
  ASSUME TableOK, NEW o, NEW P \in SUBSET Spendable(o), NEW O
  PROVE  HeldBy(SpentBy(P), Len(outputs), O)
           = HeldBy(outputs, Len(outputs), O)
               - (IF o \in O THEN SumFunctionOnSet(Amounts, P) ELSE 0)
  <1> DEFINE N == Len(outputs)
             t == SpentBy(P)
             S == Unspent(outputs, N, O)
             R == Unspent(t, N, O)
  <1>1. N \in Nat /\ Len(t) = N /\ Amounts = AmountsOf(outputs)
    BY TableLength, SpentByFacts DEF Amounts, AmountsOf
  <1>2. \A i \in 1..N : /\ (t[i].spent <=> i \in P \/ outputs[i].spent)
                        /\ t[i].owner = outputs[i].owner /\ t[i].amount = outputs[i].amount
                        /\ outputs[i].amount \in Int
    BY SpentByFacts, TableEntries
  <1>3. Priced(outputs) /\ Priced(t) /\ N \in 0..Len(outputs) /\ N \in 0..Len(t)
    <2> HIDE DEF t
    <2> QED
      BY <1>1, <1>2 DEF Priced
  <1>4. \A p \in P : p \in 1..N /\ ~outputs[p].spent /\ outputs[p].owner = o
    BY DEF Spendable
  <1>5. /\ IsFiniteSet(S) /\ S \subseteq 1..N /\ HeldBy(outputs, N, O) \in Int
        /\ \A i \in 1..N : Amounts[i] = outputs[i].amount /\ Amounts[i] \in Int
    <2>1. /\ IsFiniteSet(S) /\ S \subseteq 1..Len(outputs)
          /\ \A i \in 1..Len(outputs) : AmountsOf(outputs)[i] = outputs[i].amount
                                        /\ AmountsOf(outputs)[i] \in Int
          /\ HeldBy(outputs, N, O) \in Int
      BY <1>3, UnspentFacts
    <2> QED
      BY <1>1, <2>1
  <1>6. IsFiniteSet(P) /\ SumFunctionOnSet(Amounts, P) \in Int
    <2>1. P \in SUBSET (1..Len(outputs))
      BY <1>4
    <2> QED
      BY <2>1, WorthIsInt
  <1>7. IsFiniteSet(R) /\ R \subseteq 1..N /\ HeldBy(t, N, O) \in Int
        /\ \A i \in 1..N : AmountsOf(t)[i] = t[i].amount /\ AmountsOf(t)[i] \in Int
    <2> HIDE DEF t
    <2> QED
      BY <1>1, <1>3, UnspentFacts
  <1>8. HeldBy(t, N, O) = SumFunctionOnSet(Amounts, R)
    <2>1. \A y \in R : AmountsOf(t)[y] \in Int /\ AmountsOf(t)[y] = Amounts[y]
      BY <1>2, <1>5, <1>7
    <2> HIDE DEF t, R
    <2>2. SumFunctionOnSet(AmountsOf(t), R) = SumFunctionOnSet(Amounts, R)
      BY <1>7, <2>1, SameSum
    <2> QED
      BY <2>2 DEF HeldBy, R
  <1>9. HeldBy(outputs, N, O) = SumFunctionOnSet(Amounts, S)
    BY <1>1 DEF HeldBy
  <1>10. CASE o \in O
    <2>1. S = R \cup P /\ R \cap P = {}
      <3> HIDE DEF t, N
      <3> QED
        BY <1>2, <1>4, <1>10 DEF Unspent
    <2>2. \A y \in R \cup P : Amounts[y] \in Int
      BY <1>4, <1>5, <1>7
    <2> DEFINE f == Amounts
    <2> HIDE DEF t, N, S, R, f
    <2>3. SumFunctionOnSet(f, R \cup P) = SumFunctionOnSet(f, R) + SumFunctionOnSet(f, P)
      <3>1. \A y \in R \cup P : f[y] \in Int
        BY <2>2 DEF f
      <3> QED
        BY <1>6, <1>7, <2>1, <3>1, SumOfUnion
    <2>4. HeldBy(outputs, N, O) = HeldBy(t, N, O) + SumFunctionOnSet(Amounts, P)
      BY <1>8, <1>9, <2>1, <2>3 DEF f
    <2>5. HeldBy(t, N, O) = HeldBy(outputs, N, O) - SumFunctionOnSet(Amounts, P)
      BY <1>5, <1>6, <1>7, <2>4
    <2> QED
      BY <1>10, <2>5 DEF t, N
  <1>11. CASE o \notin O
    <2>1. S = R
      <3> HIDE DEF t, N
      <3> QED
        BY <1>2, <1>4, <1>11 DEF Unspent
    <2>2. HeldBy(t, N, O) = HeldBy(outputs, N, O)
      BY <1>8, <1>9, <2>1
    <2> QED
      BY <1>5, <1>11, <2>2
  <1> QED
    BY <1>10, <1>11

Share(output, O) == IF output.owner \in O THEN output.amount ELSE 0

\* What the first k outputs of tx add to the holdings of O.
Gain(tx, k, O) ==
  (IF k >= 1 THEN Share(tx.outputs[1], O) ELSE 0)
    + (IF k >= 2 THEN Share(tx.outputs[2], O) ELSE 0)

Pays(tx) ==
  /\ Len(tx.outputs) \in {1, 2}
  /\ \A i \in 1..Len(tx.outputs) : tx.outputs[i].amount \in Int

Grows(t, v, tx) ==
  /\ IsSequence(t) /\ Priced(t) /\ Len(t) <= MAX_UTXOS /\ Pays(tx)
  /\ v = AddOutputs(t, tx)

LEMMA GrownFacts ==
  ASSUME NEW t, NEW v, NEW tx, Grows(t, v, tx)
  PROVE  /\ Len(t) \in Nat /\ Room(Len(t), tx) \in {0, 1, 2}
         /\ Room(Len(t), tx) <= Len(tx.outputs)
         /\ Len(v) = Len(t) + Room(Len(t), tx) /\ Priced(v)
         /\ Room(Len(t), tx) < Len(tx.outputs) => Len(v) = MAX_UTXOS
         /\ \A i \in 1..Len(t) : v[i] = t[i]
         /\ \A i \in 1..Room(Len(t), tx) : v[Len(t) + i] = Utxo(tx, i - 1, tx.outputs[i])
  <1> DEFINE n == Len(t)
             k == Room(n, tx)
  <1>1. IsSequence(t) /\ Len(t) <= MAX_UTXOS /\ Len(tx.outputs) \in Nat /\ v = AddOutputs(t, tx)
    BY DEF Grows, Pays
  <1>2. /\ n \in Nat /\ k \in 0..Len(tx.outputs) /\ Len(v) = n + k
        /\ \A i \in 1..n : v[i] = t[i]
        /\ \A i \in 1..k : v[n + i] = Utxo(tx, i - 1, tx.outputs[i])
    <2>1. IsExtended(AddOutputs(t, tx), t, tx)
      BY <1>1, AddedTable
    <2>2. IsExtended(v, t, tx)
      BY <1>1, <2>1
    <2> QED
      BY <2>2 DEF IsExtended
  <1>3. k \in {0, 1, 2} /\ k <= Len(tx.outputs)
    <2> DEFINE m == Len(tx.outputs)
    <2>1. m \in {1, 2}
      BY DEF Grows, Pays
    <2>2. k \in 0..m
      BY <1>2
    <2> HIDE DEF k, m
    <2>3. k \in {0, 1, 2} /\ k <= m
      BY <2>1, <2>2
    <2> QED
      BY <2>3 DEF m
  <1>4. k < Len(tx.outputs) => Len(v) = MAX_UTXOS
    BY <1>1, <1>2, UtxoAssumption DEF Room
  <1> HIDE DEF n, k
  <1>5. ASSUME NEW i \in 1..Len(v) PROVE v[i].amount \in Int
    <2>1. CASE i \in 1..n
      BY <1>2, <2>1 DEF Grows, Priced, n
    <2>2. CASE i \notin 1..n
      <3>1. PICK j : j = i - n
        OBVIOUS
      <3>2. j \in 1..k /\ i = n + j /\ j \in 1..Len(tx.outputs)
        BY <1>2, <1>3, <2>2, <3>1
      <3>3. v[i] = Utxo(tx, j - 1, tx.outputs[j])
        BY <1>2, <3>2
      <3>4. tx.outputs[j].amount \in Int
        BY <3>2 DEF Grows, Pays
      <3> QED
        BY <3>3, <3>4 DEF Utxo
    <2> QED
      BY <2>1, <2>2
  <1>6. Priced(v)
    BY <1>2, <1>3, <1>5 DEF Priced
  <1> QED
    BY <1>2, <1>3, <1>4, <1>6 DEF n, k

LEMMA ValueOfNew ==
  ASSUME NEW tx, NEW i, NEW O
  PROVE  Value(Utxo(tx, i - 1, tx.outputs[i]), O) = Share(tx.outputs[i], O)
  BY DEF Value, Utxo, Share

LEMMA HeldAfterAdding ==
  ASSUME NEW t, NEW v, NEW tx, Grows(t, v, tx), NEW O
  PROVE  HeldBy(v, Len(v), O) = HeldBy(t, Len(t), O) + Gain(tx, Room(Len(t), tx), O)
  <1> DEFINE n == Len(t)
             k == Room(n, tx)
  <1>1. /\ n \in Nat /\ k \in {0, 1, 2} /\ k <= Len(tx.outputs)
        /\ Len(v) = n + k /\ Priced(v) /\ Priced(t)
        /\ \A i \in 1..n : v[i] = t[i]
        /\ \A i \in 1..k : v[n + i] = Utxo(tx, i - 1, tx.outputs[i])
    BY GrownFacts DEF Grows
  <1> HIDE DEF k
  <1>2. n \in 0..Len(t) /\ n <= Len(v) /\ n \in 0..Len(v)
    BY <1>1
  <1>3. HeldBy(t, n, O) = HeldBy(v, n, O) /\ HeldBy(v, n, O) \in Int
    <2>1. \A i \in 1..n : /\ t[i].amount = v[i].amount /\ t[i].owner = v[i].owner
                          /\ t[i].spent <=> v[i].spent
      BY <1>1
    <2>2. Priced(t) /\ Priced(v)
      BY <1>1
    <2> HIDE DEF n
    <2>3. HeldBy(t, n, O) = HeldBy(v, n, O)
      BY <1>2, <2>1, <2>2, HeldAlike
    <2> QED
      BY <1>2, <2>2, <2>3, UnspentFacts
  <1> HIDE DEF n
  <1>4. CASE k = 0
    BY <1>1, <1>3, <1>4 DEF Gain, n, k
  <1>5. ASSUME k >= 1
        PROVE  /\ HeldBy(v, n + 1, O) = HeldBy(v, n, O) + Share(tx.outputs[1], O)
               /\ Share(tx.outputs[1], O) \in Int
    <2>1. 1 \in 1..k /\ n + 1 <= Len(v) /\ 1 \in 1..Len(tx.outputs)
      BY <1>1, <1>5, GrownFacts DEF n, Grows, Pays
    <2>2. v[n + 1] = Utxo(tx, 1 - 1, tx.outputs[1])
      BY <1>1, <2>1
    <2>3. Value(v[n + 1], O) = Share(tx.outputs[1], O)
      BY <2>2, ValueOfNew
    <2>4. HeldBy(v, n + 1, O) = HeldBy(v, n, O) + Value(v[n + 1], O)
      BY <1>1, <2>1, HeldInOneMore
    <2>5. Share(tx.outputs[1], O) \in Int
      BY <2>1 DEF Share, Grows, Pays
    <2> QED
      BY <2>3, <2>4, <2>5
  <1>6. ASSUME k >= 2
        PROVE  /\ HeldBy(v, n + 2, O) = HeldBy(v, n + 1, O) + Share(tx.outputs[2], O)
               /\ Share(tx.outputs[2], O) \in Int
    <2>1. /\ 2 \in 1..k /\ (n + 1) + 1 = n + 2 /\ (n + 1) + 1 <= Len(v) /\ n + 1 \in Nat
          /\ 2 \in 1..Len(tx.outputs)
      BY <1>1, <1>6, GrownFacts DEF n, Grows, Pays
    <2>2. v[n + 2] = Utxo(tx, 2 - 1, tx.outputs[2])
      BY <1>1, <2>1
    <2>3. Value(v[n + 2], O) = Share(tx.outputs[2], O)
      BY <2>2, ValueOfNew
    <2>4. HeldBy(v, (n + 1) + 1, O) = HeldBy(v, n + 1, O) + Value(v[(n + 1) + 1], O)
      BY <1>1, <2>1, HeldInOneMore
    <2>5. Share(tx.outputs[2], O) \in Int
      BY <2>1 DEF Share, Grows, Pays
    <2> QED
      BY <2>1, <2>3, <2>4, <2>5
  <1>7. CASE k = 1
    <2>1. Gain(tx, k, O) = Share(tx.outputs[1], O)
      BY <1>5, <1>7 DEF Gain
    <2> QED
      BY <1>1, <1>3, <1>5, <1>7, <2>1 DEF n, k
  <1>8. CASE k = 2
    <2>1. Gain(tx, k, O) = Share(tx.outputs[1], O) + Share(tx.outputs[2], O)
      BY <1>8 DEF Gain
    <2>2. HeldBy(v, Len(v), O) = HeldBy(v, n, O) + Gain(tx, k, O)
      BY <1>1, <1>3, <1>5, <1>6, <1>8, <2>1
    <2> QED
      BY <1>3, <2>2 DEF n, k
  <1> QED
    BY <1>1, <1>4, <1>7, <1>8
-----------------------------------------------------------------------------
(* Holdings never overflow as long as credits are modest. *)

Modest(most) ==
  /\ most \in Nat /\ MAX_UTXOS * most <= INT_MAX
  /\ \A a \in CreditAmounts : a <= most

\* Hypothesis on the amounts: what the table can be credited is an int, and so
\* is what any transfer costs.
AmountsAreModest ==
  /\ \E most \in 0..INT_MAX : Modest(most)
  /\ \A a \in TransferAmounts : a + TX_FEE <= INT_MAX

\* The inductive invariant behind ImplementsBank: no unspent output is
\* negative, and all of them together are worth no more than was credited.
Solvent(most) ==
  /\ \A i \in 1..Len(outputs) : ~outputs[i].spent => outputs[i].amount >= 0
  /\ HeldBy(outputs, Len(outputs), Owners) <= most * Len(outputs)

LEMMA Product ==
  ASSUME NEW m \in Nat, NEW n \in Nat, NEW d \in Nat
  PROVE  m * n \in Nat /\ m * (n + d) = m * n + m * d /\ m * n <= m * (n + d)
  <1>1. m * n \in Nat /\ m * d \in Nat /\ m * (n + d) = m * n + m * d
    OBVIOUS
  <1> DEFINE x == m * n
             y == m * d
             z == m * (n + d)
  <1>2. x \in Nat /\ y \in Nat /\ z = x + y
    BY <1>1
  <1> HIDE DEF x, y, z
  <1>3. x <= z
    BY <1>2
  <1> QED
    BY <1>1, <1>3 DEF x, z

LEMMA Allowance ==
  ASSUME NEW most, Modest(most), NEW n \in 0..MAX_UTXOS
  PROVE  most * n \in Nat /\ most * n <= INT_MAX
  <1>1. PICK d \in Nat : MAX_UTXOS = n + d
    <2>1. MAX_UTXOS - n \in Nat /\ MAX_UTXOS = n + (MAX_UTXOS - n)
      BY UtxoAssumption
    <2> QED
      BY <2>1
  <1>2. most \in Nat /\ n \in Nat /\ MAX_UTXOS * most <= INT_MAX /\ MAX_UTXOS \in Nat
    BY UtxoAssumption DEF Modest
  <1>3. most * n \in Nat /\ most * n <= most * (n + d)
    BY <1>1, <1>2, Product
  <1>4. MAX_UTXOS * most = most * MAX_UTXOS
    BY <1>2
  <1> DEFINE x == most * n
             y == most * (n + d)
  <1>5. y \in Int /\ y <= INT_MAX
    BY <1>1, <1>2, <1>4
  <1>6. x \in Nat /\ x <= y
    BY <1>3
  <1> HIDE DEF x, y
  <1>7. x <= INT_MAX
    BY <1>5, <1>6, IntMaxAssumption
  <1> QED
    BY <1>6, <1>7 DEF x

LEMMA TableIsPriced == ASSUME TableOK PROVE Priced(outputs)
  BY TableLength, TableEntries DEF Priced

\* What is at P is worth its sum, and an owner's balance is what it holds.
LEMMA CoveredByHoldings ==
  ASSUME TableOK, NEW most, Modest(most), Solvent(most),
         NEW o \in Owners, NEW P \in SUBSET Spendable(o)
  PROVE  LET N == Len(outputs)
             worth == SumFunctionOnSet(Amounts, P)
         IN  /\ worth \in Nat /\ worth <= INT_MAX /\ Worth(P) = worth
             /\ worth <= HeldBy(outputs, N, {o})
             /\ HeldBy(outputs, N, {o}) \in MachineInts
  <1> DEFINE N == Len(outputs)
             worth == SumFunctionOnSet(Amounts, P)
             mine == HeldBy(outputs, N, {o})
             all == HeldBy(outputs, N, Owners)
             S == Unspent(outputs, N, {o})
             A == Unspent(outputs, N, Owners)
             f == Amounts
  <1>1. N \in 0..MAX_UTXOS /\ N \in 0..Len(outputs) /\ Priced(outputs) /\ f = AmountsOf(outputs)
    BY TableLength, TableIsPriced DEF Amounts, AmountsOf
  <1>2. IsFiniteSet(S) /\ mine \in Int
    BY <1>1, UnspentFacts
  <1>3. /\ IsFiniteSet(A) /\ A \subseteq 1..N /\ all \in Int
        /\ \A i \in 1..N : AmountsOf(outputs)[i] = outputs[i].amount
                           /\ AmountsOf(outputs)[i] \in Int
    BY <1>1, UnspentFacts
  <1>4. P \subseteq S /\ S \subseteq A
    BY DEF Spendable, Unspent
  <1>5. \A i \in A : f[i] \in Nat
    <2> SUFFICES ASSUME NEW i \in A PROVE f[i] \in Nat
      OBVIOUS
    <2>1. i \in 1..N /\ ~outputs[i].spent
      BY <1>3 DEF Unspent
    <2>2. outputs[i].amount >= 0
      BY <2>1 DEF Solvent
    <2> QED
      BY <1>1, <1>3, <2>1, <2>2
  <1>6. mine = SumFunctionOnSet(f, S) /\ all = SumFunctionOnSet(f, A)
    BY <1>1 DEF HeldBy
  <1>7. all <= most * N /\ most * N \in Nat /\ most * N <= INT_MAX
    BY <1>1, Allowance DEF Solvent
  <1> HIDE DEF N, mine, all, S, A, f
  <1>8. \A i \in S : f[i] \in Nat
    BY <1>4, <1>5
  <1>9. IsFiniteSet(P) /\ \A i \in P : f[i] \in Nat
    BY <1>2, <1>4, <1>8, FS_Subset
  <1>10. SumFunctionOnSet(f, P) \in Nat
    BY <1>9, SumOfNaturals
  <1>11. SumFunctionOnSet(f, P) <= SumFunctionOnSet(f, S)
    BY <1>2, <1>4, <1>8, SumOfPart
  <1>12. SumFunctionOnSet(f, S) <= SumFunctionOnSet(f, A)
    BY <1>3, <1>4, <1>5, SumOfPart
  <1> DEFINE x == SumFunctionOnSet(f, P)
             limit == most * N
  <1>13. x \in Nat /\ x <= mine /\ mine <= all /\ all <= limit /\ limit \in Nat /\ limit <= INT_MAX
    BY <1>6, <1>7, <1>10, <1>11, <1>12
  <1>14. mine \in Int /\ all \in Int
    BY <1>2, <1>3
  <1> HIDE DEF x, limit
  <1>15. x <= INT_MAX /\ mine \in MachineInts /\ x \in MachineInts
    BY <1>13, <1>14, IntMaxAssumption DEF MachineInts, INT_MIN
  <1>16. Worth(P) = AsInt(x)
    BY DEF Worth, x, f
  <1>17. Worth(P) = x
    BY <1>15, <1>16, AsIntOfInt
  <1> QED
    BY <1>13, <1>15, <1>17 DEF x, f, mine, N

\* A transfer that settles, where nothing overflows.
Settlement(most, s, r, a) ==
  /\ TableOK /\ Modest(most) /\ Solvent(most) /\ AmountsAreModest
  /\ s \in Registry /\ r \in Registry /\ s # r
  /\ a \in TransferAmounts /\ a \in MachineInts /\ a > 0
  /\ Settles(s, r, a)

Taken(s, a) == SumFunctionOnSet(Amounts, Range(Inputs(s, a)))

LEMMA SettlementSums ==
  ASSUME NEW most, NEW s, NEW r, NEW a, Settlement(most, s, r, a)
  PROVE  /\ a \in Nat /\ a > 0 /\ TX_FEE \in Nat /\ TX_FEE > 0
         /\ Taken(s, a) \in Nat /\ Taken(s, a) <= INT_MAX /\ a + TX_FEE <= Taken(s, a)
         /\ Needed(a) = a + TX_FEE /\ Had(s, a) = Taken(s, a)
         /\ Taken(s, a) <= HeldBy(outputs, Len(outputs), {s})
         /\ HeldBy(outputs, Len(outputs), {s}) \in MachineInts
  <1>1. /\ TableOK /\ Modest(most) /\ Solvent(most) /\ s \in Owners /\ a \in MachineInts
        /\ a > 0 /\ a + TX_FEE <= INT_MAX /\ Had(s, a) >= Needed(a)
    BY DEF Settlement, AmountsAreModest, Settles, Owners
  <1>2. a \in Nat /\ a > 0 /\ TX_FEE \in Nat /\ TX_FEE > 0
    BY <1>1, IntIsNumber DEF TX_FEE
  <1>3. a + TX_FEE \in MachineInts
    BY <1>1, <1>2, IntMaxAssumption DEF MachineInts, INT_MIN
  <1>4. Needed(a) = a + TX_FEE
    BY <1>3, AsIntOfInt DEF Needed
  <1>5. PICK P : P = Range(Inputs(s, a))
    OBVIOUS
  <1>6. P \in SUBSET Spendable(s)
    BY <1>1, <1>5, InputsFacts
  <1>7. /\ SumFunctionOnSet(Amounts, P) \in Nat /\ SumFunctionOnSet(Amounts, P) <= INT_MAX
        /\ Worth(P) = SumFunctionOnSet(Amounts, P)
        /\ SumFunctionOnSet(Amounts, P) <= HeldBy(outputs, Len(outputs), {s})
        /\ HeldBy(outputs, Len(outputs), {s}) \in MachineInts
    BY <1>1, <1>6, CoveredByHoldings
  <1>8. Had(s, a) = Taken(s, a) /\ Taken(s, a) = SumFunctionOnSet(Amounts, P)
    BY <1>5, <1>7 DEF Had, Taken
  <1> QED
    BY <1>1, <1>2, <1>4, <1>7, <1>8

LEMMA SettlementTx ==
  ASSUME NEW most, NEW s, NEW r, NEW a, Settlement(most, s, r, a)
  PROVE  LET tx == Tx(s, r, a)
             rest == Taken(s, a) - (a + TX_FEE)
         IN  /\ rest \in Nat
             /\ Len(tx.outputs) = IF rest > 0 THEN 2 ELSE 1
             /\ tx.outputs[1].owner = r /\ tx.outputs[1].amount = a
             /\ rest > 0 => tx.outputs[2].owner = s /\ tx.outputs[2].amount = rest
  <1> DEFINE tx == Tx(s, r, a)
             rest == Taken(s, a) - (a + TX_FEE)
  <1>1. /\ a \in Nat /\ TX_FEE \in Nat
        /\ Taken(s, a) \in Nat /\ Taken(s, a) <= INT_MAX /\ a + TX_FEE <= Taken(s, a)
        /\ Needed(a) = a + TX_FEE /\ Had(s, a) = Taken(s, a)
    BY SettlementSums
  <1>2. rest \in Nat /\ rest \in MachineInts
    BY <1>1, IntMaxAssumption DEF MachineInts, INT_MIN
  <1>3. AsInt(Had(s, a) - Needed(a)) = rest
    BY <1>1, <1>2, AsIntOfInt
  <1>4. Had(s, a) > Needed(a) <=> rest > 0
    BY <1>1
  <1>5. TableOK /\ a \in MachineInts
    BY DEF Settlement
  <1>6. /\ Len(tx.outputs) = IF Had(s, a) > Needed(a) THEN 2 ELSE 1
        /\ tx.outputs[1] = Output(r, a)
        /\ Had(s, a) > Needed(a) =>
             tx.outputs[2] = Output(s, AsInt(Had(s, a) - Needed(a)))
    BY <1>5, TxFacts, ZenonT(60)
  <1> HIDE DEF tx, rest
  <1>7. rest > 0 => tx.outputs[2] = Output(s, rest)
    BY <1>3, <1>4, <1>6
  <1>8. tx.outputs[1].owner = r /\ tx.outputs[1].amount = a
    BY <1>6 DEF Output
  <1>9. rest > 0 => tx.outputs[2].owner = s /\ tx.outputs[2].amount = rest
    BY <1>7 DEF Output
  <1>10. Len(tx.outputs) = IF rest > 0 THEN 2 ELSE 1
    BY <1>4, <1>6
  <1> QED
    BY <1>2, <1>8, <1>9, <1>10 DEF tx, rest

\* The table without the inputs of the transfer, and then with its outputs.
LEMMA SettlementGrows ==
  ASSUME NEW most, NEW s, NEW r, NEW a, Settlement(most, s, r, a)
  PROVE  /\ Grows(SpentBy(Range(Inputs(s, a))), outputs', Tx(s, r, a))
         /\ Len(SpentBy(Range(Inputs(s, a)))) = Len(outputs)
         /\ \A O : HeldBy(SpentBy(Range(Inputs(s, a))), Len(outputs), O)
              = HeldBy(outputs, Len(outputs), O) - (IF s \in O THEN Taken(s, a) ELSE 0)
  <1>1. TableOK /\ a \in MachineInts /\ Settles(s, r, a)
    BY DEF Settlement
  <1>2. PICK P : P = Range(Inputs(s, a))
    OBVIOUS
  <1>3. P \in SUBSET Spendable(s)
    BY <1>1, <1>2, InputsFacts
  <1>4. ASSUME NEW O
        PROVE  HeldBy(SpentBy(P), Len(outputs), O)
                 = HeldBy(outputs, Len(outputs), O) - (IF s \in O THEN Taken(s, a) ELSE 0)
    BY <1>1, <1>2, <1>3, HeldAfterSpending DEF Taken
  <1>5. PICK t : t = SpentBy(P)
    OBVIOUS
  <1>6. Len(t) = Len(outputs) /\ IsSequence(t) /\ Len(t) <= MAX_UTXOS /\ Priced(t)
    <2>1. Len(t) = Len(outputs) /\ IsSequence(t) /\ Len(t) <= MAX_UTXOS /\ Len(t) \in Nat
      BY <1>1, <1>5, SpentByFacts, TableLength DEF IsSequence
    <2>2. ASSUME NEW i \in 1..Len(t) PROVE t[i].amount \in Int
      <3>1. i \in 1..Len(outputs) /\ t[i].amount = outputs[i].amount
        BY <1>1, <1>5, <2>1, SpentByFacts
      <3> QED
        BY <1>1, <3>1, TableEntries
    <2> QED
      BY <2>1, <2>2 DEF Priced
  <1>7. PICK tx : tx = Tx(s, r, a)
    OBVIOUS
  <1>8. Pays(tx)
    <2>1. PICK rest : rest = Taken(s, a) - (a + TX_FEE)
      OBVIOUS
    <2>2. /\ rest \in Nat /\ Len(tx.outputs) = IF rest > 0 THEN 2 ELSE 1
          /\ tx.outputs[1].amount = a
          /\ rest > 0 => tx.outputs[2].amount = rest
      BY <1>7, <2>1, SettlementTx
    <2>3. a \in Int
      BY <1>1, IntIsNumber
    <2>4. ASSUME NEW i \in 1..Len(tx.outputs) PROVE tx.outputs[i].amount \in Int
      <3>1. i = 1 \/ (i = 2 /\ rest > 0)
        BY <2>2
      <3> QED
        BY <2>2, <2>3, <3>1
    <2>5. Len(tx.outputs) \in {1, 2}
      BY <2>2
    <2> QED
      BY <2>4, <2>5 DEF Pays
  <1>9. outputs' = AddOutputs(t, tx)
    BY <1>1, <1>2, <1>5, <1>7 DEF Settles
  <1>10. Grows(t, outputs', tx)
    BY <1>6, <1>8, <1>9 DEF Grows
  <1> QED
    BY <1>2, <1>4, <1>5, <1>6, <1>7, <1>10

\* What the sender is charged and the recipient gets, when k outputs fit.
Charged(s, a, k) ==
  IF k >= 2 \/ Taken(s, a) = a + TX_FEE THEN a + TX_FEE ELSE Taken(s, a)

Received(a, k) == IF k >= 1 THEN a ELSE 0

LEMMA SettlementHoldings ==
  ASSUME NEW most, NEW s, NEW r, NEW a, Settlement(most, s, r, a),
         NEW k, k = Len(outputs') - Len(outputs)
  PROVE  /\ k \in {0, 1, 2} /\ Len(outputs') = Len(outputs) + k
         /\ k < Len(Tx(s, r, a).outputs) => Len(outputs') = MAX_UTXOS
         /\ \A O : HeldBy(outputs', Len(outputs'), O)
                     = HeldBy(outputs, Len(outputs), O)
                         - (IF s \in O THEN Charged(s, a, k) ELSE 0)
                         + (IF r \in O THEN Received(a, k) ELSE 0)
  <1> DEFINE N == Len(outputs)
             had == Taken(s, a)
             need == a + TX_FEE
             rest == had - need
  <1>1. PICK t : t = SpentBy(Range(Inputs(s, a)))
    OBVIOUS
  <1>2. PICK tx : tx = Tx(s, r, a)
    OBVIOUS
  <1>3. /\ Grows(t, outputs', tx) /\ Len(t) = N
        /\ \A O : HeldBy(t, N, O) = HeldBy(outputs, N, O) - (IF s \in O THEN had ELSE 0)
    BY <1>1, <1>2, SettlementGrows
  <1>4. /\ N \in Nat /\ Room(N, tx) \in {0, 1, 2} /\ Room(N, tx) <= Len(tx.outputs)
        /\ Len(outputs') = N + Room(N, tx)
        /\ Room(N, tx) < Len(tx.outputs) => Len(outputs') = MAX_UTXOS
    <2>1. /\ Len(t) \in Nat /\ Room(Len(t), tx) \in {0, 1, 2}
          /\ Room(Len(t), tx) <= Len(tx.outputs)
          /\ Len(outputs') = Len(t) + Room(Len(t), tx)
          /\ Room(Len(t), tx) < Len(tx.outputs) => Len(outputs') = MAX_UTXOS
      BY <1>3, GrownFacts
    <2> QED
      BY <1>3, <2>1
  <1>5. /\ rest \in Nat /\ Len(tx.outputs) = IF rest > 0 THEN 2 ELSE 1
        /\ tx.outputs[1].owner = r /\ tx.outputs[1].amount = a
        /\ rest > 0 => tx.outputs[2].owner = s /\ tx.outputs[2].amount = rest
    BY <1>2, SettlementTx
  <1>6. a \in Nat /\ TX_FEE \in Nat /\ had \in Nat /\ need \in Nat
    <2>1. a \in Nat /\ TX_FEE \in Nat /\ Taken(s, a) \in Nat
      BY SettlementSums
    <2> QED
      BY <2>1
  <1> HIDE DEF N
  <1>7. k = Room(N, tx)
    BY <1>4 DEF N
  <1>8. ASSUME NEW O
        PROVE  HeldBy(outputs', Len(outputs'), O)
                 = HeldBy(outputs, N, O) - (IF s \in O THEN Charged(s, a, k) ELSE 0)
                                         + (IF r \in O THEN Received(a, k) ELSE 0)
    <2>1. HeldBy(outputs', Len(outputs'), O) = HeldBy(t, N, O) + Gain(tx, k, O)
      BY <1>3, <1>7, HeldAfterAdding
    <2>2. HeldBy(t, N, O) = HeldBy(outputs, N, O) - (IF s \in O THEN had ELSE 0)
      BY <1>3
    <2>3. HeldBy(outputs, N, O) \in Int
      <3>1. TableOK /\ Priced(outputs) /\ N \in 0..Len(outputs)
        BY <1>4, TableIsPriced DEF Settlement, N
      <3> QED
        BY <3>1, UnspentFacts
    <2> DEFINE x == HeldBy(outputs, N, O)
               g1 == IF k >= 1 /\ r \in O THEN a ELSE 0
               g2 == IF k >= 2 /\ s \in O THEN rest ELSE 0
    <2>4. Gain(tx, k, O) = g1 + g2
      <3>1. k >= 2 => rest > 0
        BY <1>4, <1>5, <1>7
      <3>2. (IF k >= 1 THEN Share(tx.outputs[1], O) ELSE 0) = g1
        BY <1>5 DEF Share
      <3>3. (IF k >= 2 THEN Share(tx.outputs[2], O) ELSE 0) = g2
        BY <1>5, <3>1 DEF Share
      <3> HIDE DEF g1, g2
      <3> QED
        BY <3>2, <3>3 DEF Gain
    <2>5. k \in {0, 1, 2} /\ (k = 2 => rest > 0)
      BY <1>4, <1>5, <1>7
    <2>6. g1 = IF r \in O THEN Received(a, k) ELSE 0
      BY DEF Received
    <2>7. (IF s \in O THEN had ELSE 0) - g2 = IF s \in O THEN Charged(s, a, k) ELSE 0
      <3> HIDE DEF had
      <3>1. had = Taken(s, a)
        BY DEF had
      <3> QED
        BY <1>5, <1>6, <2>5, <3>1 DEF Charged
    <2>8. g1 \in Int /\ g2 \in Int /\ (IF s \in O THEN had ELSE 0) \in Int
      BY <1>5, <1>6
    <2> DEFINE h == IF s \in O THEN had ELSE 0
               y == HeldBy(outputs', Len(outputs'), O)
               c == IF s \in O THEN Charged(s, a, k) ELSE 0
    <2>9. y = (x - h) + (g1 + g2) /\ h - g2 = c /\ x \in Int /\ h \in Int /\ g1 \in Int /\ g2 \in Int
      BY <2>1, <2>2, <2>3, <2>4, <2>7, <2>8
    <2> HIDE DEF x, g1, g2, h, y, c
    <2>10. y = x - c + g1
      BY <2>9
    <2> QED
      BY <2>6, <2>10 DEF x, y, c
  <1> QED
    BY <1>2, <1>4, <1>7, <1>8 DEF N
-----------------------------------------------------------------------------
(* The table stays solvent. *)

\* Entries that are carried over keep their amount and are unspent only if they
\* were; the new ones are outputs of the transaction.
LEMMA UnspentIsPositive ==
  ASSUME TableOK, \A i \in 1..Len(outputs) : ~outputs[i].spent => outputs[i].amount >= 0,
         NEW P, NEW v, NEW tx, Grows(SpentBy(P), v, tx),
         \A i \in 1..Len(tx.outputs) : tx.outputs[i].amount >= 0
  PROVE  \A i \in 1..Len(v) : ~v[i].spent => v[i].amount >= 0
  <1> DEFINE N == Len(outputs)
  <1>1. PICK t : t = SpentBy(P)
    OBVIOUS
  <1>2. /\ Len(t) = N
        /\ \A i \in 1..N : /\ t[i].spent <=> i \in P \/ outputs[i].spent
                           /\ t[i].amount = outputs[i].amount
    BY <1>1, SpentByFacts
  <1>3. PICK k : k = Room(Len(t), tx)
    OBVIOUS
  <1>4. /\ Len(t) \in Nat /\ k \in {0, 1, 2} /\ k <= Len(tx.outputs) /\ Len(v) = Len(t) + k
        /\ \A i \in 1..Len(t) : v[i] = t[i]
        /\ \A i \in 1..k : v[Len(t) + i] = Utxo(tx, i - 1, tx.outputs[i])
    <2>1. Grows(t, v, tx)
      BY <1>1
    <2> QED
      BY <1>3, <2>1, GrownFacts
  <1> SUFFICES ASSUME NEW i \in 1..Len(v), ~v[i].spent PROVE v[i].amount >= 0
    OBVIOUS
  <1>5. CASE i \in 1..N
    <2>1. v[i] = t[i] /\ ~t[i].spent
      BY <1>2, <1>4, <1>5
    <2> QED
      BY <1>2, <1>5, <2>1
  <1>6. CASE i \notin 1..N
    <2>1. PICK j : j = i - N
      OBVIOUS
    <2>2. N \in Nat /\ Len(v) = N + k
      BY <1>2, <1>4
    <2>3. Len(tx.outputs) \in Nat
      BY DEF Grows, Pays
    <2> HIDE DEF N
    <2>4. j \in 1..k /\ i = N + j /\ j \in 1..Len(tx.outputs)
      BY <1>4, <1>6, <2>1, <2>2, <2>3
    <2>5. v[i] = Utxo(tx, j - 1, tx.outputs[j])
      BY <1>2, <1>4, <2>4
    <2> QED
      BY <2>4, <2>5 DEF Utxo
  <1> QED
    BY <1>5, <1>6

LEMMA SolventAfterSettlement ==
  ASSUME NEW most, NEW s, NEW r, NEW a, Settlement(most, s, r, a)
  PROVE  Solvent(most)'
  <1>1. /\ TableOK /\ most \in Nat /\ s \in Owners /\ r \in Owners
        /\ \A i \in 1..Len(outputs) : ~outputs[i].spent => outputs[i].amount >= 0
        /\ HeldBy(outputs, Len(outputs), Owners) <= most * Len(outputs)
    BY DEF Settlement, Modest, Solvent, Owners
  <1>2. Grows(SpentBy(Range(Inputs(s, a))), outputs', Tx(s, r, a))
    BY SettlementGrows
  <1>3. PICK tx : tx = Tx(s, r, a)
    OBVIOUS
  <1>4. a \in Nat /\ TX_FEE \in Nat /\ Taken(s, a) \in Nat /\ a + TX_FEE <= Taken(s, a)
    BY SettlementSums
  <1>5. \A i \in 1..Len(tx.outputs) : tx.outputs[i].amount >= 0
    <2>1. PICK rest : rest = Taken(s, a) - (a + TX_FEE)
      OBVIOUS
    <2>2. /\ rest \in Nat /\ Len(tx.outputs) = IF rest > 0 THEN 2 ELSE 1
          /\ tx.outputs[1].amount = a
          /\ rest > 0 => tx.outputs[2].amount = rest
      BY <1>3, <2>1, SettlementTx
    <2> SUFFICES ASSUME NEW i \in 1..Len(tx.outputs) PROVE tx.outputs[i].amount >= 0
      OBVIOUS
    <2>3. i = 1 \/ (i = 2 /\ rest > 0)
      BY <2>2
    <2> QED
      BY <1>4, <2>2, <2>3
  <1>6. PICK P : P = Range(Inputs(s, a))
    OBVIOUS
  <1>7. PICK v : v = outputs'
    OBVIOUS
  <1>8. \A i \in 1..Len(v) : ~v[i].spent => v[i].amount >= 0
    <2>1. Grows(SpentBy(P), v, tx)
      BY <1>2, <1>3, <1>6, <1>7
    <2> QED
      BY <1>1, <1>5, <2>1, UnspentIsPositive
  <1>9. PICK k : k = Len(v) - Len(outputs)
    OBVIOUS
  <1>10. /\ k \in {0, 1, 2} /\ Len(v) = Len(outputs) + k
         /\ HeldBy(v, Len(v), Owners) = HeldBy(outputs, Len(outputs), Owners)
                                         - Charged(s, a, k) + Received(a, k)
    <2>1. k = Len(outputs') - Len(outputs)
      BY <1>7, <1>9
    <2>2. /\ k \in {0, 1, 2} /\ Len(outputs') = Len(outputs) + k
          /\ \A O : HeldBy(outputs', Len(outputs'), O)
                      = HeldBy(outputs, Len(outputs), O)
                          - (IF s \in O THEN Charged(s, a, k) ELSE 0)
                          + (IF r \in O THEN Received(a, k) ELSE 0)
      BY <2>1, SettlementHoldings
    <2>3. HeldBy(outputs', Len(outputs'), Owners)
            = HeldBy(outputs, Len(outputs), Owners)
                - (IF s \in Owners THEN Charged(s, a, k) ELSE 0)
                + (IF r \in Owners THEN Received(a, k) ELSE 0)
      BY <2>2
    <2> QED
      BY <1>1, <1>7, <2>2, <2>3
  <1>11. /\ Charged(s, a, k) \in Nat /\ Received(a, k) \in Nat
         /\ Received(a, k) <= Charged(s, a, k)
    BY <1>4 DEF Charged, Received
  <1>12. HeldBy(outputs, Len(outputs), Owners) \in Int /\ Len(outputs) \in Nat
    <2>1. Priced(outputs) /\ Len(outputs) \in 0..Len(outputs) /\ Len(outputs) \in Nat
      BY <1>1, TableIsPriced, TableLength
    <2> QED
      BY <2>1, UnspentFacts
  <1>13. most * Len(outputs) \in Nat /\ most * Len(outputs) <= most * Len(v)
         /\ most * Len(v) \in Int
    <2>1. k \in Nat /\ Len(v) = Len(outputs) + k /\ Len(v) \in Nat
      BY <1>10, <1>12
    <2>2. most * Len(outputs) \in Nat /\ most * Len(outputs) <= most * (Len(outputs) + k)
      BY <1>1, <1>12, <2>1, Product
    <2>3. most * Len(v) \in Int
      BY <1>1, <2>1
    <2> QED
      BY <2>1, <2>2, <2>3
  <1> DEFINE x == HeldBy(outputs, Len(outputs), Owners)
             y == HeldBy(v, Len(v), Owners)
             c == Charged(s, a, k)
             g == Received(a, k)
             m == most * Len(outputs)
             n == most * Len(v)
  <1>14. /\ y = x - c + g /\ c \in Nat /\ g \in Nat /\ g <= c /\ x <= m /\ m <= n
         /\ x \in Int /\ m \in Int /\ n \in Int
    BY <1>1, <1>10, <1>11, <1>12, <1>13
  <1> HIDE DEF x, y, c, g, m, n
  <1>15. y <= n
    BY <1>14
  <1>16. HeldBy(outputs', Len(outputs'), Owners) <= most * Len(outputs')
    BY <1>7, <1>15 DEF y, n
  <1> QED
    BY <1>7, <1>8, <1>16 DEF Solvent

\* A credit adds its amount to the holdings of its owner, if there is room.
LEMMA CreditHoldings ==
  ASSUME TableOK, NEW o, NEW a, Credits(o, a), NEW k, k = Len(outputs') - Len(outputs)
  PROVE  /\ k \in {0, 1} /\ Len(outputs') = Len(outputs) + k /\ a \in Nat
         /\ \E tx : /\ Grows(SpentBy({}), outputs', tx)
                    /\ \A i \in 1..Len(tx.outputs) : tx.outputs[i].amount >= 0
         /\ \A O : HeldBy(outputs', Len(outputs'), O)
                     = HeldBy(outputs, Len(outputs), O)
                         + (IF k = 1 /\ o \in O THEN a ELSE 0)
  <1>1. a \in MachineInts /\ a >= 0
    BY DEF Credits
  <1>2. a \in Nat
    BY <1>1, IntIsNumber
  <1>3. PICK tx : /\ tx.is_reward = TRUE /\ tx.inputs = <<>> /\ tx.outputs = <<Output(o, a)>>
                  /\ outputs' = AddOutputs(outputs, tx)
    BY DEF Credits
  <1>4. Len(tx.outputs) = 1 /\ tx.outputs[1].owner = o /\ tx.outputs[1].amount = a
    BY <1>3 DEF Output
  <1>5. IsSequence(outputs) /\ Priced(outputs) /\ Len(outputs) <= MAX_UTXOS
    BY TableIsPriced DEF TableOK
  <1>6. Pays(tx)
    BY <1>2, <1>4 DEF Pays
  <1>7. Grows(outputs, outputs', tx)
    BY <1>3, <1>5, <1>6 DEF Grows
  <1>8. PICK v : v = outputs'
    OBVIOUS
  <1>9. PICK m : m = Room(Len(outputs), tx)
    OBVIOUS
  <1>10. Len(outputs) \in Nat /\ m \in {0, 1, 2} /\ m <= Len(tx.outputs) /\ Len(v) = Len(outputs) + m
    <2>1. Grows(outputs, v, tx)
      BY <1>7, <1>8
    <2> QED
      BY <1>9, <2>1, GrownFacts
  <1>11. m = k /\ k \in {0, 1} /\ Len(outputs') = Len(outputs) + k
    BY <1>4, <1>8, <1>10
  <1>12. ASSUME NEW O
         PROVE  HeldBy(outputs', Len(outputs'), O)
                  = HeldBy(outputs, Len(outputs), O) + (IF k = 1 /\ o \in O THEN a ELSE 0)
    <2>1. HeldBy(outputs', Len(outputs'), O)
            = HeldBy(outputs, Len(outputs), O) + Gain(tx, Room(Len(outputs), tx), O)
      BY <1>7, HeldAfterAdding
    <2>2. Gain(tx, k, O) = IF k = 1 /\ o \in O THEN a ELSE 0
      <3>1. k >= 1 <=> k = 1
        BY <1>11
      <3>2. ~(k >= 2)
        BY <1>11
      <3>3. Share(tx.outputs[1], O) = IF o \in O THEN a ELSE 0
        BY <1>4 DEF Share
      <3> QED
        BY <1>2, <3>1, <3>2, <3>3 DEF Gain
    <2> QED
      BY <1>9, <1>11, <2>1, <2>2
  <1>13. Grows(SpentBy({}), outputs', tx)
    BY <1>7, NothingSpent
  <1>14. \A i \in 1..Len(tx.outputs) : tx.outputs[i].amount >= 0
    <2> SUFFICES ASSUME NEW i \in 1..Len(tx.outputs) PROVE tx.outputs[i].amount >= 0
      OBVIOUS
    <2>1. i = 1
      BY <1>4
    <2> QED
      BY <1>2, <1>4, <2>1
  <1> QED
    BY <1>2, <1>11, <1>12, <1>13, <1>14

LEMMA SolventAfterCredit ==
  ASSUME TableOK, NEW most, Modest(most), Solvent(most), NEW o, NEW a, Credits(o, a)
  PROVE  Solvent(most)'
  <1>1. PICK v : v = outputs'
    OBVIOUS
  <1>2. PICK k : k = Len(outputs') - Len(outputs)
    OBVIOUS
  <1>3. /\ k \in {0, 1} /\ Len(outputs') = Len(outputs) + k /\ a \in Nat
        /\ \E tx : /\ Grows(SpentBy({}), outputs', tx)
                   /\ \A i \in 1..Len(tx.outputs) : tx.outputs[i].amount >= 0
        /\ \A O : HeldBy(outputs', Len(outputs'), O)
                    = HeldBy(outputs, Len(outputs), O) + (IF k = 1 /\ o \in O THEN a ELSE 0)
    BY <1>2, CreditHoldings
  <1>4. PICK tx : /\ Grows(SpentBy({}), v, tx)
                  /\ \A i \in 1..Len(tx.outputs) : tx.outputs[i].amount >= 0
    BY <1>1, <1>3
  <1>5. PICK P : P = {}
    OBVIOUS
  <1>6. \A i \in 1..Len(outputs) : ~outputs[i].spent => outputs[i].amount >= 0
    BY DEF Solvent
  <1>7. \A i \in 1..Len(v) : ~v[i].spent => v[i].amount >= 0
    <2>1. Grows(SpentBy(P), v, tx)
      BY <1>4, <1>5
    <2> QED
      BY <1>4, <1>6, <2>1, UnspentIsPositive
  <1>8. a <= most /\ most \in Nat /\ HeldBy(outputs, Len(outputs), Owners) <= most * Len(outputs)
    BY DEF Credits, Modest, Solvent
  <1>9. HeldBy(outputs, Len(outputs), Owners) \in Int /\ Len(outputs) \in Nat
    <2>1. Priced(outputs) /\ Len(outputs) \in 0..Len(outputs) /\ Len(outputs) \in Nat
      BY TableIsPriced, TableLength
    <2> QED
      BY <2>1, UnspentFacts
  <1>10. most * Len(v) = most * Len(outputs) + (IF k = 1 THEN most ELSE 0)
    <2>1. Len(v) = Len(outputs) + k /\ k \in Nat
      BY <1>1, <1>3
    <2>2. most * (Len(outputs) + k) = most * Len(outputs) + most * k
      BY <1>8, <1>9, <2>1, Product
    <2>3. most * k = IF k = 1 THEN most ELSE 0
      BY <1>3, <1>8
    <2> QED
      BY <2>1, <2>2, <2>3
  <1> DEFINE x == HeldBy(outputs, Len(outputs), Owners)
             y == HeldBy(v, Len(v), Owners)
             m == most * Len(outputs)
             n == most * Len(v)
  <1>11. y = x + (IF k = 1 /\ o \in Owners THEN a ELSE 0)
    BY <1>1, <1>3
  <1>12. n = m + (IF k = 1 THEN most ELSE 0) /\ x <= m /\ x \in Int /\ m \in Int
    <2>1. m \in Int
      BY <1>8, <1>9
    <2> QED
      BY <1>8, <1>9, <1>10, <2>1
  <1> HIDE DEF x, y, m, n
  <1>13. y <= n
    BY <1>3, <1>8, <1>11, <1>12
  <1>14. HeldBy(outputs', Len(outputs'), Owners) <= most * Len(outputs')
    BY <1>1, <1>13 DEF y, n
  <1> QED
    BY <1>1, <1>7, <1>14 DEF Solvent

LEMMA EmptyIsSolvent ==
  ASSUME NEW most \in Nat
  PROVE  /\ \A i \in 1..Len(<<>>) : ~<<>>[i].spent => <<>>[i].amount >= 0
         /\ HeldBy(<<>>, Len(<<>>), Owners) <= most * Len(<<>>)
  <1>1. Len(<<>>) = 0 /\ most * 0 = 0
    OBVIOUS
  <1>2. HeldBy(<<>>, 0, Owners) = 0
    BY HeldInNone
  <1>3. HeldBy(<<>>, Len(<<>>), Owners) <= most * Len(<<>>)
    BY <1>1, <1>2
  <1>4. \A i \in 1..Len(<<>>) : ~<<>>[i].spent => <<>>[i].amount >= 0
    BY <1>1
  <1> QED
    BY <1>3, <1>4

LEMMA SolventInEveryStep ==
  ASSUME AmountsAreModest, NEW most, Modest(most), TableOK, Solvent(most), [Next]_vars
  PROVE  Solvent(most)'
  <1>1. CASE UNCHANGED outputs
    BY <1>1 DEF Solvent
  <1>2. CASE outputs' = <<>>
    <2>1. most \in Nat
      BY DEF Modest
    <2> QED
      BY <1>2, <2>1, EmptyIsSolvent DEF Solvent
  <1>3. CASE \E o \in Owners, a \in MachineInts : Credits(o, a)
    BY <1>3, SolventAfterCredit
  <1>4. CASE \E s, r \in Registry, a \in TransferAmounts :
               a > 0 /\ s # r /\ a \in MachineInts /\ Settles(s, r, a)
    <2>1. PICK s \in Registry, r \in Registry, a \in TransferAmounts :
            a > 0 /\ s # r /\ a \in MachineInts /\ Settles(s, r, a)
      BY <1>4
    <2>2. Settlement(most, s, r, a)
      BY <2>1 DEF Settlement
    <2> QED
      BY <2>2, SolventAfterSettlement
  <1> QED
    BY <1>1, <1>2, <1>3, <1>4, TableSteps
-----------------------------------------------------------------------------
(* The table as a token bank. *)

Book(t) == [o \in Owners |-> AsInt(HeldBy(t, Len(t), {o}))]

BalanceBook == [o \in Owners |-> Balance(o)]

\* Whoever asks is told what the table holds for them.
LEMMA BalanceIsHeld ==
  ASSUME NEW o
  PROVE  /\ Balance(o) = AsInt(HeldBy(outputs, Len(outputs), {o}))
         /\ Balance(o)' = AsInt(HeldBy(outputs', Len(outputs'), {o}))
  <1>1. Spendable(o) = Unspent(outputs, Len(outputs), {o})
    BY DEF Spendable, Unspent
  <1>2. Spendable(o)' = Unspent(outputs', Len(outputs'), {o})
    BY DEF Spendable, Unspent
  <1>3. Amounts = AmountsOf(outputs) /\ Amounts' = AmountsOf(outputs')
    BY DEF Amounts, AmountsOf
  <1> QED
    BY <1>1, <1>2, <1>3 DEF Balance, Worth, HeldBy

LEMMA BalancesAreBooked == BalanceBook = Book(outputs) /\ BalanceBook' = Book(outputs')
  BY BalanceIsHeld DEF BalanceBook, Book

LEMMA EmptyBook == Book(<<>>) = [o \in Owners |-> 0]
  <1>1. Len(<<>>) = 0
    OBVIOUS
  <1>2. AsInt(0) = 0
    <2>1. 0 \in MachineInts
      BY IntMaxAssumption DEF MachineInts, INT_MIN
    <2> QED
      BY <2>1, AsIntOfInt
  <1>3. ASSUME NEW o PROVE AsInt(HeldBy(<<>>, Len(<<>>), {o})) = 0
    BY <1>1, <1>2, HeldInNone
  <1> QED
    BY <1>3 DEF Book

LEMMA HoldingsAreInts ==
  ASSUME TableOK, NEW o PROVE HeldBy(outputs, Len(outputs), {o}) \in Int
  <1>1. Priced(outputs) /\ Len(outputs) \in 0..Len(outputs)
    BY TableIsPriced, TableLength
  <1> QED
    BY <1>1, UnspentFacts

\* A credit mints its amount or is refused.
LEMMA CreditIsMinted ==
  ASSUME TableOK, NEW o, NEW a, Credits(o, a)
  PROVE  /\ o \in Owners /\ a \in CreditAmounts
         /\ \/ Book(outputs') = Book(outputs)
            \/ Book(outputs') = [Book(outputs) EXCEPT ![o] = AsInt(@ + a)]
  <1>1. o \in Owners /\ a \in CreditAmounts
    BY DEF Credits
  <1>2. PICK k : k = Len(outputs') - Len(outputs)
    OBVIOUS
  <1>3. /\ k \in {0, 1} /\ a \in Nat
        /\ \A O : HeldBy(outputs', Len(outputs'), O)
                    = HeldBy(outputs, Len(outputs), O) + (IF k = 1 /\ o \in O THEN a ELSE 0)
    BY <1>2, CreditHoldings
  <1> DEFINE H(p) == HeldBy(outputs, Len(outputs), {p})
             G(p) == HeldBy(outputs', Len(outputs'), {p})
  <1>4. ASSUME NEW p PROVE G(p) = H(p) + (IF k = 1 /\ o = p THEN a ELSE 0) /\ H(p) \in Int
    BY <1>3, HoldingsAreInts
  <1>5. Book(outputs) = [p \in Owners |-> AsInt(H(p))]
    BY DEF Book
  <1>6. Book(outputs') = [p \in Owners |-> AsInt(G(p))]
    BY DEF Book
  <1> HIDE DEF H, G
  <1>7. CASE k = 0
    <2>1. \A p \in Owners : G(p) = H(p)
      BY <1>4, <1>7
    <2> QED
      BY <1>1, <1>5, <1>6, <2>1
  <1>8. CASE k = 1
    <2>1. \A p \in Owners \ {o} : G(p) = H(p)
      BY <1>4
    <2>2. G(o) = H(o) + a /\ H(o) \in Int /\ a \in Int
      BY <1>3, <1>4, <1>8
    <2>3. AsInt(G(o)) = AsInt(AsInt(H(o)) + a)
      BY <2>2, AsIntAbsorbs
    <2> QED
      BY <1>1, <1>5, <1>6, <2>1, <2>3
  <1> QED
    BY <1>1, <1>3, <1>7, <1>8

Posting(book, s, d, r, q) ==
  LET paid == [book EXCEPT ![s] = AsInt(@ - d)]
  IN  [paid EXCEPT ![r] = AsInt(@ + q)]

\* A transfer that settles is posted in the balances for what its outputs come to
\* in the table, and for what it owes unless it fills the table.
PostedAsOwed(s, r, a) ==
  LET need == AsInt(a + TX_FEE)
  IN  /\ s \in Owners /\ r \in Owners /\ Book(outputs)[s] >= need
      /\ \E d \in need..INT_MAX, q \in {0, a} :
           /\ Book(outputs') = Posting(Book(outputs), s, d, r, q)
           /\ (d = need /\ q = a) \/ Len(outputs') = MAX_UTXOS

LEMMA SettlementIsPosted ==
  ASSUME NEW most, NEW s, NEW r, NEW a, Settlement(most, s, r, a)
  PROVE  PostedAsOwed(s, r, a)
  <1> DEFINE need == AsInt(a + TX_FEE)
             H(p) == HeldBy(outputs, Len(outputs), {p})
             G(p) == HeldBy(outputs', Len(outputs'), {p})
  <1>1. /\ TableOK /\ s \in Owners /\ r \in Owners /\ s # r
    BY DEF Settlement, Owners
  <1>2. PICK k : k = Len(outputs') - Len(outputs)
    OBVIOUS
  <1>3. /\ k \in {0, 1, 2}
        /\ k < Len(Tx(s, r, a).outputs) => Len(outputs') = MAX_UTXOS
        /\ \A O : HeldBy(outputs', Len(outputs'), O)
                    = HeldBy(outputs, Len(outputs), O)
                        - (IF s \in O THEN Charged(s, a, k) ELSE 0)
                        + (IF r \in O THEN Received(a, k) ELSE 0)
    BY <1>2, SettlementHoldings
  <1>4. /\ a \in Nat /\ TX_FEE \in Nat /\ Taken(s, a) \in Nat /\ Taken(s, a) <= INT_MAX
        /\ a + TX_FEE <= Taken(s, a) /\ need = a + TX_FEE /\ Taken(s, a) <= H(s)
        /\ H(s) \in MachineInts
    BY SettlementSums DEF Needed
  <1>5. Len(Tx(s, r, a).outputs) = IF Taken(s, a) - (a + TX_FEE) > 0 THEN 2 ELSE 1
    BY SettlementTx
  <1> DEFINE d == Charged(s, a, k)
             q == Received(a, k)
  <1>6. ASSUME NEW p
        PROVE  /\ H(p) \in Int
               /\ G(p) = H(p) - (IF s = p THEN d ELSE 0) + (IF r = p THEN q ELSE 0)
    BY <1>1, <1>3, HoldingsAreInts
  <1>7. Book(outputs) = [p \in Owners |-> AsInt(H(p))]
    BY DEF Book
  <1>8. Book(outputs') = [p \in Owners |-> AsInt(G(p))]
    BY DEF Book
  <1> HIDE DEF H, G, need
  <1>9. Book(outputs)[s] = H(s)
    BY <1>1, <1>4, <1>7, AsIntOfInt
  <1>10. /\ d \in Nat /\ q \in {0, a} /\ need <= d /\ d <= INT_MAX
         /\ (d = need /\ q = a) \/ k < Len(Tx(s, r, a).outputs)
    <2>1. d \in {need, Taken(s, a)} /\ q \in {0, a}
      BY <1>4 DEF Charged, Received
    <2>2. d \in Nat /\ need <= d /\ d <= INT_MAX
      BY <1>4, <2>1, IntMaxAssumption
    <2>3. (d = need /\ q = a) \/ k < Len(Tx(s, r, a).outputs)
      <3> DEFINE m == Len(Tx(s, r, a).outputs)
      <3>1. m = IF Taken(s, a) > need THEN 2 ELSE 1
        BY <1>4, <1>5
      <3> HIDE DEF m
      <3>2. CASE k < m
        BY <3>2 DEF m
      <3>3. CASE ~(k < m)
        <4>0. k \in {0, 1, 2}
          BY <1>3
        <4>1. k >= 1 /\ (k >= 2 \/ ~(Taken(s, a) > need))
          BY <3>1, <3>3, <4>0
        <4>2. Taken(s, a) > need \/ Taken(s, a) = need
          BY <1>4
        <4> QED
          BY <1>4, <4>1, <4>2 DEF Charged, Received
      <3> QED
        BY <3>2, <3>3
    <2> QED
      BY <2>1, <2>2, <2>3
  <1> HIDE DEF d, q
  <1>11. Book(outputs') = Posting(Book(outputs), s, d, r, q)
    <2>1. q \in Int /\ d \in Int /\ -d \in Int
      BY <1>4, <1>10
    <2>2. G(s) = H(s) + (-d) /\ H(s) - d = H(s) + (-d)
      BY <1>1, <1>6, <2>1
    <2>3. AsInt(H(s) + (-d)) = AsInt(AsInt(H(s)) + (-d))
      BY <1>6, <2>1, AsIntAbsorbs
    <2>4. AsInt(H(s)) + (-d) = AsInt(H(s)) - d
      BY <1>6, <2>1, AsIntType, IntIsNumber
    <2>5. AsInt(G(s)) = AsInt(AsInt(H(s)) - d)
      BY <2>2, <2>3, <2>4
    <2>6. G(r) = H(r) + q
      BY <1>1, <1>6, <2>1
    <2>7. AsInt(G(r)) = AsInt(AsInt(H(r)) + q)
      BY <1>6, <2>1, <2>6, AsIntAbsorbs
    <2>8. \A p \in Owners \ {s, r} : G(p) = H(p)
      BY <1>6
    <2> QED
      BY <1>1, <1>7, <1>8, <2>5, <2>7, <2>8 DEF Posting
  <1>12. Book(outputs)[s] >= need
    BY <1>4, <1>9, IntIsNumber
  <1>13. d \in need..INT_MAX
    BY <1>4, <1>10, IntMaxAssumption
  <1>14. (d = need /\ q = a) \/ Len(outputs') = MAX_UTXOS
    BY <1>3, <1>10
  <1>15. \E e \in need..INT_MAX, g \in {0, a} :
           /\ Book(outputs') = Posting(Book(outputs), s, e, r, g)
           /\ (e = need /\ g = a) \/ Len(outputs') = MAX_UTXOS
    BY <1>10, <1>11, <1>13, <1>14
  <1> QED
    BY <1>1, <1>12, <1>15 DEF need, PostedAsOwed

(* With references that are cut off, only transfers without inputs settle. *)

\* A sender from whom nothing was selected has nothing, and owes no more.
LEMMA EmptyHanded ==
  ASSUME TableOK, NEW s, NEW a \in MachineInts, Inputs(s, a) = <<>>
  PROVE  /\ Range(Inputs(s, a)) = {} /\ Had(s, a) = 0
         /\ HeldBy(outputs, Len(outputs), {s}) = 0
  <1> DEFINE found == Inputs(s, a)
  <1>1. /\ Chosen(found, s, Needed(a), Len(outputs)) /\ Range(found) = FirstOf(found, Len(found))
    BY InputsFacts
  <1>2. Len(found) = 0 /\ Range(found) = {}
    BY <1>1 DEF FirstOf
  <1>3. Had(s, a) = 0
    <2>1. Had(s, a) = AsInt(SumFunctionOnSet(Amounts, {}))
      BY <1>2 DEF Had, Worth
    <2>2. 0 \in MachineInts
      BY IntMaxAssumption DEF MachineInts, INT_MIN
    <2> QED
      BY <2>1, <2>2, SumOfNone, AsIntOfInt
  <1>4. ~Sufficient(found, Needed(a))
    <2>1. found = <<>> /\ MAX_TX_INPUTS \in Nat \ {0}
      BY UtxoAssumption
    <2> QED
      BY <1>2, <2>1 DEF Sufficient
  <1>5. \A i \in Spendable(s) : i <= Len(outputs) => \E j \in 1..Len(found) : found[j] = i
    BY <1>1, <1>4 DEF Chosen
  <1>6. Spendable(s) = {}
    BY <1>2, <1>5, TableLength DEF Spendable
  <1>7. Unspent(outputs, Len(outputs), {s}) = {}
    BY <1>6 DEF Unspent, Spendable
  <1> QED
    BY <1>2, <1>3, <1>7, SumOfNone DEF HeldBy

\* What the outputs of such a transfer bring whom, if k of them find room.
BroughtBy(s, r, a, k) ==
  /\ Needed(a) \in MachineInts /\ Needed(a) <= 0 /\ k \in {0, 1, 2}
  /\ k < (IF Needed(a) < 0 THEN 2 ELSE 1) => Len(outputs') = MAX_UTXOS
  /\ k = 2 => Needed(a) < 0
  /\ \A p : HeldBy(outputs', Len(outputs'), {p})
              = HeldBy(outputs, Len(outputs), {p})
                  + (IF p = r /\ k >= 1 THEN a ELSE 0)
                  + (IF p = s /\ k = 2 THEN AsInt(0 - Needed(a)) ELSE 0)

LEMMA EmptyHandedTx ==
  ASSUME TableOK, NEW s \in Registry, NEW r \in Registry, s # r, NEW a \in MachineInts,
         Settles(s, r, a), Inputs(s, a) = <<>>,
         NEW k, k = Len(outputs') - Len(outputs)
  PROVE  BroughtBy(s, r, a, k)
  <1> DEFINE tx == Tx(s, r, a)
             need == Needed(a)
             rest == AsInt(0 - need)
  <1>1. /\ Range(Inputs(s, a)) = {} /\ Had(s, a) = 0
    BY EmptyHanded
  <1>2. need \in MachineInts /\ need \in Int /\ need <= 0
    <2>1. need \in MachineInts
      BY InputsFacts
    <2> QED
      BY <1>1, <2>1, IntIsNumber DEF Settles
  <1>3. outputs' = AddOutputs(outputs, tx)
    BY <1>1, NothingSpent DEF Settles
  <1>4. /\ Len(tx.outputs) = IF need < 0 THEN 2 ELSE 1
        /\ tx.outputs[1] = Output(r, a)
        /\ need < 0 => tx.outputs[2] = Output(s, rest)
    <2>1. 0 > need <=> need < 0
      BY <1>2
    <2> QED
      BY <1>1, <2>1, TxFacts
  <1>5. rest \in Int /\ a \in Int
    <2>1. 0 - need \in Int
      BY <1>2
    <2> QED
      BY <2>1, AsIntType, IntIsNumber
  <1> HIDE DEF need, tx, rest
  <1>6. Pays(tx)
    <2>1. Len(tx.outputs) \in {1, 2}
      BY <1>4
    <2>2. tx.outputs[1].amount \in Int
      BY <1>4, <1>5 DEF Output
    <2>3. need < 0 => tx.outputs[2].amount \in Int
      BY <1>4, <1>5 DEF Output
    <2>4. \A i \in 1..Len(tx.outputs) : i = 1 \/ (i = 2 /\ need < 0)
      BY <1>4
    <2> QED
      BY <2>1, <2>2, <2>3, <2>4 DEF Pays
  <1>7. Grows(outputs, outputs', tx)
    BY <1>3, <1>6, TableIsPriced DEF Grows, TableOK
  <1>8. /\ Room(Len(outputs), tx) \in {0, 1, 2} /\ Room(Len(outputs), tx) <= Len(tx.outputs)
        /\ Len(outputs) \in Nat /\ Len(outputs') = Len(outputs) + Room(Len(outputs), tx)
        /\ Room(Len(outputs), tx) < Len(tx.outputs) => Len(outputs') = MAX_UTXOS
    BY <1>7, GrownFacts
  <1>9. k = Room(Len(outputs), tx)
    BY <1>8
  <1>10. k = 2 => need < 0
    BY <1>4, <1>8, <1>9
  <1>11. ASSUME NEW p
         PROVE  HeldBy(outputs', Len(outputs'), {p})
                  = HeldBy(outputs, Len(outputs), {p})
                      + (IF p = r /\ k >= 1 THEN a ELSE 0)
                      + (IF p = s /\ k = 2 THEN rest ELSE 0)
    <2>1. HeldBy(outputs', Len(outputs'), {p}) = HeldBy(outputs, Len(outputs), {p}) + Gain(tx, k, {p})
      BY <1>7, <1>9, HeldAfterAdding
    <2>2. HeldBy(outputs, Len(outputs), {p}) \in Int
      BY HoldingsAreInts
    <2>3. Share(tx.outputs[1], {p}) = IF p = r THEN a ELSE 0
      BY <1>4 DEF Share, Output
    <2>4. k = 2 => Share(tx.outputs[2], {p}) = IF p = s THEN rest ELSE 0
      BY <1>4, <1>10 DEF Share, Output
    <2>5. Gain(tx, k, {p}) = (IF p = r /\ k >= 1 THEN a ELSE 0)
                               + (IF p = s /\ k = 2 THEN rest ELSE 0)
      BY <1>5, <1>8, <1>9, <2>3, <2>4 DEF Gain
    <2> HIDE DEF Gain
    <2> QED
      BY <1>5, <2>1, <2>2, <2>5
  <1>12. k < (IF need < 0 THEN 2 ELSE 1) => Len(outputs') = MAX_UTXOS
    BY <1>4, <1>8, <1>9
  <1> QED
    BY <1>2, <1>8, <1>9, <1>10, <1>11, <1>12 DEF need, rest, BroughtBy

\* The change of a sender who had nothing and owed less is what it owed.
LEMMA EmptyHandedIsPosted ==
  ASSUME TableOK, NEW s \in Registry, NEW r \in Registry, s # r, NEW a \in MachineInts,
         Settles(s, r, a), ~WideRefs
  PROVE  PostedAsOwed(s, r, a)
  <1> DEFINE need == AsInt(a + TX_FEE)
             H(p) == HeldBy(outputs, Len(outputs), {p})
             G(p) == HeldBy(outputs', Len(outputs'), {p})
  <1>1. Inputs(s, a) = <<>> /\ s \in Owners /\ r \in Owners
    BY DEF Settles, Owners
  <1>2. PICK k : k = Len(outputs') - Len(outputs)
    OBVIOUS
  <1>3. /\ need \in MachineInts /\ need <= 0 /\ k \in {0, 1, 2}
        /\ k < (IF need < 0 THEN 2 ELSE 1) => Len(outputs') = MAX_UTXOS
        /\ k = 2 => need < 0
        /\ \A p : G(p) = H(p) + (IF p = r /\ k >= 1 THEN a ELSE 0)
                              + (IF p = s /\ k = 2 THEN AsInt(0 - need) ELSE 0)
    <2>1. need = Needed(a)
      BY DEF Needed
    <2> HIDE DEF need
    <2>2. BroughtBy(s, r, a, k)
      BY <1>1, <1>2, EmptyHandedTx
    <2> QED
      BY <2>1, <2>2 DEF BroughtBy
  <1>4. H(s) = 0
    BY <1>1, EmptyHanded
  <1>5. \A p : H(p) \in Int
    BY HoldingsAreInts
  <1>6. Book(outputs) = [p \in Owners |-> AsInt(H(p))]
    BY DEF Book
  <1>7. Book(outputs') = [p \in Owners |-> AsInt(G(p))]
    BY DEF Book
  <1> HIDE DEF H, G, need
  <1>8. need \in Int /\ a \in Int /\ 0 \in MachineInts /\ AsInt(0) = 0
    <2>1. 0 \in MachineInts
      BY IntMaxAssumption DEF MachineInts, INT_MIN
    <2> QED
      BY <1>3, <2>1, IntIsNumber, AsIntOfInt
  <1> DEFINE d == IF k = 2 THEN need ELSE 0
             q == IF k >= 1 THEN a ELSE 0
  <1>9. AsInt(0 - need) \in MachineInts /\ AsInt(0 - need) \in Int
    <2>1. 0 - need \in Int
      BY <1>8
    <2> QED
      BY <2>1, AsIntType, IntIsNumber
  <1>10. Book(outputs)[s] = 0
    BY <1>1, <1>4, <1>6, <1>8
  <1>11. AsInt(G(s)) = AsInt(AsInt(H(s)) - d)
    <2>1. CASE k = 2
      <3>1. G(s) = AsInt(0 - need)
        BY <1>3, <1>4, <1>9, <2>1
      <3> QED
        BY <1>4, <1>8, <1>9, <2>1, <3>1, AsIntOfInt
    <2>2. CASE k # 2
      <3>1. G(s) = 0
        BY <1>3, <1>4, <2>2
      <3> QED
        BY <1>4, <1>8, <2>2, <3>1
    <2> QED
      BY <2>1, <2>2
  <1>12. AsInt(G(r)) = AsInt(AsInt(H(r)) + q)
    <2>1. H(r) \in Int /\ q \in Int
      BY <1>5, <1>8
    <2>2. G(r) = H(r) + q
      BY <1>3, <2>1
    <2> QED
      BY <2>1, <2>2, AsIntAbsorbs
  <1>13. \A p \in Owners \ {s, r} : G(p) = H(p)
    BY <1>3, <1>5
  <1>14. Book(outputs') = Posting(Book(outputs), s, d, r, q)
    BY <1>1, <1>6, <1>7, <1>11, <1>12, <1>13 DEF Posting
  <1>15. d \in need..INT_MAX /\ q \in {0, a}
    BY <1>3, <1>8, IntMaxAssumption
  <1>16. (d = need /\ q = a) \/ Len(outputs') = MAX_UTXOS
    BY <1>3, <1>8
  <1> HIDE DEF d, q
  <1>17. \E e \in need..INT_MAX, g \in {0, a} :
           /\ Book(outputs') = Posting(Book(outputs), s, e, r, g)
           /\ (e = need /\ g = a) \/ Len(outputs') = MAX_UTXOS
    BY <1>14, <1>15, <1>16
  <1>18. Book(outputs)[s] >= need
    BY <1>3, <1>8, <1>10
  <1> QED
    BY <1>1, <1>17, <1>18 DEF need, PostedAsOwed

\* In either case every transfer that settles is posted as it is owed.
TransfersArePosted(most) ==
  (AmountsAreModest /\ Modest(most) /\ Solvent(most)) \/ ~WideRefs

LEMMA EveryTransferIsPosted ==
  ASSUME TableOK, NEW most, TransfersArePosted(most),
         NEW s \in Registry, NEW r \in Registry, s # r,
         NEW a \in TransferAmounts, a > 0, a \in MachineInts, Settles(s, r, a)
  PROVE  PostedAsOwed(s, r, a)
  <1>1. CASE ~WideRefs
    BY <1>1, EmptyHandedIsPosted
  <1>2. CASE AmountsAreModest /\ Modest(most) /\ Solvent(most)
    <2>1. Settlement(most, s, r, a)
      BY <1>2 DEF Settlement
    <2> QED
      BY <2>1, SettlementIsPosted
  <1> QED
    BY <1>1, <1>2 DEF TransfersArePosted

LEMMA SameInts == ASSUME NEW x PROVE Bank!AsInt(x) = AsInt(x)
  BY DEF Bank!AsInt, Bank!INT_MIN, AsInt, INT_MIN

LEMMA BankInEveryStep ==
  ASSUME TableOK, NEW most, TransfersArePosted(most), [Next]_vars
  PROVE  [Bank!Next \/ (TableIsFull' /\ Bank!SomeLeak)]_BalanceBook
  <1>1. CASE UNCHANGED outputs
    BY <1>1, BalancesAreBooked
  <1>2. CASE outputs' = <<>>
    <2>1. BalanceBook' = [o \in Owners |-> 0]
      BY <1>2, BalancesAreBooked, EmptyBook
    <2>2. Bank!Reset
      BY <2>1 DEF Bank!Reset, BalanceBook
    <2> QED
      BY <2>2 DEF Bank!Next
  <1>3. CASE \E o \in Owners, a \in MachineInts : Credits(o, a)
    <2>1. PICK o \in Owners, a \in MachineInts : Credits(o, a)
      BY <1>3
    <2>2. a \in CreditAmounts
      BY <2>1, CreditIsMinted
    <2>3. \/ BalanceBook' = BalanceBook
          \/ BalanceBook' = [BalanceBook EXCEPT ![o] = AsInt(@ + a)]
      BY <2>1, CreditIsMinted, BalancesAreBooked
    <2>4. CASE BalanceBook' = [BalanceBook EXCEPT ![o] = AsInt(@ + a)]
      <3>1. Bank!Mint(o, a)
        BY <2>4, SameInts DEF Bank!Mint, BalanceBook
      <3> QED
        BY <2>1, <2>2, <3>1 DEF Bank!Next, CreditAmounts
    <2> QED
      BY <2>3, <2>4
  <1>4. CASE \E s, r \in Registry, a \in TransferAmounts :
               a > 0 /\ s # r /\ a \in MachineInts /\ Settles(s, r, a)
    <2>1. PICK s \in Registry, r \in Registry, a \in TransferAmounts :
            a > 0 /\ s # r /\ a \in MachineInts /\ Settles(s, r, a)
      BY <1>4
    <2>2. PostedAsOwed(s, r, a)
      BY <2>1, EveryTransferIsPosted
    <2> DEFINE need == AsInt(a + TX_FEE)
    <2>3. /\ s \in Owners /\ r \in Owners /\ Book(outputs)[s] >= need
          /\ \E d \in need..INT_MAX, q \in {0, a} :
               /\ Book(outputs') = Posting(Book(outputs), s, d, r, q)
               /\ (d = need /\ q = a) \/ Len(outputs') = MAX_UTXOS
      BY <2>2 DEF PostedAsOwed
    <2>4. PICK d \in need..INT_MAX, q \in {0, a} :
            /\ Book(outputs') = Posting(Book(outputs), s, d, r, q)
            /\ (d = need /\ q = a) \/ Len(outputs') = MAX_UTXOS
      BY <2>3
    <2>5. BalanceBook[s] >= need /\ BalanceBook' = Posting(BalanceBook, s, d, r, q)
      BY <2>3, <2>4, BalancesAreBooked
    <2>6. CASE d = need /\ q = a
      <3>1. Bank!Move(s, r, a)
        BY <2>5, <2>6, SameInts DEF Bank!Move, Bank!Posted, Bank!Debit, Posting, BalanceBook
      <3> QED
        BY <2>1, <2>3, <3>1 DEF Bank!Next
    <2>7. CASE Len(outputs') = MAX_UTXOS
      <3>1. Bank!Leak(s, r, a)
        BY <2>4, <2>5, SameInts DEF Bank!Leak, Bank!Posted, Bank!Debit, Posting, BalanceBook
      <3> QED
        BY <2>1, <2>3, <2>7, <3>1 DEF Bank!SomeLeak, TableIsFull
    <2> QED
      BY <2>4, <2>6, <2>7
  <1> QED
    BY <1>1, <1>2, <1>3, <1>4, TableSteps

LEMMA SolventBank ==
  ASSUME AmountsAreModest, NEW most, Modest(most)
  PROVE  Spec => ImplementsBank
  <1>1. TableOK /\ ReplyOK /\ Solvent(most) /\ [Next]_vars
          => TableOK' /\ ReplyOK' /\ Solvent(most)'
    BY TableInEveryStep, SolventInEveryStep
  <1>2. Init => TableOK /\ ReplyOK /\ Solvent(most) /\ Bank!Empty
    <2> SUFFICES ASSUME Init PROVE Solvent(most) /\ Bank!Empty
      BY TableInit
    <2>1. outputs = <<>> /\ most \in Nat
      BY DEF Init, Modest
    <2>2. Solvent(most)
      BY <2>1, EmptyIsSolvent DEF Solvent
    <2>3. BalanceBook = [o \in Owners |-> 0]
      BY <2>1, BalancesAreBooked, EmptyBook
    <2>4. Bank!Empty
      BY <2>3 DEF Bank!Empty, BalanceBook
    <2> QED
      BY <2>2, <2>4
  <1>3. TableOK /\ Solvent(most) /\ [Next]_vars
          => [Bank!Next \/ (TableIsFull' /\ Bank!SomeLeak)]_[o \in Owners |-> Balance(o)]
    BY BankInEveryStep DEF BalanceBook, TransfersArePosted
  <1> QED
    BY <1>1, <1>2, <1>3, PTL DEF Spec, ImplementsBank

\* The UTXO model is a token bank, as long as no sum overflows: selecting
\* inputs, marking them and adding outputs and change moves exactly the amount
\* and burns exactly the fee, but for a transfer that fills the table
\* (utxo_transfer, utxo_balance).
THEOREM OutputsAreABank == ASSUME AmountsAreModest PROVE Spec => ImplementsBank
  <1>1. PICK most : Modest(most)
    BY DEF AmountsAreModest
  <1> QED
    BY <1>1, SolventBank

\* As built, the reference of an input is cut off.  Whatever the amounts, and
\* though sums overflow, no transfer but one without inputs changes the table,
\* and that one moves what an int makes of its amount (utxo_transfer).
THEOREM TruncatedOutputsAreABank == ASSUME ~WideRefs PROVE Spec => ImplementsBank
  <1>1. TableOK /\ ReplyOK /\ [Next]_vars => TableOK' /\ ReplyOK'
    BY TableInEveryStep
  <1>2. Init => TableOK /\ ReplyOK /\ Bank!Empty
    <2> SUFFICES ASSUME Init PROVE Bank!Empty
      BY TableInit
    <2>1. BalanceBook = [o \in Owners |-> 0]
      BY BalancesAreBooked, EmptyBook DEF Init
    <2> QED
      BY <2>1 DEF Bank!Empty, BalanceBook
  <1>3. TableOK /\ [Next]_vars
          => [Bank!Next \/ (TableIsFull' /\ Bank!SomeLeak)]_[o \in Owners |-> Balance(o)]
    BY BankInEveryStep DEF BalanceBook, TransfersArePosted
  <1> QED
    BY <1>1, <1>2, <1>3, PTL DEF Spec, ImplementsBank
-----------------------------------------------------------------------------
(* What the interface of the ledger needs to know of the table. *)

LEMMA CreditLength ==
  ASSUME TableOK, NEW o, NEW a, Credits(o, a)
  PROVE  Len(outputs') = IF Len(outputs) < MAX_UTXOS THEN Len(outputs) + 1 ELSE Len(outputs)
  <1>1. PICK tx : tx.outputs = <<Output(o, a)>> /\ outputs' = AddOutputs(outputs, tx)
    BY DEF Credits
  <1>2. Len(tx.outputs) = 1
    BY <1>1
  <1>3. Len(outputs) \in 0..MAX_UTXOS /\ IsSequence(outputs) /\ MAX_UTXOS \in Nat
    BY TableLength, UtxoAssumption DEF TableOK
  <1>4. Len(outputs') = Len(outputs) + Room(Len(outputs), tx)
    BY <1>1, <1>2, <1>3, AddedTable DEF IsExtended
  <1> QED
    BY <1>2, <1>3, <1>4 DEF Room

LEMMA SettledLength ==
  ASSUME TableOK, NEW s \in Registry, NEW r \in Registry, NEW a \in MachineInts,
         Settles(s, r, a)
  PROVE  Len(outputs') \in Len(outputs)..(Len(outputs) + 2) /\ Len(outputs') <= MAX_UTXOS
  <1> DEFINE spent == SpentBy(Range(Inputs(s, a)))
  <1>1. outputs' = AddOutputs(spent, Tx(s, r, a))
    BY DEF Settles
  <1>2. Len(Tx(s, r, a).outputs) \in {1, 2}
    BY TxOutputs
  <1>3. IsSequence(spent) /\ Len(spent) = Len(outputs)
    BY SpentByFacts DEF IsSequence
  <1>4. Len(outputs) \in 0..MAX_UTXOS /\ MAX_UTXOS \in Nat
    BY TableLength, UtxoAssumption
  <1> HIDE DEF spent
  <1>5. /\ Len(outputs') = Len(outputs) + Room(Len(outputs), Tx(s, r, a))
        /\ Len(outputs') <= MAX_UTXOS
        /\ Room(Len(outputs), Tx(s, r, a)) \in 0..Len(Tx(s, r, a).outputs)
    <2>1. Len(spent) <= MAX_UTXOS /\ Len(Tx(s, r, a).outputs) \in Nat
      BY <1>2, <1>3, <1>4
    <2> QED
      BY <1>1, <1>3, <2>1, AddedTable DEF IsExtended
  <1> DEFINE n == Len(outputs)
             k == Room(n, Tx(s, r, a))
  <1>6. /\ n \in Nat /\ k \in {0, 1, 2} /\ Len(outputs') = n + k
        /\ Len(outputs') <= MAX_UTXOS
    <2> DEFINE m == Len(Tx(s, r, a).outputs)
    <2>1. m \in {1, 2} /\ k \in 0..m
      BY <1>2, <1>5
    <2> HIDE DEF m, k
    <2>2. k \in {0, 1, 2}
      BY <2>1
    <2> QED
      BY <1>4, <1>5, <2>2 DEF k
  <1> HIDE DEF n, k
  <1>7. Len(outputs') \in n..(n + 2) /\ Len(outputs') <= MAX_UTXOS
    BY <1>6
  <1> QED
    BY <1>7 DEF n

\* Who owns no output has nothing.
LEMMA StrangersHoldNothing ==
  ASSUME NEW t, \A i \in 1..Len(t) : t[i].owner \in Owners, NEW o, o \notin Owners
  PROVE  AsInt(HeldBy(t, Len(t), {o})) = 0
  <1>1. Unspent(t, Len(t), {o}) = {}
    BY DEF Unspent
  <1>2. 0 \in MachineInts
    BY IntMaxAssumption DEF MachineInts, INT_MIN
  <1> QED
    BY <1>1, <1>2, SumOfNone, AsIntOfInt DEF HeldBy

LEMMA OwnersOfOutputs == TableOK => \A i \in 1..Len(outputs) : outputs[i].owner \in Owners
  BY TableEntries
=============================================================================
