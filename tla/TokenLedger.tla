----------------------------- MODULE TokenLedger -----------------------------
(***************************************************************************)
(* The ledger as the mining code sees it: who has been credited how much,  *)
(* and how full the tables behind the credits are (ledger.c).  In the UTXO *)
(* model every credit takes a new entry of utxo_set; in the account model  *)
(* a credit takes a new entry of account_ledger only for an owner that has *)
(* none, and every registered student has one from the start.              *)
(***************************************************************************)
EXTENDS Attendance, FiniteSets

CONSTANTS Students,      \* the registry
          Miners,        \* SOLO_MINER, POOL001.., CLOUD_USER
          TypedIds,      \* what users type as the parties of a transfer
          MAX_UTXOS, MAX_STUDENTS

Owners == Students \cup Miners

Ledgers == [model : LedgerModels, credit : [Owners -> Int],
            outputs : Nat, accounts : SUBSET (Owners \cup TypedIds)]

LedgerInit(model) ==
  [model |-> model, credit |-> [o \in Owners |-> 0], outputs |-> 0,
   accounts |-> IF model = "account" THEN Students ELSE {}]

\* Whether utxo_add, or find_or_create_account, finds room for id.
HasRoom(ledger, id) ==
  \/ ledger.model = "utxo" /\ ledger.outputs < MAX_UTXOS
  \/ ledger.model = "account" /\ \/ id \in ledger.accounts
                                 \/ Cardinality(ledger.accounts) < MAX_STUDENTS

Credited(ledger, owner, amount) ==
  [model    |-> ledger.model,
   credit   |-> [ledger.credit EXCEPT ![owner] = @ + amount],
   outputs  |-> IF ledger.model = "utxo" THEN ledger.outputs + 1
                                         ELSE ledger.outputs,
   accounts |-> IF ledger.model = "utxo" THEN ledger.accounts
                                         ELSE ledger.accounts \cup {owner}]

\* A credit whose result the caller ignores.
TryCredit(ledger, owner, amount) ==
  IF HasRoom(ledger, owner) THEN Credited(ledger, owner, amount) ELSE ledger

\* The ledger after find_or_create_account.
Opened(ledger, id) ==
  [model |-> ledger.model, credit |-> ledger.credit, outputs |-> ledger.outputs,
   accounts |-> IF ledger.model = "account" /\ HasRoom(ledger, id)
                THEN ledger.accounts \cup {id} ELSE ledger.accounts]

WithOutputs(ledger, n) ==
  [model |-> ledger.model, credit |-> ledger.credit, outputs |-> n,
   accounts |-> ledger.accounts]

\* What transfers do to the tables, settled or refused: in the account model
\* both parties get an account where there is room; in the UTXO model, where
\* only registered students transfer, up to two outputs are added.
Transferred(ledger, sender, recipient) ==
  CASE ledger.model = "account" -> {Opened(Opened(ledger, sender), recipient)}
    [] ledger.model = "utxo" /\ {sender, recipient} \subseteq Students
                             /\ sender # recipient ->
         {WithOutputs(ledger, n) :
            n \in {k \in ledger.outputs..(ledger.outputs + 2) : k <= MAX_UTXOS}}
    [] OTHER -> {ledger}
=============================================================================
