------------------------- MODULE GeyserTransactions -------------------------
(***************************************************************************)
(* GeyserTransaction::from (grpc_geyser.rs:87-249): what the program keeps *)
(* of a transaction the node has executed, and the fee txmon expects it to *)
(* have paid.  The transaction itself is external: its shape is what the   *)
(* runtime has sanitized.                                                  *)
(***************************************************************************)
EXTENDS Integers, FiniteSets, SequencesExt

CONSTANTS
  Pubkey,
  U64_MAX,
  MAX_COMPUTE_UNIT_LIMIT,                  \* 1_400_000
  DEFAULT_INSTRUCTION_COMPUTE_UNIT_LIMIT,  \* 200_000
  MicroLamports,                           \* 1_000_000 in a lamport
  LamportsPerSignature,                    \* 5_000
  UnitPrice,                               \* bound: the prices senders set
  UnitLimit,                               \* bound: the limits senders set
  MaxSignatures,                           \* bound: of a transaction, of a precompile
  MaxInstructions                          \* bound

ASSUME TransactionAssumption ==
  /\ IsFiniteSet(Pubkey) /\ Pubkey # {}
  /\ U64_MAX \in Nat
  /\ MAX_COMPUTE_UNIT_LIMIT \in Nat
  /\ DEFAULT_INSTRUCTION_COMPUTE_UNIT_LIMIT \in Nat
  /\ MicroLamports \in Nat \ {0}
  /\ LamportsPerSignature \in Nat
  /\ UnitPrice \subseteq 0 .. U64_MAX
  /\ UnitLimit \subseteq Nat
  /\ MaxSignatures \in Nat
  /\ MaxInstructions \in Nat

-----------------------------------------------------------------------------
\* The static keys, in four groups: writable and readonly signers, writable
\* and readonly others; and the keys looked up in tables.  No key comes twice.
Message ==
  {m \in [keys : UNION {[1 .. n -> Pubkey] : n \in 1 .. Cardinality(Pubkey)},
          num_required_signatures : 1 .. Cardinality(Pubkey),
          num_readonly_signed_accounts : 0 .. Cardinality(Pubkey),
          num_readonly_unsigned_accounts : 0 .. Cardinality(Pubkey),
          loaded_writable : SUBSET Pubkey,
          loaded_readonly : SUBSET Pubkey] :
     /\ IsInjective(m.keys)
     /\ m.num_readonly_signed_accounts < m.num_required_signatures
     /\ m.num_required_signatures + m.num_readonly_unsigned_accounts <= Len(m.keys)
     /\ m.loaded_writable \cap m.loaded_readonly = {}
     /\ Range(m.keys) \cap (m.loaded_writable \cup m.loaded_readonly) = {}}

\* static_account_keys[from..to]
Slice(m, from, to) == {m.keys[i] : i \in from + 1 .. to}

WritableSigners(m) == m.num_required_signatures - m.num_readonly_signed_accounts

\* Mutant: the readonly keys are not taken off the end.
WritableOthersAll(m) == Len(m.keys)

WritableOthers(m) == Len(m.keys) - m.num_readonly_unsigned_accounts

Accounts(m) ==
  [writable |-> m.loaded_writable
                  \cup Slice(m, 0, WritableSigners(m))
                  \cup Slice(m, m.num_required_signatures, WritableOthers(m)),
   readable |-> m.loaded_readonly
                  \cup Slice(m, WritableSigners(m), m.num_required_signatures)
                  \cup Slice(m, Len(m.keys) - m.num_readonly_unsigned_accounts, Len(m.keys)),
   signers |-> Slice(m, 0, m.num_required_signatures),
   fee_payer |-> m.keys[1]]

-----------------------------------------------------------------------------
\* What an instruction is for the conversion: a request to the compute budget
\* ("other" are the rest of them and data that does not decode), a precompile
\* with the first byte of its data, 0 without data, or anything else.
Instruction ==
       [program : {"compute_budget"}, request : {"limit"}, value : UnitLimit]
  \cup [program : {"compute_budget"}, request : {"price"}, value : UnitPrice]
  \cup [program : {"compute_budget"}, request : {"other"}, value : {0}]
  \cup [program : {"ed25519", "secp256k1"}, value : 0 .. MaxSignatures]
  \cup [program : {"any"}, value : {0}]

Instructions == UNION {[1 .. n -> Instruction] : n \in 0 .. MaxInstructions}

\* Bound: every message with one list of instructions, and every list of
\* instructions with one message.
Transaction ==
  [message : Message, signatures : {1}, instructions : {<<>>}, is_vote : BOOLEAN]
    \cup [message : {CHOOSE m \in Message : TRUE}, signatures : 1 .. MaxSignatures,
          instructions : Instructions, is_vote : {FALSE}]

NoLimit == -1
AtMost(limit) == IF limit < MAX_COMPUTE_UNIT_LIMIT THEN limit ELSE MAX_COMPUTE_UNIT_LIMIT

\* Mutant: the continue after a compute budget instruction is missing.
CountedAll(ix) == 1

Counted(ix) == IF ix.program = "compute_budget" THEN 0 ELSE 1

\* One round of the loop over the instructions.
Scan(budget, ix) ==
  LET asks(request) == ix.program = "compute_budget" /\ ix.request = request
  IN  [unit_limit |-> IF asks("limit") THEN AtMost(ix.value) ELSE budget.unit_limit,
       unit_price |-> IF asks("price") THEN ix.value ELSE budget.unit_price,
       ixs_count |-> budget.ixs_count + Counted(ix),
       sigs_count |-> budget.sigs_count
                        + IF ix.program \in {"ed25519", "secp256k1"} THEN ix.value ELSE 0]

\* The fields of a GeyserTransaction that depend on the instructions.
Budget(signatures, instructions) ==
  LET scanned == FoldLeft(Scan, [unit_limit |-> NoLimit, unit_price |-> 0,
                                 ixs_count |-> 0, sigs_count |-> signatures], instructions)
  IN  [sigs_count |-> scanned.sigs_count,
       unit_price |-> scanned.unit_price,
       unit_limit |->
         IF scanned.unit_limit # NoLimit THEN scanned.unit_limit
         ELSE AtMost(scanned.ixs_count * DEFAULT_INSTRUCTION_COMPUTE_UNIT_LIMIT)]

\* txmon's expected_fee.  The product wraps in a release build.
ExpectedFee(tx) ==
  LET extra_fee == (tx.unit_limit * tx.unit_price) % (U64_MAX + 1)
  IN  extra_fee \div MicroLamports
        + (IF extra_fee % MicroLamports > 0 THEN 1 ELSE 0)
        + LamportsPerSignature * tx.sigs_count

\* What the statistics read of the transaction converted.
From(tx) ==
  [vote |-> tx.is_vote,
   unit_price |-> Budget(tx.signatures, tx.instructions).unit_price,
   accounts |-> [writable |-> Accounts(tx.message).writable,
                 readable |-> Accounts(tx.message).readable]]

-----------------------------------------------------------------------------
\* Every key of the message is in exactly one of the two lists, and the fee
\* payer signs and is writable.
Partitioned(m) ==
  LET accounts == Accounts(m)
  IN  /\ accounts.writable \cup accounts.readable
           = Range(m.keys) \cup m.loaded_writable \cup m.loaded_readonly
      /\ accounts.writable \cap accounts.readable = {}
      /\ Cardinality(accounts.signers) = m.num_required_signatures
      /\ accounts.fee_payer \in accounts.signers \cap accounts.writable

(***************************************************************************)
(* What the runtime charges (external): LamportsPerSignature for every     *)
(* signature, those a precompile verifies included, and the price of the   *)
(* compute units reserved, rounded up.  It rejects a transaction that asks *)
(* twice for the same.                                                     *)
(***************************************************************************)
Asked(instructions, request) ==
  {i \in DOMAIN instructions :
     instructions[i].program = "compute_budget" /\ instructions[i].request = request}

Accepted(instructions) ==
  \A request \in {"limit", "price"} : Cardinality(Asked(instructions, request)) <= 1

Reserved(instructions) ==
  LET limits == {instructions[i].value : i \in Asked(instructions, "limit")}
      run == {i \in DOMAIN instructions : instructions[i].program # "compute_budget"}
  IN  Min(limits \cup {MAX_COMPUTE_UNIT_LIMIT} \cup
          (IF limits = {} THEN {Cardinality(run) * DEFAULT_INSTRUCTION_COMPUTE_UNIT_LIMIT} ELSE {}))

Price(instructions) ==
  Max({0} \cup {instructions[i].value : i \in Asked(instructions, "price")})

Charged(signatures, instructions) ==
  LET verified(i) == IF instructions[i].program \in {"ed25519", "secp256k1"}
                     THEN instructions[i].value ELSE 0
      units == Reserved(instructions) * Price(instructions)
  IN  LamportsPerSignature * (signatures + SumFunction([i \in DOMAIN instructions |-> verified(i)]))
        + (units + MicroLamports - 1) \div MicroLamports

\* txmon.rs:51-57 agrees with the runtime, unless limit * price exceeds a u64.
Explained(signatures, instructions) ==
  Accepted(instructions) /\ Reserved(instructions) * Price(instructions) <= U64_MAX =>
    ExpectedFee(Budget(signatures, instructions)) = Charged(signatures, instructions)
=============================================================================
