---------------------------- MODULE FeeRequests ----------------------------
(***************************************************************************)
(* The path of a fee, from both ends: a transaction the node has executed  *)
(* is received, converted and joins its block; a call is asked of every    *)
(* endpoint.  It composes the conversion (GeyserTransactions), the         *)
(* statistics of a block (PrioritizationFees) and the parsing of calls     *)
(* (JsonRpcCalls), which have no state but their input.                    *)
(***************************************************************************)
EXTENDS PrioritizationFees, JsonRpcCalls

ASSUME BasisAssumption == MaxPercentile = Basis

VARIABLES
  received,  \* the transaction update at hand
  asked      \* the call at hand

feeVars == <<transactions, received, asked>>

NoTransaction == [message |-> "none"]
NoCall == [kind |-> "none"]

FeeInit ==
  /\ Init
  /\ received = NoTransaction
  /\ asked = NoCall

\* Bound: at most one input of the three is beyond a few.
Fresh == transactions = <<>> /\ received = NoTransaction /\ asked = NoCall

Receive ==
  /\ Fresh
  /\ received' \in Transaction
  /\ UNCHANGED <<transactions, asked>>

Convert ==
  /\ received # NoTransaction
  /\ Len(transactions) < MaxTransactions
  /\ transactions' = Append(transactions, From(received))
  /\ received' = NoTransaction
  /\ UNCHANGED asked

AddTransaction ==
  /\ received = NoTransaction /\ asked = NoCall
  /\ Next
  /\ UNCHANGED <<received, asked>>

Ask ==
  /\ Fresh
  /\ asked' \in Calls
  /\ UNCHANGED <<transactions, received>>

FeeNext == Receive \/ Convert \/ AddTransaction \/ Ask

FeeSpec == FeeInit /\ [][FeeNext]_feeVars

-----------------------------------------------------------------------------
(***************************************************************************)
(* Every key of a message is in exactly one of the two account lists, and  *)
(* the fee payer signs and is writable (grpc_geyser.rs:95-157): a filter   *)
(* on accounts neither misses a transaction nor matches it both ways,      *)
(* whatever the header.                                                    *)
(***************************************************************************)
AccountsPartitioned == received # NoTransaction => Partitioned(received.message)

(***************************************************************************)
(* The loop over the instructions reads the budget of an accepted          *)
(* transaction as the runtime does, wherever the requests stand: txmon     *)
(* (txmon.rs:51-57) finds no fee it cannot explain, unless limit * price   *)
(* exceeds a u64.                                                          *)
(***************************************************************************)
FeeExplained ==
  received # NoTransaction => Explained(received.signatures, received.instructions)

(***************************************************************************)
(* The endpoints promise each other's behaviour (README.md:80, 123, 142,   *)
(* 146) but parse parameters each on their own: a call without extensions  *)
(* becomes the same request, or the same error, on Solana and Triton; only *)
(* the fees differ between Triton and Solfees; and the frontend differs    *)
(* from Solfees in the shape of the fees only.                             *)
(***************************************************************************)
EndpointsCompatible == asked # NoCall => Compatible(asked)

(***************************************************************************)
(* README.md:127-130: readWrite and readOnly default to [] in the Solfees  *)
(* getRecentPrioritizationFees.                                            *)
(***************************************************************************)
OmittedFiltersDefault ==
  \A fields \in FilterConfigs :
    LET Fees(config) == Method("getRecentPrioritizationFees", Array(<<Config(config)>>))
    IN  /\ asked = Fees(fields)
        /\ "levels" \in DOMAIN fields
        => Dispatch("Solfees", asked)
             = Dispatch("Solfees", Fees([f \in FilterFields |-> Field(fields, f, EmptyList)]))
=============================================================================
