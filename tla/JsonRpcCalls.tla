---------------------------- MODULE JsonRpcCalls ----------------------------
(***************************************************************************)
(* What one JSON-RPC call becomes (rpc_solana.rs:136-353): a request for   *)
(* the update loop, or an output at once.  It depends on the endpoint the  *)
(* body was sent to (rpc_server.rs:96-114).  JSON, serde and jsonrpc_core  *)
(* are external: a parameter is its type and what the checks look at.      *)
(***************************************************************************)
EXTENDS Integers, FiniteSets, SequencesExt

CONSTANTS
  MAX_TX_ACCOUNT_LOCKS,  \* 128
  MaxLevels,             \* 5
  MaxPercentile          \* 10_000

ASSUME CallsAssumption == {MAX_TX_ACCOUNT_LOCKS, MaxLevels, MaxPercentile} \subseteq Nat

Mode == {"Solana", "Triton", "Solfees", "SolfeesFrontend"}

RpcPath == [solana |-> "Solana", solana_triton |-> "Triton",
            solana_solfees |-> "Solfees", solfees |-> "SolfeesFrontend"]
WebSocketPath == [solana_solfees_ws |-> "Solfees", solfees_ws |-> "SolfeesFrontend"]

\* The path below /api, with _ for /.
Route(path, upgrade) ==
  IF path \in DOMAIN RpcPath THEN [type |-> "Rpc", mode |-> RpcPath[path]]
  ELSE IF path \in DOMAIN WebSocketPath /\ upgrade
       THEN [type |-> "WebSocket", mode |-> WebSocketPath[path]]
       ELSE [type |-> "NotFound"]

-----------------------------------------------------------------------------
\* A field of a config is a number, or a list with its length; valid says
\* that its members pass their own check.  WrongType is anything else.
Number(n) == [n |-> n, valid |-> TRUE]
WrongType == [n |-> -1, valid |-> FALSE]
EmptyList == Number(0)

Numbers == {Number(n) : n \in {0, MaxPercentile, MaxPercentile + 1}} \cup {WrongType}
Lists(max) == [n : 0 .. max + 1, valid : BOOLEAN] \cup {WrongType}

\* A parameter.  Config: the fields an object has, by name.  Other: a value
\* no structure is read from; a config written as the list of its fields,
\* which serde reads by position, is not among the calls.
Null == [type |-> "null"]
Other == [type |-> "other"]
Keys(list) == [type |-> "keys", list |-> list]
Config(fields) == [type |-> "config", fields |-> fields]
NoFields == [f \in {} |-> EmptyList]

\* "params": none at all, an array or an object.
NoParams == [form |-> "none"]
Array(items) == [form |-> "array", items |-> items]
Object(items) == [form |-> "object", items |-> items]

\* serde: a struct is read from an array by position or from an object by
\* name; every field has a default, and unknown names are ignored.
Fits(params, names) ==
  \/ params.form = "object"
  \/ params.form = "array" /\ Len(params.items) <= Len(names)

Argument(params, names, name) ==
  LET key == IF params.form = "array" THEN CHOOSE i \in DOMAIN names : names[i] = name
                                      ELSE name
  IN  IF key \in DOMAIN params.items THEN params.items[key] ELSE Null

\* unwrap_or_default of an optional config or list.
FieldsOf(argument) == IF argument = Null THEN NoFields ELSE argument.fields
ListOf(argument) == IF argument = Null THEN EmptyList ELSE argument.list

HasTypes(fields, names) == \A f \in names \cap DOMAIN fields : fields[f] # WrongType
Field(fields, name, default) == IF name \in DOMAIN fields THEN fields[name] ELSE default

-----------------------------------------------------------------------------
\* Outputs at once, and requests.
Success == [answer |-> "success"]
Failure(error) == [answer |-> "failure", error |-> error]
InvalidParams == Failure("invalid params")
Queued(request) == [answer |-> "queued", request |-> request]

NoNumber == Number(-1)

\* The one parameter of getLatestBlockhash, getSlot and the Solfees fees.
ConfigOf(params) == Argument(params, <<"config">>, "config")

HasConfig(params) ==
  /\ Fits(params, <<"config">>)
  /\ ConfigOf(params).type \in {"null", "config"}

ConfigField(params, name, default) == Field(FieldsOf(ConfigOf(params)), name, default)

\* Flattened into the config as an Option: what is no commitment is none.
Commitment(params) ==
  LET commitment == ConfigField(params, "commitment", Number(0))
  IN  IF commitment.valid THEN commitment ELSE Number(0)

\* rollback is a field of the Triton config.  Solana's config does not know
\* it, so there it has no effect, whatever its type.
GetLatestBlockhash(mode, params) ==
  LET known == {"minContextSlot"} \cup (IF mode = "Solana" THEN {} ELSE {"rollback"})
  IN  IF HasConfig(params) /\ HasTypes(FieldsOf(ConfigOf(params)), known)
      THEN Queued([type |-> "LatestBlockhash",
                   commitment |-> Commitment(params),
                   rollback |-> IF "rollback" \in known
                                THEN ConfigField(params, "rollback", Number(0)) ELSE Number(0),
                   min_context_slot |-> ConfigField(params, "minContextSlot", NoNumber)])
      ELSE InvalidParams

GetSlot(params) ==
  IF HasConfig(params) /\ HasTypes(FieldsOf(ConfigOf(params)), {"minContextSlot"})
  THEN Queued([type |-> "Slot",
               commitment |-> Commitment(params),
               min_context_slot |-> ConfigField(params, "minContextSlot", NoNumber)])
  ELSE InvalidParams

\* Mutant: the option comes before the keys.
FeesNamesSwapped(mode) == IF mode = "Triton" THEN <<"config", "pubkey_strs">> ELSE <<"pubkey_strs">>

FeesNames(mode) == IF mode = "Triton" THEN <<"pubkey_strs", "config">> ELSE <<"pubkey_strs">>

VerifyPubkeys(list) == list.n <= MAX_TX_ACCOUNT_LOCKS /\ list.valid

\* The Solana and Triton endpoints.
GetRecentPrioritizationFees(mode, params) ==
  LET keys == Argument(params, FeesNames(mode), "pubkey_strs")
      config == IF mode = "Triton" THEN Argument(params, FeesNames(mode), "config") ELSE Null
      percentile == Field(FieldsOf(config), "percentile", NoNumber)
  IN  IF /\ Fits(params, FeesNames(mode))
         /\ keys.type = "null" \/ (keys.type = "keys" /\ ListOf(keys) # WrongType)
         /\ config.type \in {"null", "config"}
         /\ percentile # WrongType
         /\ VerifyPubkeys(ListOf(keys))
         /\ percentile.n <= MaxPercentile
      THEN Queued([type |-> "RecentPrioritizationFees",
                   pubkeys |-> ListOf(keys), percentile |-> percentile])
      ELSE InvalidParams

\* ReqParamsSlotsSubscribeConfig: no field of it has a default of its own.
FilterFields == {"readWrite", "readOnly", "levels"}
DefaultFilter == [f \in FilterFields |-> EmptyList]

IsFilter(fields) == FilterFields \subseteq DOMAIN fields /\ HasTypes(fields, FilterFields)

\* SlotSubscribeFilter::try_from.
ValidFilter(filter) ==
  /\ filter["readWrite"].n + filter["readOnly"].n <= MAX_TX_ACCOUNT_LOCKS
  /\ filter["levels"].n <= MaxLevels
  /\ \A f \in FilterFields : filter[f].valid

\* The Solfees endpoints.  SlotsSubscribe reads the same config.
GetFilteredFees(mode, params) ==
  LET fields == IF ConfigOf(params) = Null THEN DefaultFilter ELSE FieldsOf(ConfigOf(params))
  IN  IF HasConfig(params) /\ IsFilter(fields) /\ ValidFilter(fields)
      THEN Queued([type |-> "SolfeesSlots", filter |-> [f \in FilterFields |-> fields[f]],
                   frontend |-> mode = "SolfeesFrontend"])
      ELSE InvalidParams

GetVersion(params) ==
  IF params.form = "none" \/ (params.form = "array" /\ params.items = <<>>)
  THEN Success ELSE InvalidParams

-----------------------------------------------------------------------------
\* kind is "method", "notification" or "invalid", as JsonrpcCall has it.
Method(method, params) == [kind |-> "method", method |-> method, params |-> params]
Notification == [kind |-> "notification"]
Invalid == [kind |-> "invalid"]

Dispatch(mode, call) ==
  CASE call.kind # "method" -> Failure("invalid request")
    [] call.kind = "method" /\ call.method = "getRecentPrioritizationFees" ->
         IF mode \in {"Solana", "Triton"} THEN GetRecentPrioritizationFees(mode, call.params)
                                          ELSE GetFilteredFees(mode, call.params)
    [] call.kind = "method" /\ call.method = "getLatestBlockhash" /\ mode # "SolfeesFrontend" ->
         GetLatestBlockhash(mode, call.params)
    [] call.kind = "method" /\ call.method = "getSlot" /\ mode # "SolfeesFrontend" ->
         GetSlot(call.params)
    [] call.kind = "method" /\ call.method = "getVersion" /\ mode # "SolfeesFrontend" ->
         GetVersion(call.params)
    [] OTHER -> Failure("method not found")

IsQueued(mode, call) == Dispatch(mode, call).answer = "queued"

-----------------------------------------------------------------------------
\* Calls at the limits of what is accepted: every parameter at every place.
ContextConfigs ==
  UNION {[names -> Numbers] :
           names \in SUBSET {"commitment", "minContextSlot", "rollback", "percentile"}}

FilterConfigs ==
  {fields \in UNION {[names -> Lists(MAX_TX_ACCOUNT_LOCKS) \cup Lists(MaxLevels)] :
                       names \in SUBSET FilterFields} :
     "levels" \in DOMAIN fields => fields["levels"] \in Lists(MaxLevels)}

Parameters ==
  {Null, Other} \cup {Keys(list) : list \in Lists(MAX_TX_ACCOUNT_LOCKS)}
    \cup {Config(fields) : fields \in ContextConfigs \cup FilterConfigs}

ParamLists ==
  {NoParams, Array(<<>>)} \cup {Array(<<p>>) : p \in Parameters}
    \cup {Array(<<p, Config(fields)>>) :
            p \in {Null} \cup {Keys(list) : list \in Lists(MAX_TX_ACCOUNT_LOCKS)},
            fields \in ContextConfigs}
    \cup {Object([name \in {"config"} |-> p]) : p \in Parameters}
    \cup {Object([name \in {"pubkey_strs"} |-> p]) : p \in Parameters}

Calls ==
  {Notification, Invalid} \cup
  {Method(method, params) :
     method \in {"getLatestBlockhash", "getRecentPrioritizationFees", "getSlot",
                 "getVersion", "getBlock"},
     params \in ParamLists}

\* What the original API does not have.
UsesExtension(call) ==
  /\ call.kind = "method" /\ call.params.form # "none"
  /\ \/ /\ call.method = "getLatestBlockhash"
        /\ Fits(call.params, <<"config">>)
        /\ ConfigOf(call.params).type = "config"
        /\ "rollback" \in DOMAIN FieldsOf(ConfigOf(call.params))
     \/ /\ call.method = "getRecentPrioritizationFees"
        /\ IF call.params.form = "array" THEN Len(call.params.items) > 1
                                         ELSE "config" \in DOMAIN call.params.items

\* The four endpoints on one call.
Compatible(call) ==
  LET solana == Dispatch("Solana", call)
      triton == Dispatch("Triton", call)
      solfees == Dispatch("Solfees", call)
      frontend == Dispatch("SolfeesFrontend", call)
  IN  /\ ~UsesExtension(call) => triton = solana
      /\ IF call.kind = "method" /\ call.method = "getRecentPrioritizationFees"
         THEN /\ solfees.answer = frontend.answer
              /\ solfees.answer = "queued" => solfees.request.filter = frontend.request.filter
         ELSE solfees = triton /\ frontend.answer = "failure"
=============================================================================
