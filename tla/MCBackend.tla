----------------------------- MODULE MCBackend -----------------------------
(***************************************************************************)
(* Two requests and a queue for one of them.  The bodies reach every       *)
(* endpoint and mix calls answered at once with queued ones in both        *)
(* orders; one is empty, one is too long, one is sent to a websocket path. *)
(***************************************************************************)
EXTENDS Backend

CONSTANTS c1, c2
MCClient == {c1, c2}

LatestBlockhash == Method("getLatestBlockhash", Array(<<>>))
Fees(config) == Method("getRecentPrioritizationFees", Array(<<Null, Config(config)>>))
FilteredFees == Method("getRecentPrioritizationFees", Array(<<Null>>))
CurrentSlot == Method("getSlot", Array(<<>>))
Version == Method("getVersion", NoParams)

MCBodies ==
  {[path |-> "solana", calls |-> <<>>],
   [path |-> "solana", calls |-> <<LatestBlockhash>>],
   [path |-> "solana_triton",
    calls |-> <<Fees([f \in {"percentile"} |-> Number(MaxPercentile)]),
                Fees([f \in {"percentile"} |-> Number(MaxPercentile + 1)]),
                CurrentSlot>>],
   [path |-> "solfees", calls |-> <<CurrentSlot, FilteredFees>>],
   [path |-> "solana_solfees",
    calls |-> <<FilteredFees, LatestBlockhash, Version, Notification>>],
   [path |-> "solfees_ws", calls |-> <<>>]}
=============================================================================
