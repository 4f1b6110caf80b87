------------------------------ MODULE Backend ------------------------------
(***************************************************************************)
(* The solfees-be process (bin/solfees-be.rs): main, the update loop and   *)
(* the two HTTP servers it joins, and the order in which it stops them.    *)
(* Requests are those of RpcRequests.                                      *)
(***************************************************************************)
EXTENDS RpcRequests

VARIABLES
  main,    \* where main2 is
  notify,  \* the servers whose Notify holds a permit
  server   \* each server: accepting, draining its connections, finished

vars == <<rpcVars, main, notify, server>>

Server == {"admin", "solfees"}
Stopping == {"stop loop", "stop admin", "stop solfees"}

TypeOK ==
  /\ RpcTypeOK
  /\ main \in {"serving", "joining", "finished", "failed", "killed"} \cup Stopping
  /\ notify \subseteq Server
  /\ server \in [Server -> {"accepting", "draining", "finished"}]

Init ==
  /\ RpcInit
  /\ main = "serving"
  /\ notify = {}
  /\ server = [s \in Server |-> "accepting"]

-----------------------------------------------------------------------------
\* main2: the message loop.
Running == main \notin {"finished", "failed", "killed"}

ForwardMessage ==
  /\ main = "serving"
  /\ PushGeyserMessage
  /\ UNCHANGED <<main, notify, server>>

\* A signal, or the Redis consumer has finished.
Break ==
  /\ main = "serving"
  /\ main' = "stop loop"
  /\ UNCHANGED <<rpcVars, notify, server>>

\* The Redis consumer or one of the tasks reports an error: main returns it.
\* solana_rpc.shutdown()? is left out: it fails only when the update loop is
\* gone before, which a panic alone would bring about.
Fail ==
  /\ main \in {"serving", "joining"}
  /\ main' = "failed"
  /\ UNCHANGED <<rpcVars, notify, server>>

\* Mutant: solana_rpc.shutdown() forgotten.
StopLoopNot == main = "stop loop" /\ main' = "stop admin" /\ UNCHANGED <<rpcVars, notify, server>>

StopLoop ==
  /\ main = "stop loop"
  /\ QueueStop
  /\ main' = "stop admin"
  /\ UNCHANGED <<notify, server>>

StopAdmin ==
  /\ main = "stop admin"
  /\ notify' = notify \cup {"admin"}
  /\ main' = "stop solfees"
  /\ UNCHANGED <<rpcVars, server>>

StopSolfees ==
  /\ main = "stop solfees"
  /\ notify' = notify \cup {"solfees"}
  /\ main' = "joining"
  /\ UNCHANGED <<rpcVars, server>>

\* try_join_all is ready: the loop and both servers have returned.
Join ==
  /\ main = "joining"
  /\ loop = "stopped"
  /\ \A s \in Server : server[s] = "finished"
  /\ main' = "finished"
  /\ UNCHANGED <<rpcVars, notify, server>>

SecondSignal ==
  /\ main = "joining"
  /\ main' = "killed"
  /\ UNCHANGED <<rpcVars, notify, server>>

MainStep == StopLoop \/ StopAdmin \/ StopSolfees \/ Join

-----------------------------------------------------------------------------
\* rpc_server.rs: the accept loop ends when notified, then the connections
\* in flight are waited for.
Notified(s) ==
  /\ Running
  /\ server[s] = "accepting" /\ s \in notify
  /\ server' = [server EXCEPT ![s] = "draining"]
  /\ notify' = notify \ {s}
  /\ UNCHANGED <<rpcVars, main>>

Connections(s) ==
  IF s = "solfees" THEN {c \in Client : status[c] \in {"reading", "waiting"}} ELSE {}

Drained(s) == Connections(s) = {}

GracefulShutdown(s) ==
  /\ Running
  /\ server[s] = "draining" /\ Drained(s)
  /\ server' = [server EXCEPT ![s] = "finished"]
  /\ UNCHANGED <<rpcVars, main, notify>>

\* Everything else runs on the same runtime, which goes away with main.
Rpc(action) ==
  /\ Running
  /\ action
  /\ UNCHANGED <<main, notify, server>>

Accept(c) == server["solfees"] = "accepting" /\ Rpc(Connect(c))

SendBody(c) == Rpc(BadBody(c)) \/ \E b \in Bodies : Rpc(Request(c, b))

Next ==
  \/ ForwardMessage \/ Break \/ Fail \/ MainStep \/ SecondSignal
  \/ \E s \in Server : Notified(s) \/ GracefulShutdown(s)
  \/ Rpc(Loop)
  \/ \E c \in Client :
       \/ Accept(c)
       \/ SendBody(c)
       \/ Rpc(Receive(c))
       \/ Rpc(Timeout(c))
       \/ Rpc(ConnectionClosed(c))
       \/ Rpc(Cancel(c))

Spec == Init /\ [][Next]_vars

(***************************************************************************)
(* Every task that can run is scheduled, and a client that has begun a     *)
(* body ends it: the servers set no limit on that.  Signals, timeouts and  *)
(* clients that hang up are not to be relied on.                           *)
(***************************************************************************)
FairSpec ==
  /\ Spec
  /\ WF_vars(MainStep)
  /\ WF_vars(Rpc(Loop))
  /\ \A s \in Server : WF_vars(Notified(s)) /\ WF_vars(GracefulShutdown(s))
  /\ \A c \in Client : WF_vars(Rpc(Receive(c))) /\ WF_vars(SendBody(c))

-----------------------------------------------------------------------------
(***************************************************************************)
(* A shutdown comes to its end by itself: no request in flight, queued or  *)
(* half answered, keeps main from joining its tasks, whatever the order in *)
(* which the loop and the servers see it, and no client is left without an *)
(* answer or an error.                                                     *)
(***************************************************************************)
ShutdownCompletes ==
  main = "stop loop" ~>
    \/ main \in {"failed", "killed"}
    \/ main = "finished" /\ \A c \in Client : status[c] \notin {"reading", "waiting"}
=============================================================================
