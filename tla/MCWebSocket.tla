---------------------------- MODULE MCWebSocket ----------------------------
(***************************************************************************)
(* More updates than the channel holds: a receiver can be overrun, before  *)
(* it has subscribed and after.                                            *)
(***************************************************************************)
EXTENDS WebSocket

TwiceTheChannel == 2 * StreamsChannelCapacity
=============================================================================
