---------------------------- MODULE MCMsgChannel ----------------------------
(***************************************************************************)
(* Model checking of the v1 channel: more senders than slots, so that two  *)
(* can sleep on a full channel while the third takes the slot a wakeup was *)
(* meant for; and of the latency the benchmark measures with it, of a      *)
(* message whose stamp is chosen at the start.                             *)
(***************************************************************************)
EXTENDS MsgChannel, BenchmarkLatency

MCInit == Init /\ LatencyInit
MCSpec == MCInit /\ [][Next /\ UNCHANGED send_time]_<<vars, send_time>> /\ Fairness
=============================================================================
