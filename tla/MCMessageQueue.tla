---------------------------- MODULE MCMessageQueue ----------------------------
(***************************************************************************)
(* MessageQueue for TLC: a sender of each interface, and a receiver that   *)
(* uses both; the sender of the old one and the receiver may also remove   *)
(* the queue.                                                              *)
(***************************************************************************)
EXTENDS MessageQueue

CONSTANTS s1, s2, r
MCCallsOf ==
    (s1 :> {"MQ_push"})
      @@ (s2 :> {"MQ_init create", "MQ_send", "MQ_deinit", "MQ_stat"})
      @@ (r :> {"MQ_init", "MQ_pop", "MQ_recv", "MQ_clear", "MQ_kill"})
MCCalls == (s1 :> 2) @@ (s2 :> 3) @@ (r :> 4)
===============================================================================
