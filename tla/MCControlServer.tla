--------------------------- MODULE MCControlServer ---------------------------
(* An instance of ControlServer for TLC. *)
EXTENDS ControlServer

(* The runner draws a fresh random command ID for every call.              *)
FreshIDs == [c \in Calls |-> c]

(* What the environment has begun.                                         *)
Begun == {s \in Streams : phase[s] # "hello"} \cup {c \in Calls : pc[c] # "idle"}

(* A command is canceled once its call has begun.                          *)
CancelsBegun ==
  \A s \in Streams, c \in CancelCalls :
    \/ pc'[c] # "idle"
    \/ \A i \in DOMAIN sendCh'[s] : sendCh'[s][i] # [kind |-> "cancel", call |-> c]

(* The bound: two calls, one of them canceled, compete for one stream, or  *)
(* one call meets two streams, opened in their order.                      *)
LiveNext ==
  /\ Next
  /\ CancelsBegun
  /\ "s2" \in Begun' => "s1" \in Begun' /\ "c1" \notin Begun'

LiveSpec == Init /\ [][LiveNext]_vars /\ Fairness
=============================================================================
