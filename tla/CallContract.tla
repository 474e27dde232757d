---------------------------- MODULE CallContract ----------------------------
(***************************************************************************)
(* What Server.Run and Server.RunPinned promise their callers, without     *)
(* locks, queues, waiters or goroutines: a call is bound to one stream at  *)
(* most, it ends once, and what it ends with is either a failure or an     *)
(* answer to a command that the agent heard on that stream.                *)
(***************************************************************************)
CONSTANTS
  Calls, Streams,
  CmdOf,        (* the command ID each call is made with                   *)
  None

VARIABLES
  stage,        (* "new", "open" once bound to a stream, "closed" for good *)
  bound,        (* the stream an open call is bound to                     *)
  heard,        (* the calls whose command the agent heard on a stream     *)
  verdict       (* what the call ended with                                *)

vars == <<stage, bound, heard, verdict>>

NoVerdict == [kind |-> "none", of |-> None]
Failed    == [kind |-> "failed", of |-> None]

Init ==
  /\ stage   = [c \in Calls |-> "new"]
  /\ bound   = [c \in Calls |-> None]
  /\ heard   = [s \in Streams |-> {}]
  /\ verdict = [c \in Calls |-> NoVerdict]

(* The call is bound to a stream.                                          *)
Open(c, s) ==
  /\ stage[c] = "new"
  /\ stage' = [stage EXCEPT ![c] = "open"]
  /\ bound' = [bound EXCEPT ![c] = s]
  /\ UNCHANGED <<heard, verdict>>

(* The agent hears the command over the stream its call is bound to, which *)
(* may be after the call has ended.                                        *)
Hear(c, s) ==
  /\ bound[c] = s
  /\ heard' = [heard EXCEPT ![s] = @ \cup {c}]
  /\ UNCHANGED <<stage, bound, verdict>>

(* The call ends with a result or an error of the agent, to a command with *)
(* its own ID that was heard on its own stream.                            *)
Answer(c, s) ==
  /\ stage[c] = "open"
  /\ bound[c] = s
  /\ \E d \in heard[s] :
       /\ CmdOf[d] = CmdOf[c]
       /\ verdict' = [verdict EXCEPT ![c] = [kind |-> "answered", of |-> d]]
  /\ stage' = [stage EXCEPT ![c] = "closed"]
  /\ UNCHANGED <<bound, heard>>

(* The call ends without an answer.                                        *)
Fail(c) ==
  /\ stage[c] # "closed"
  /\ verdict' = [verdict EXCEPT ![c] = Failed]
  /\ stage' = [stage EXCEPT ![c] = "closed"]
  /\ UNCHANGED <<bound, heard>>

Next ==
  \E c \in Calls :
    \/ Fail(c)
    \/ \E s \in Streams :
         \/ Open(c, s)
         \/ Hear(c, s)
         \/ Answer(c, s)

Spec == Init /\ [][Next]_vars
=============================================================================
