----------------------------- MODULE JsonlWriter -----------------------------
(***************************************************************************)
(* The JSONL event sink (harness/jsonl.go): callers of Emit hand an event  *)
(* to one writer goroutine through a bounded queue and wait for its        *)
(* acknowledgement, which stands for Write and Sync; Close stops admission,*)
(* waits for what was accepted and ends the writer.  Every caller may give *)
(* up when its context ends.                                               *)
(*                                                                         *)
(* One call of Emit per member of Emitters and one call of Close.  The     *)
(* event engine calls Emit under its own lock, one at a time; the writer   *)
(* itself does not ask for that, so calls overlap here.                    *)
(***************************************************************************)
EXTENDS Integers, SequencesExt

CONSTANTS
  Emitters,   (* calls of Emit                                             *)
  Cap         (* jsonlQueueSize                                            *)

ASSUME JsonlAssumption == Cap \in Nat \ {0}

VARIABLES
  queue,      (* requests                                                  *)
  available,  (* the channel available holds its token                     *)
  admission,  (* who holds the admission token, or "free"                  *)
  closed,     (* closed, and the channel stop                              *)
  failed,     (* a Write or Sync failed                                    *)
  current,    (* the request the writer works on: <<>> or <<e>>            *)
  writer,     (* "running", or how it exited: "exited" or "closeFailed"    *)
  ack,        (* what was put in the ack channel of each request           *)
  pc, result, (* per call of Emit: where it is, what it returned           *)
  ended,      (* calls whose context has ended; "close" is the call of     *)
              (* Close                                                     *)
  closePc, closeResult,
  accepted,   (* requests in the order of acceptance (history)             *)
  written     (* the events that reached the file, in order                *)

vars == <<queue, available, admission, closed, failed, current, writer, ack, pc,
          result, ended, closePc, closeResult, accepted, written>>

Results == {"none", "ok", "error", "ctx", "closed"}

Init ==
  /\ queue = <<>> /\ available = FALSE /\ admission = "free"
  /\ closed = FALSE /\ failed = FALSE /\ current = <<>> /\ writer = "running"
  /\ ack = [e \in Emitters |-> "none"]
  /\ pc = [e \in Emitters |-> "idle"] /\ result = [e \in Emitters |-> "none"]
  /\ ended = {} /\ closePc = "idle" /\ closeResult = "none"
  /\ accepted = <<>> /\ written = <<>>

(* Fault: a failed write is forgotten.                                     *)
CurrentErrorOfClose == writer = "closeFailed"

(* currentError: after the writer exited, the errors of writing and        *)
(* closing; before, a failed write.                                        *)
CurrentError == failed \/ writer = "closeFailed"

-----------------------------------------------------------------------------
(* Emit                                                                    *)

At(e, place) == pc' = [pc EXCEPT ![e] = place]
EmitReturns(e, r) == At(e, "returned") /\ result' = [result EXCEPT ![e] = r]

shared == <<queue, available, admission, closed, failed, current, writer, ack,
            closePc, closeResult, accepted, written>>

EmitBegin(e) ==
  /\ pc[e] = "idle"
  /\ At(e, "retry")
  /\ UNCHANGED <<shared, result, ended>>

(* The caller's deadline, at any moment of the call.                       *)
ContextEnds(e) ==
  /\ pc[e] \notin {"idle", "returned"} /\ e \notin ended
  /\ ended' = ended \cup {e}
  /\ UNCHANGED <<shared, pc, result>>

(* The call gives up wherever it looks at its context: at the head of the  *)
(* loop, waiting for admission, for room or for the acknowledgement.       *)
EmitGivesUp(e) ==
  /\ pc[e] \in {"retry", "full", "ack"} /\ e \in ended
  /\ EmitReturns(e, "ctx")
  /\ UNCHANGED <<shared, ended>>

(* lockAdmission, then the checks under it.                                *)
EmitAdmitted(e) ==
  /\ pc[e] = "retry" /\ e \notin ended /\ admission = "free"
  /\ IF CurrentError \/ closed
     THEN /\ EmitReturns(e, IF CurrentError THEN "error" ELSE "closed")
          /\ UNCHANGED admission
     ELSE /\ admission' = "emit"
          /\ At(e, "admitted") /\ UNCHANGED result
  /\ UNCHANGED <<queue, available, closed, failed, current, writer, ack, ended,
                 closePc, closeResult, accepted, written>>

(* Fault: one place too many.                                              *)
HasRoomOver == Len(queue) <= Cap

HasRoom == Len(queue) < Cap

(* The request enters the queue, or finds it full; admission is released.  *)
Enqueue(e) ==
  /\ pc[e] = "admitted"
  /\ IF HasRoom
     THEN /\ queue' = Append(queue, e) /\ accepted' = Append(accepted, e)
          /\ At(e, "ack")
     ELSE At(e, "full") /\ UNCHANGED <<queue, accepted>>
  /\ admission' = "free"
  /\ UNCHANGED <<available, closed, failed, current, writer, ack, result, ended,
                 closePc, closeResult, written>>

Acknowledged(e) ==
  /\ pc[e] = "ack" /\ ack[e] # "none"
  /\ EmitReturns(e, ack[e])
  /\ UNCHANGED <<shared, ended>>

(* Room, the end of admission or a failure sends a waiting call round the  *)
(* loop; room is a token that one call takes.                              *)
WokenByRoom(e) ==
  /\ pc[e] = "full" /\ available
  /\ available' = FALSE
  /\ At(e, "retry")
  /\ UNCHANGED <<queue, admission, closed, failed, current, writer, ack, result, ended,
                 closePc, closeResult, accepted, written>>

WokenByEnd(e) ==
  /\ pc[e] = "full" /\ (closed \/ failed)
  /\ At(e, "retry")
  /\ UNCHANGED <<shared, result, ended>>

-----------------------------------------------------------------------------
(* The writer                                                              *)

(* Fault: no token for the room that a request leaves.                     *)
RoomUntold == available

(* Taking a request puts the token in place if it is not there.            *)
Room == TRUE

WriterTakes ==
  /\ writer = "running" /\ current = <<>> /\ queue # <<>>
  /\ current' = <<Head(queue)>> /\ queue' = Tail(queue)
  /\ available' = Room
  /\ UNCHANGED <<admission, closed, failed, writer, ack, pc, result, ended,
                 closePc, closeResult, accepted, written>>

(* Fault: the writer goes on after a failure.                              *)
MayWriteAlways == TRUE

MayWrite == ~failed

(* What the request is told.                                               *)
AckOf(wrote) == IF wrote THEN "ok" ELSE "error"

(* Write and Sync of one event, then its acknowledgement; after a failure  *)
(* nothing is written any more.                                            *)
WriterWrites ==
  /\ current # <<>>
  /\ \E wrote \in {FALSE} \cup {b \in {TRUE} : MayWrite} :
       /\ written' = IF wrote THEN Append(written, Head(current)) ELSE written
       /\ failed'  = (failed \/ ~wrote)
       /\ ack' = [ack EXCEPT ![Head(current)] = AckOf(wrote)]
  /\ current' = <<>>
  /\ UNCHANGED <<queue, available, admission, closed, writer, pc, result, ended,
                 closePc, closeResult, accepted>>

(* Fault: a writer that failed waits for more requests.                    *)
MayExitHealthy == ~failed

MayExit == TRUE

(* Stopped and drained, the writer closes the file it owns and exits.      *)
WriterExits ==
  /\ writer = "running" /\ current = <<>> /\ closed /\ queue = <<>> /\ MayExit
  /\ writer' \in {"exited", "closeFailed"}
  /\ UNCHANGED <<queue, available, admission, closed, failed, current, ack, pc, result,
                 ended, closePc, closeResult, accepted, written>>

-----------------------------------------------------------------------------
(* Close                                                                   *)

Closer(place, r) == closePc' = place /\ closeResult' = r

emits == <<queue, available, failed, current, writer, ack, pc, result, accepted, written>>

CloseBegin ==
  /\ closePc = "idle" /\ Closer("lock", "none")
  /\ UNCHANGED <<emits, admission, closed, ended>>

CloseContextEnds ==
  /\ closePc \in {"lock", "wait"} /\ "close" \notin ended
  /\ ended' = ended \cup {"close"}
  /\ UNCHANGED <<emits, admission, closed, closePc, closeResult>>

CloseGivesUp ==
  /\ closePc \in {"lock", "wait"} /\ "close" \in ended
  /\ Closer("returned", "ctx")
  /\ UNCHANGED <<emits, admission, closed, ended>>

(* Fault: Close does not wait for the admission of a request under way.    *)
CloseMayLockAlways == TRUE

CloseMayLock == admission = "free"

(* Admission ends under the admission token.                               *)
CloseStops ==
  /\ closePc = "lock" /\ "close" \notin ended /\ CloseMayLock
  /\ closed' = TRUE
  /\ Closer("wait", "none")
  /\ UNCHANGED <<emits, admission, ended>>

CloseDone ==
  /\ closePc = "wait" /\ writer # "running"
  /\ Closer("returned", IF CurrentError THEN "error" ELSE "ok")
  /\ UNCHANGED <<emits, admission, closed, ended>>

-----------------------------------------------------------------------------
EmitStep(e) == EmitGivesUp(e) \/ EmitAdmitted(e) \/ Enqueue(e) \/ Acknowledged(e)
               \/ WokenByRoom(e) \/ WokenByEnd(e)
WriterStep  == WriterTakes \/ WriterWrites \/ WriterExits
CloseStep   == CloseGivesUp \/ CloseStops \/ CloseDone

Next ==
  \/ \E e \in Emitters : EmitBegin(e) \/ ContextEnds(e) \/ EmitStep(e)
  \/ WriterStep
  \/ CloseBegin \/ CloseContextEnds \/ CloseStep

Spec == Init /\ [][Next]_vars

(* Goroutines run and the file system answers; no caller has to call, and  *)
(* no context has to end.                                                  *)
FairSpec ==
  /\ Spec
  /\ WF_vars(WriterStep) /\ WF_vars(CloseStep)
  /\ \A e \in Emitters : WF_vars(EmitStep(e))

-----------------------------------------------------------------------------
(* Properties                                                              *)

TypeOK ==
  /\ queue \in Seq(Emitters) /\ Len(queue) <= Cap
  /\ current \in {<<>>} \cup {<<e>> : e \in Emitters}
  /\ accepted \in Seq(Emitters) /\ written \in Seq(Emitters)
  /\ available \in BOOLEAN /\ closed \in BOOLEAN /\ failed \in BOOLEAN
  /\ admission \in {"free", "emit"} /\ writer \in {"running", "exited", "closeFailed"}
  /\ ack \in [Emitters -> {"none", "ok", "error"}]
  /\ pc \in [Emitters -> {"idle", "retry", "admitted", "full", "ack", "returned"}]
  /\ result \in [Emitters -> Results] /\ closeResult \in Results
  /\ closePc \in {"idle", "lock", "wait", "returned"}
  /\ ended \subseteq Emitters \cup {"close"}

(* The file holds the accepted events in the order of their acceptance,    *)
(* without a gap: nothing is written after a failed write.                 *)
WrittenInOrder == IsPrefix(written, accepted)

(* "An already accepted event is not discarded when ctx expires; Close     *)
(* drains it": a writer that has exited has answered every request that    *)
(* was ever accepted, whoever gave up meanwhile.                           *)
DrainedAtExit == writer # "running" => \A e \in ToSet(accepted) : ack[e] # "none"

(* What was accepted reaches the file in its order, whoever gives up.      *)
DrainsInOrder == WrittenInOrder /\ DrainedAtExit

(* "Each successful Emit acknowledges both Write and optional Sync": who is *)
(* told of no error has it on disk, an Emit its event, Close every event   *)
(* that was ever accepted.                                                 *)
SuccessIsDurable ==
  /\ \A e \in Emitters : result[e] = "ok" => e \in ToSet(written)
  /\ closeResult = "ok" => written = accepted

Busy(e) == pc[e] \notin {"idle", "returned"}

(* "Close stops admission and waits for accepted writes, Sync, and the     *)
(* worker": it returns, and so does every Emit, also without a deadline.   *)
CloseReturns ==
  /\ (closePc # "idle") ~> (closePc = "returned")
  /\ (closePc # "idle" /\ closed) ~> (\A e \in Emitters : ~Busy(e))

(* "Emit waits for durable delivery or ctx": an Emit returns although its  *)
(* context never ends, as long as the writer works.                        *)
EmitDelivers == \A e \in Emitters : (pc[e] # "idle") ~> (pc[e] = "returned")

(* The same where it holds: when calls of Emit do not overlap, as the      *)
(* engine's lock guarantees, and when no context ends, however many calls  *)
(* wait for the one token of room.                                         *)
EmitDeliversUnlessAbandoned ==
  \/ [](\A e, f \in Emitters : Busy(e) /\ Busy(f) => e = f)
  \/ [](ended = {})
  => EmitDelivers

(* No call of the sink is left waiting for another.                        *)
SinkReturns == CloseReturns /\ EmitDeliversUnlessAbandoned
=============================================================================
