--------------------------- MODULE JsonlWriterProofs -------------------------
(***************************************************************************)
(* What holds of the JSONL sink for any number of calls of Emit and any    *)
(* size of its queue, in every interleaving of callers, writer and Close.  *)
(*                                                                         *)
(* The inductive invariant follows each accepted request through the sink: *)
(* accepted is what was processed, then what the writer holds, then the    *)
(* queue (Pipeline), and admission is what keeps Close from missing a      *)
(* request on its way into the queue (Admission).                          *)
(***************************************************************************)
EXTENDS JsonlWriter, TLAPS

(* The number of requests the writer is done with.                         *)
Processed == Len(accepted) - Len(queue) - Len(current)

Pipeline ==
  /\ Processed \in Nat
  /\ \A i \in 1 .. Len(queue) : queue[i] = accepted[Processed + Len(current) + i]
  /\ current # <<>> => current = <<accepted[Processed + 1]>>
  /\ \A i \in 1 .. Processed : ack[accepted[i]] # "none"

File ==
  /\ Len(written) <= Processed /\ (~failed => Len(written) = Processed)
  /\ \A i \in 1 .. Len(written) : written[i] = accepted[i]

Admission ==
  /\ \A e \in Emitters : pc[e] = "admitted" => admission = "emit" /\ ~closed
  /\ \A e, f \in Emitters : pc[e] = "admitted" /\ pc[f] = "admitted" => e = f
  /\ admission = "emit" => \E e \in Emitters : pc[e] = "admitted"
  /\ writer # "running" => closed /\ queue = <<>> /\ current = <<>>

Told ==
  /\ \A e \in Emitters : ack[e] = "ok" => \E i \in 1 .. Len(written) : written[i] = e
  /\ \A e \in Emitters : result[e] = "ok" => \E i \in 1 .. Len(written) : written[i] = e
  /\ closeResult = "ok" => writer = "exited" /\ ~failed

SinkInv == TypeOK /\ Pipeline /\ File /\ Admission /\ Told

LEMMA CurrentType ==
  ASSUME TypeOK
  PROVE  /\ current \in Seq(Emitters) /\ Len(current) \in {0, 1}
         /\ current = <<>> <=> Len(current) = 0
         /\ current # <<>> => Head(current) \in Emitters
<1>1. CASE current = <<>>
  BY <1>1
<1>2. ASSUME NEW e \in Emitters, current = <<e>>
      PROVE  /\ current \in Seq(Emitters) /\ Len(current) \in {0, 1}
             /\ current = <<>> <=> Len(current) = 0
             /\ current # <<>> => Head(current) \in Emitters
  BY <1>2
<1>. QED BY <1>1, <1>2 DEF TypeOK

LEMMA SinkInit == Init => SinkInv
<1> SUFFICES ASSUME Init PROVE SinkInv
  OBVIOUS
<1>1. Len(<<>>) = 0 /\ <<>> \in Seq(Emitters) /\ 0 <= Cap
  BY JsonlAssumption
<1>2. TypeOK
  <2>1. queue \in Seq(Emitters) /\ Len(queue) <= Cap
    BY <1>1 DEF Init
  <2>2. /\ current \in {<<>>} \cup {<<e>> : e \in Emitters}
        /\ accepted \in Seq(Emitters) /\ written \in Seq(Emitters)
    BY <1>1 DEF Init
  <2>3. /\ ack \in [Emitters -> {"none", "ok", "error"}]
        /\ pc \in [Emitters -> {"idle", "retry", "admitted", "full", "ack", "returned"}]
        /\ result \in [Emitters -> Results] /\ closeResult \in Results
    BY DEF Init, Results
  <2>. QED BY <2>1, <2>2, <2>3 DEF Init, TypeOK
<1>3. Processed = 0 /\ Len(written) = 0
  <2>1. Len(accepted) = 0 /\ Len(queue) = 0 /\ Len(current) = 0 /\ Len(written) = 0
    BY <1>1 DEF Init
  <2>. QED BY <2>1 DEF Processed
<1>4. Pipeline /\ File
  BY <1>3 DEF Init, Pipeline, File
<1>5. Admission /\ Told
  BY DEF Init, Admission, Told
<1>. QED BY <1>2, <1>4, <1>5 DEF SinkInv

(* Steps that leave the requests and the file alone.                       *)
LEMMA SinkFrame ==
  ASSUME SinkInv, UNCHANGED <<queue, current, accepted, written, ack, failed>>
  PROVE  Pipeline' /\ File'
  BY DEF SinkInv, Pipeline, File, Processed

(* A call of Emit that moves, and returns at most an error.                *)
LEMMA CallerSteps ==
  ASSUME SinkInv, NEW e \in Emitters,
         EmitBegin(e) \/ ContextEnds(e) \/ EmitGivesUp(e) \/ WokenByRoom(e) \/ WokenByEnd(e)
  PROVE  SinkInv'
<1>1. UNCHANGED <<queue, current, accepted, written, ack, failed, closed, admission, writer,
                  closePc, closeResult>>
  BY DEF EmitBegin, ContextEnds, EmitGivesUp, WokenByRoom, WokenByEnd, shared
<1>2. TypeOK'
  <2>1. available' \in BOOLEAN /\ ended' \subseteq Emitters \cup {"close"}
    BY DEF SinkInv, TypeOK, EmitBegin, ContextEnds, EmitGivesUp, WokenByRoom, WokenByEnd, shared
  <2>2. pc' \in [Emitters -> {"idle", "retry", "admitted", "full", "ack", "returned"}]
    BY DEF SinkInv, TypeOK, EmitBegin, ContextEnds, EmitGivesUp, WokenByRoom, WokenByEnd,
       At, EmitReturns
  <2>3. result' \in [Emitters -> Results]
    BY DEF SinkInv, TypeOK, EmitBegin, ContextEnds, EmitGivesUp, WokenByRoom, WokenByEnd,
       shared, At, EmitReturns, Results
  <2>. QED BY <1>1, <2>1, <2>2, <2>3 DEF SinkInv, TypeOK
<1>3. Pipeline' /\ File'
  BY <1>1, SinkFrame
<1>4. \A f \in Emitters : pc'[f] = "admitted" <=> pc[f] = "admitted"
  BY DEF SinkInv, TypeOK, EmitBegin, ContextEnds, EmitGivesUp, WokenByRoom, WokenByEnd,
     shared, At, EmitReturns
<1>5. Admission'
  BY <1>1, <1>4 DEF SinkInv, Admission
<1>6. \A f \in Emitters : result'[f] = "ok" => result[f] = "ok"
  BY DEF SinkInv, TypeOK, EmitBegin, ContextEnds, EmitGivesUp, WokenByRoom, WokenByEnd,
     shared, At, EmitReturns
<1>7. Told'
  BY <1>1, <1>6 DEF SinkInv, Told
<1>. QED BY <1>2, <1>3, <1>5, <1>7 DEF SinkInv

LEMMA AdmittedStep ==
  ASSUME SinkInv, NEW e \in Emitters, EmitAdmitted(e)
  PROVE  SinkInv'
<1>1. UNCHANGED <<queue, current, accepted, written, ack, failed, closed, writer,
                  closePc, closeResult, available, ended>>
  BY DEF EmitAdmitted
<1>2. TypeOK'
  BY <1>1 DEF SinkInv, TypeOK, EmitAdmitted, At, EmitReturns, Results
<1>3. Pipeline' /\ File'
  BY <1>1, SinkFrame
<1>4. \A f \in Emitters : pc[f] # "admitted"
  BY DEF SinkInv, Admission, EmitAdmitted
<1>5. Admission'
  <2>1. CASE CurrentError \/ closed
    <3>1. admission' = admission /\ \A f \in Emitters : pc'[f] # "admitted"
      BY <1>4, <2>1 DEF SinkInv, TypeOK, EmitAdmitted, At, EmitReturns
    <3>. QED BY <1>1, <3>1 DEF SinkInv, Admission, EmitAdmitted
  <2>2. CASE ~(CurrentError \/ closed)
    <3>1. admission' = "emit" /\ \A f \in Emitters : pc'[f] = "admitted" <=> f = e
      BY <1>4, <2>2 DEF SinkInv, TypeOK, EmitAdmitted, At
    <3>. QED BY <1>1, <2>2, <3>1 DEF SinkInv, Admission
  <2>. QED BY <2>1, <2>2
<1>6. \A f \in Emitters : result'[f] = "ok" => result[f] = "ok"
  BY DEF SinkInv, TypeOK, EmitAdmitted, At, EmitReturns
<1>7. Told'
  BY <1>1, <1>6 DEF SinkInv, Told
<1>. QED BY <1>2, <1>3, <1>5, <1>7 DEF SinkInv

LEMMA EnqueueStep ==
  ASSUME SinkInv, NEW e \in Emitters, Enqueue(e)
  PROVE  SinkInv'
<1>1. UNCHANGED <<current, written, ack, failed, closed, writer, result,
                  closePc, closeResult, available, ended>>
  BY DEF Enqueue
<1>2. queue \in Seq(Emitters) /\ accepted \in Seq(Emitters) /\ written \in Seq(Emitters)
      /\ Len(queue) \in Nat /\ Len(accepted) \in Nat /\ Len(current) \in {0, 1}
  BY CurrentType DEF SinkInv, TypeOK
<1>3. admission' = "free" /\ \A f \in Emitters : pc'[f] # "admitted"
  BY DEF SinkInv, TypeOK, Admission, Enqueue, At
<1>4. Admission'
  <2>1. writer = "running"
    BY DEF SinkInv, Admission, TypeOK, Enqueue
  <2>. QED BY <1>1, <1>3, <2>1 DEF Admission
<1>5. Told'
  BY <1>1 DEF SinkInv, Told
<1>6. CASE ~HasRoom
  <2>1. UNCHANGED <<queue, accepted>>
    BY <1>6 DEF Enqueue
  <2>2. TypeOK'
    BY <1>1, <1>3, <1>6, <2>1 DEF SinkInv, TypeOK, Enqueue, At
  <2>. QED BY <1>1, <1>4, <1>5, <2>1, <2>2, SinkFrame DEF SinkInv
<1>7. CASE HasRoom
  <2>1. queue' = Append(queue, e) /\ accepted' = Append(accepted, e)
    BY <1>7 DEF Enqueue
  <2>2. TypeOK'
    <3>1. queue' \in Seq(Emitters) /\ Len(queue') <= Cap /\ accepted' \in Seq(Emitters)
      BY <1>2, <1>7, <2>1, JsonlAssumption DEF HasRoom
    <3>. QED BY <1>1, <1>3, <1>7, <3>1 DEF SinkInv, TypeOK, Enqueue, At
  <2>3. /\ Len(queue') = Len(queue) + 1 /\ Len(accepted') = Len(accepted) + 1
        /\ \A i \in 1 .. Len(queue) : queue'[i] = queue[i]
        /\ \A i \in 1 .. Len(accepted) : accepted'[i] = accepted[i]
        /\ queue'[Len(queue) + 1] = e /\ accepted'[Len(accepted) + 1] = e
    BY <1>2, <2>1
  <2>4. Processed' = Processed /\ Processed + Len(current) + Len(queue) = Len(accepted)
    BY <1>1, <1>2, <2>3 DEF Processed
  <2>5. Processed \in Nat
    BY DEF SinkInv, Pipeline
  <2>6. \A i \in 1 .. Len(queue') : queue'[i] = accepted'[Processed' + Len(current') + i]
    <3>. SUFFICES ASSUME NEW i \in 1 .. Len(queue')
                  PROVE  queue'[i] = accepted'[Processed + Len(current) + i]
      BY <1>1, <2>4
    <3>1. CASE i = Len(queue) + 1
      BY <1>2, <2>3, <2>4, <2>5, <3>1
    <3>2. CASE i # Len(queue) + 1
      <4>1. i \in 1 .. Len(queue) /\ Processed + Len(current) + i \in 1 .. Len(accepted)
        BY <1>2, <2>3, <2>4, <2>5, <3>2
      <4>. QED BY <2>3, <4>1 DEF SinkInv, Pipeline
    <3>. QED BY <3>1, <3>2
  <2>7. current # <<>> => Processed + 1 \in 1 .. Len(accepted)
    BY <1>2, <2>4, <2>5, CurrentType DEF SinkInv
  <2>8. \A i \in 1 .. Processed : i \in 1 .. Len(accepted)
    BY <1>2, <2>4, <2>5
  <2>9. Pipeline'
    BY <1>1, <2>3, <2>4, <2>5, <2>6, <2>7, <2>8 DEF SinkInv, Pipeline
  <2>10. File'
    <3>1. \A i \in 1 .. Len(written) : i \in 1 .. Len(accepted)
      BY <1>2, <2>4, <2>5 DEF SinkInv, File
    <3>. QED BY <1>1, <2>3, <2>4, <3>1 DEF SinkInv, File
  <2>. QED BY <1>4, <1>5, <2>2, <2>9, <2>10 DEF SinkInv
<1>. QED BY <1>6, <1>7

LEMMA AcknowledgedStep ==
  ASSUME SinkInv, NEW e \in Emitters, Acknowledged(e)
  PROVE  SinkInv'
<1>1. UNCHANGED <<queue, current, accepted, written, ack, failed, closed, writer, admission,
                  closePc, closeResult, available, ended>>
  BY DEF Acknowledged, shared
<1>2. TypeOK'
  BY <1>1 DEF SinkInv, TypeOK, Acknowledged, At, EmitReturns, Results
<1>3. Pipeline' /\ File'
  BY <1>1, SinkFrame
<1>4. \A f \in Emitters : pc'[f] = "admitted" <=> pc[f] = "admitted"
  BY DEF SinkInv, TypeOK, Acknowledged, At, EmitReturns
<1>5. Admission'
  BY <1>1, <1>4 DEF SinkInv, Admission
<1>6. \A f \in Emitters : result'[f] = "ok" => result[f] = "ok" \/ ack[f] = "ok"
  BY DEF SinkInv, TypeOK, Acknowledged, At, EmitReturns
<1>7. Told'
  BY <1>1, <1>6 DEF SinkInv, Told
<1>. QED BY <1>2, <1>3, <1>5, <1>7 DEF SinkInv

LEMMA TakesStep ==
  ASSUME SinkInv, WriterTakes
  PROVE  SinkInv'
<1>1. UNCHANGED <<accepted, written, ack, failed, closed, writer, admission, pc, result,
                  closePc, closeResult, ended>>
  BY DEF WriterTakes
<1>2. /\ queue \in Seq(Emitters) /\ queue # <<>> /\ accepted \in Seq(Emitters)
      /\ current = <<>> /\ Len(current) = 0 /\ Len(queue) \in Nat /\ Len(accepted) \in Nat
      /\ written \in Seq(Emitters) /\ Len(written) \in Nat /\ writer = "running"
  BY DEF SinkInv, TypeOK, WriterTakes
<1>3. /\ current' = <<queue[1]>> /\ queue[1] \in Emitters /\ Len(current') = 1
      /\ queue' \in Seq(Emitters) /\ Len(queue') = Len(queue) - 1 /\ Len(queue') \in Nat
      /\ \A i \in 1 .. Len(queue') : queue'[i] = queue[i + 1]
  BY <1>2 DEF WriterTakes
<1>4. Processed' = Processed /\ Processed \in Nat
  BY <1>1, <1>2, <1>3 DEF Processed, SinkInv, Pipeline
<1>5. TypeOK'
  <2>1. available' \in BOOLEAN
    BY DEF WriterTakes, Room
  <2>2. Len(queue') <= Cap
    BY <1>2, <1>3, JsonlAssumption DEF SinkInv, TypeOK
  <2>. QED BY <1>1, <1>3, <2>1, <2>2 DEF SinkInv, TypeOK
<1>6. \A i \in 1 .. Len(queue) : queue[i] = accepted[Processed + i]
  BY <1>2, <1>4 DEF SinkInv, Pipeline
<1>7. \A i \in 1 .. Len(queue') : queue'[i] = accepted'[Processed' + Len(current') + i]
  <2>. SUFFICES ASSUME NEW i \in 1 .. Len(queue')
                PROVE  queue[i + 1] = accepted[Processed + 1 + i]
    BY <1>1, <1>3, <1>4
  <2>1. i + 1 \in 1 .. Len(queue) /\ Processed + (i + 1) = Processed + 1 + i
    BY <1>2, <1>3, <1>4
  <2>. QED BY <1>6, <2>1
<1>8. queue[1] = accepted[Processed + 1]
  BY <1>2, <1>6
<1>9. Pipeline'
  BY <1>1, <1>3, <1>4, <1>7, <1>8 DEF SinkInv, Pipeline
<1>10. File' /\ Admission' /\ Told'
  BY <1>1, <1>2, <1>4 DEF SinkInv, File, Admission, Told
<1>. QED BY <1>5, <1>9, <1>10 DEF SinkInv

LEMMA WritesStep ==
  ASSUME SinkInv, WriterWrites
  PROVE  SinkInv'
<1>1. UNCHANGED <<queue, available, accepted, closed, writer, admission, pc, result,
                  closePc, closeResult, ended>>
  BY DEF WriterWrites
<1>2. PICK e \in Emitters : current = <<e>>
  BY DEF SinkInv, TypeOK, WriterWrites
<1>3. PICK wrote \in {FALSE} \cup {b \in {TRUE} : MayWrite} :
         /\ written' = IF wrote THEN Append(written, e) ELSE written
         /\ failed'  = (failed \/ ~wrote)
         /\ ack' = [ack EXCEPT ![e] = AckOf(wrote)]
  <2>1. Head(current) = e
    BY <1>2
  <2>. QED BY <2>1 DEF WriterWrites
<1>4. wrote \in BOOLEAN /\ (wrote => ~failed) /\ current' = <<>>
  BY DEF WriterWrites, MayWrite
<1>5. /\ queue \in Seq(Emitters) /\ Len(queue) \in Nat /\ accepted \in Seq(Emitters)
      /\ Len(accepted) \in Nat /\ written \in Seq(Emitters) /\ Len(written) \in Nat
      /\ Len(current) = 1 /\ Len(current') = 0
  BY <1>2, <1>4 DEF SinkInv, TypeOK
<1>6. Processed \in Nat /\ Processed' = Processed + 1
  BY <1>1, <1>5 DEF Processed, SinkInv, Pipeline
<1>7. e = accepted[Processed + 1]
  BY <1>2 DEF SinkInv, Pipeline
<1>8. /\ ack'[e] = AckOf(wrote) /\ AckOf(wrote) \in {"ok", "error"}
      /\ \A f \in Emitters \ {e} : ack'[f] = ack[f]
      /\ ack' \in [Emitters -> {"none", "ok", "error"}]
  BY <1>3, <1>4 DEF SinkInv, TypeOK, AckOf
<1>9. TypeOK'
  <2>1. written' \in Seq(Emitters)
    BY <1>3, <1>4, <1>5
  <2>2. failed' \in BOOLEAN
    BY <1>3, <1>4 DEF SinkInv, TypeOK
  <2>. QED BY <1>1, <1>4, <1>8, <2>1, <2>2 DEF SinkInv, TypeOK
<1>10. Pipeline'
  <2>1. \A i \in 1 .. Len(queue') : queue'[i] = accepted'[Processed' + Len(current') + i]
    BY <1>1, <1>5, <1>6 DEF SinkInv, Pipeline
  <2>2. \A i \in 1 .. Processed' : ack'[accepted'[i]] # "none"
    <3>. SUFFICES ASSUME NEW i \in 1 .. Processed + 1 PROVE ack'[accepted[i]] # "none"
      BY <1>1, <1>6
    <3>1. CASE accepted[i] = e
      BY <1>8, <3>1
    <3>2. CASE accepted[i] # e
      <4>1. i \in 1 .. Processed /\ i \in 1 .. Len(accepted)
        BY <1>5, <1>6, <1>7, <3>2 DEF Processed
      <4>2. accepted[i] \in Emitters /\ ack[accepted[i]] # "none"
        BY <1>5, <4>1 DEF SinkInv, Pipeline
      <4>. QED BY <1>8, <3>2, <4>2
    <3>. QED BY <3>1, <3>2
  <2>. QED BY <1>4, <1>6, <2>1, <2>2 DEF Pipeline
<1>11. /\ Len(written) \in Nat /\ Len(written') \in Nat /\ Len(written) <= Len(written')
       /\ \A i \in 1 .. Len(written) : written'[i] = written[i]
       /\ wrote => Len(written') = Len(written) + 1 /\ written'[Len(written) + 1] = e
       /\ ~wrote => written' = written
  BY <1>3, <1>4, <1>5
<1>12. File'
  <2>1. CASE wrote
    <3>1. Len(written) = Processed
      BY <1>4, <2>1 DEF SinkInv, File
    <3>2. Len(written') = Processed' /\ Len(written') = Processed + 1
      BY <1>6, <1>11, <2>1, <3>1
    <3>3. \A i \in 1 .. Len(written') : written'[i] = accepted'[i]
      <4>. SUFFICES ASSUME NEW i \in 1 .. Len(written') PROVE written'[i] = accepted[i]
        BY <1>1
      <4>1. CASE i = Processed + 1
        BY <1>7, <1>11, <2>1, <3>1, <4>1
      <4>2. CASE i # Processed + 1
        <5>1. i \in 1 .. Len(written)
          BY <1>6, <3>1, <3>2, <4>2
        <5>. QED BY <1>11, <5>1 DEF SinkInv, File
      <4>. QED BY <4>1, <4>2
    <3>. QED BY <3>2, <3>3, <1>6 DEF File
  <2>2. CASE ~wrote
    <3>1. written' = written /\ failed'
      BY <1>3, <1>11, <2>2
    <3>2. Len(written) <= Processed + 1
      BY <1>5, <1>6 DEF SinkInv, File
    <3>. QED BY <1>1, <1>6, <3>1, <3>2 DEF SinkInv, File
  <2>. QED BY <2>1, <2>2
<1>13. Admission'
  <2>1. writer = "running"
    BY <1>2, <1>5 DEF SinkInv, Admission, TypeOK
  <2>. QED BY <1>1, <2>1 DEF SinkInv, Admission
<1>14. Told'
  <2>1. \A f \in Emitters : (\E i \in 1 .. Len(written) : written[i] = f)
                            => \E i \in 1 .. Len(written') : written'[i] = f
    <3>1. \A i \in 1 .. Len(written) : i \in 1 .. Len(written')
      BY <1>11
    <3>. QED BY <1>11, <3>1
  <2>2. ack'[e] = "ok" => \E i \in 1 .. Len(written') : written'[i] = e
    <3>1. ack'[e] = "ok" => wrote
      BY <1>4, <1>8 DEF AckOf
    <3>2. wrote => Len(written) + 1 \in 1 .. Len(written')
      BY <1>11
    <3>. QED BY <1>11, <3>1, <3>2
  <2>3. \A f \in Emitters : ack'[f] = "ok" => \E i \in 1 .. Len(written') : written'[i] = f
    BY <1>8, <2>1, <2>2 DEF SinkInv, Told
  <2>4. \A f \in Emitters : result'[f] = "ok" => \E i \in 1 .. Len(written') : written'[i] = f
    BY <1>1, <2>1 DEF SinkInv, Told
  <2>5. closeResult # "ok"
    BY <1>2, <1>5 DEF SinkInv, Admission, Told
  <2>. QED BY <1>1, <2>3, <2>4, <2>5 DEF SinkInv, Told
<1>. QED BY <1>9, <1>10, <1>12, <1>13, <1>14 DEF SinkInv

LEMMA ExitsStep ==
  ASSUME SinkInv, WriterExits
  PROVE  SinkInv'
<1>1. UNCHANGED <<queue, current, accepted, written, ack, failed, available, admission, closed,
                  pc, result, closePc, closeResult, ended>>
  BY DEF WriterExits
<1>2. TypeOK'
  BY <1>1 DEF SinkInv, TypeOK, WriterExits
<1>3. Pipeline' /\ File'
  BY <1>1, SinkFrame
<1>4. Admission' /\ Told'
  BY <1>1 DEF SinkInv, Admission, Told, WriterExits
<1>. QED BY <1>2, <1>3, <1>4 DEF SinkInv

LEMMA CloseSteps ==
  ASSUME SinkInv,
         CloseBegin \/ CloseContextEnds \/ CloseGivesUp \/ CloseStops \/ CloseDone
  PROVE  SinkInv'
<1>1. UNCHANGED <<queue, current, accepted, written, ack, failed, available, writer, pc, result,
                  admission>>
  BY DEF CloseBegin, CloseContextEnds, CloseGivesUp, CloseStops, CloseDone, emits
<1>2. TypeOK'
  BY <1>1 DEF SinkInv, TypeOK, CloseBegin, CloseContextEnds, CloseGivesUp, CloseStops,
     CloseDone, Closer, Results
<1>3. Pipeline' /\ File'
  BY <1>1, SinkFrame
<1>4. closed => closed'
  BY DEF CloseBegin, CloseContextEnds, CloseGivesUp, CloseStops, CloseDone
<1>5. closed' => closed \/ \A e \in Emitters : pc[e] # "admitted"
  BY DEF CloseBegin, CloseContextEnds, CloseGivesUp, CloseStops, CloseDone, CloseMayLock,
     SinkInv, Admission
<1>6. Admission'
  BY <1>1, <1>4, <1>5 DEF SinkInv, Admission
<1>7. closeResult' = "ok" => writer = "exited" /\ ~failed
  BY DEF CloseBegin, CloseContextEnds, CloseGivesUp, CloseStops, CloseDone, Closer, SinkInv,
     Told, TypeOK, CurrentError
<1>8. Told'
  BY <1>1, <1>7 DEF SinkInv, Told
<1>. QED BY <1>2, <1>3, <1>6, <1>8 DEF SinkInv

LEMMA SinkNext ==
  ASSUME SinkInv, [Next]_vars
  PROVE  SinkInv'
<1>1. ASSUME NEW e \in Emitters, EmitBegin(e) \/ ContextEnds(e) \/ EmitStep(e)
      PROVE  SinkInv'
  BY <1>1, CallerSteps, AdmittedStep, EnqueueStep, AcknowledgedStep DEF EmitStep
<1>2. ASSUME WriterStep PROVE SinkInv'
  BY <1>2, TakesStep, WritesStep, ExitsStep DEF WriterStep
<1>3. ASSUME CloseBegin \/ CloseContextEnds \/ CloseStep PROVE SinkInv'
  BY <1>3, CloseSteps DEF CloseStep
<1>4. ASSUME UNCHANGED vars PROVE SinkInv'
  <2>1. TypeOK'
    BY <1>4 DEF vars, SinkInv, TypeOK
  <2>2. Pipeline' /\ File'
    BY <1>4, SinkFrame DEF vars
  <2>3. Admission' /\ Told'
    BY <1>4 DEF vars, SinkInv, Admission, Told
  <2>. QED BY <2>1, <2>2, <2>3 DEF SinkInv
<1>. QED BY <1>1, <1>2, <1>3, <1>4 DEF Next

(* The sink's invariant, from which the rest follows.                      *)
THEOREM Sink == Spec => []SinkInv
<1>. QED BY SinkInit, SinkNext, PTL DEF Spec

LEMMA InvDrains == SinkInv => DrainsInOrder
<1> SUFFICES ASSUME SinkInv PROVE DrainsInOrder
  OBVIOUS
<1>1. /\ queue \in Seq(Emitters) /\ accepted \in Seq(Emitters) /\ written \in Seq(Emitters)
      /\ Len(queue) \in Nat /\ Len(accepted) \in Nat /\ Len(written) \in Nat
      /\ Len(current) \in {0, 1} /\ Processed \in Nat
  BY CurrentType DEF SinkInv, TypeOK, Pipeline
<1>2. Len(written) <= Len(accepted) /\ \A i \in 1 .. Len(written) : written[i] = accepted[i]
  BY <1>1 DEF SinkInv, File, Processed
<1>3. WrittenInOrder
  <2>1. SubSeq(accepted, 1, Len(written)) = written
    BY <1>1, <1>2
  <2>. QED BY <1>2, <2>1 DEF WrittenInOrder, IsPrefix
<1>4. ASSUME writer # "running", NEW e \in ToSet(accepted) PROVE ack[e] # "none"
  <2>1. Processed = Len(accepted)
    BY <1>1, <1>4 DEF SinkInv, Admission, Processed
  <2>2. PICK i \in 1 .. Len(accepted) : e = accepted[i]
    BY <1>1, <1>4 DEF ToSet
  <2>. QED BY <2>1, <2>2 DEF SinkInv, Pipeline
<1>. QED BY <1>3, <1>4 DEF DrainsInOrder, DrainedAtExit

LEMMA InvDurable == SinkInv => SuccessIsDurable
<1> SUFFICES ASSUME SinkInv PROVE SuccessIsDurable
  OBVIOUS
<1>1. /\ queue \in Seq(Emitters) /\ accepted \in Seq(Emitters) /\ written \in Seq(Emitters)
      /\ Len(queue) \in Nat /\ Len(accepted) \in Nat /\ Len(written) \in Nat
  BY DEF SinkInv, TypeOK
<1>2. ASSUME NEW e \in Emitters, result[e] = "ok" PROVE e \in ToSet(written)
  BY <1>1, <1>2 DEF SinkInv, Told, ToSet
<1>3. ASSUME closeResult = "ok" PROVE written = accepted
  <2>1. queue = <<>> /\ current = <<>> /\ ~failed
    BY <1>3 DEF SinkInv, Told, Admission
  <2>2. Len(written) = Len(accepted)
    BY <1>1, <2>1 DEF SinkInv, File, Processed
  <2>3. \A i \in 1 .. Len(written) : written[i] = accepted[i]
    BY DEF SinkInv, File
  <2>. QED BY <1>1, <2>2, <2>3
<1>. QED BY <1>2, <1>3 DEF SuccessIsDurable

(* Every variable keeps its type, the queue its capacity.                  *)
THEOREM SinkTypeCorrect == Spec => []TypeOK
<1>1. SinkInv => TypeOK
  BY DEF SinkInv
<1>. QED BY <1>1, Sink, PTL

(* An accepted event reaches the file in the order of its acceptance, with *)
(* no gap, whoever gave up waiting for it, and a writer that exited has    *)
(* answered all of them: for any number of overlapping calls of Emit.      *)
THEOREM DrainsAccepted == Spec => []DrainsInOrder
<1>. QED BY InvDrains, Sink, PTL

(* No call of Emit is told of success without its event in the file, and   *)
(* Close only when every event that was ever accepted is there.            *)
THEOREM SuccessDurable == Spec => []SuccessIsDurable
<1>. QED BY InvDurable, Sink, PTL
=============================================================================
