-------------------------- MODULE ProtocolPlanProofs --------------------------
(***************************************************************************)
(* Proofs about ProtocolPlan, for plans of any length and any statuses,    *)
(* requests and events.                                                    *)
(*                                                                         *)
(* That repeats are safe rests on one fact about the bridge: the capture   *)
(* of an attempt notes output when the transport makes it, before filter   *)
(* and queue, so an attempt without noted output has made none, whatever   *)
(* is still on its way.                                                    *)
(*                                                                         *)
(* That there is one answer rests on the runner: nothing is shown before   *)
(* an attempt commits, and only an attempt that has not committed is       *)
(* followed by another.                                                    *)
(*                                                                         *)
(* That an answer is whole rests on the order of the queue: the event that *)
(* ends a stream is the last one in it, so when the runner reads it every  *)
(* other event of the attempt has been shown or is held back to be shown.  *)
(***************************************************************************)
EXTENDS ProtocolPlan, SequenceTheorems, FiniteSetTheorems, TLAPS

OutputNoted == capture.output = Spoke(emitted)

ShownByThisAttempt ==
    /\ over = "no" <=> stage # "ended"
    /\ stage \in {"attest", "dispatch"} => ~ committed
    /\ over = "no" /\ ~ committed => answer = <<>>
    /\ over = "no" =>
          \A i \in DOMAIN answer : answer[i].attempt = attempt /\ answer[i].kind \notin Terminal

RefusalNoted ==
    /\ stage = "reading" => transport # "idle"
    /\ transport # "idle" => requests # 0
    /\ (transport # "idle" /\ requests = 1 /\ capture.status # 0) => transport \in Refused

PlanInv ==
    /\ TypeOK
    /\ OutputNoted
    /\ RefusalNoted
    /\ ShownByThisAttempt
    /\ RepeatsAreSafe

-----------------------------------------------------------------------------
(* The operators the steps are built from.                                 *)

\* A response changes what is known of the failure, never the note of output.
LEMMA CapturedEvidence ==
    ASSUME NEW e \in Evidence, NEW status \in Statuses, NEW json \in BOOLEAN, NEW topic \in Topics
    PROVE  /\ Captured(e, status, json, topic) \in Evidence
           /\ Captured(e, status, json, topic).output = e.output
<1>1. classifyGatewayHttpStatus(status) \in Classes
  BY PlanAssumption DEF classifyGatewayHttpStatus, Classes
<1>2. RequestCode[topic] \in Codes
  BY DEF RequestCode, Topics, Codes
<1>3. classifyInferenceFailure(status, topic) \in Codes
  BY <1>2 DEF classifyInferenceFailure, Codes
<1>4. status \in 0 .. 599
  BY PlanAssumption
<1> HIDE DEF Classes, Codes
<1>5. (IF json THEN classifyInferenceFailure(status, topic) ELSE e.code) \in Codes \cup {"none"}
  BY <1>3 DEF Evidence
<1> DEFINE code == IF json THEN classifyInferenceFailure(status, topic) ELSE e.code
<1>6. Captured(e, status, json, topic) =
        IF status < 400 THEN e
        ELSE [e EXCEPT !.status = status, !.class = classifyGatewayHttpStatus(status), !.code = code]
  BY DEF Captured
<1> HIDE DEF code
<1>7. code \in Codes \cup {"none"}
  BY <1>5 DEF code
<1>8. CASE status < 400
  BY <1>6, <1>8
<1>9. CASE ~ (status < 400)
  <2> DEFINE class == classifyGatewayHttpStatus(status)
  <2>1. Captured(e, status, json, topic) = [e EXCEPT !.status = status, !.class = class, !.code = code]
    BY <1>6, <1>9
  <2>2. class \in Classes
    BY <1>1
  <2> HIDE DEF class
  <2>3. QED
    BY <1>4, <1>7, <2>1, <2>2 DEF Evidence
<1>10. QED
  BY <1>8, <1>9

\* What the reasoning filter makes of an event are events again, and none that
\* fails the stream.
LEMMA ConsumedEvents ==
    ASSUME NEW e \in Made \ Throws
    PROVE  consume(e) \in Seq(Passed) /\ filterAfter(e) \in {"undecided", "holding", "candidate", "decided"}
<1>1. Candidate(e) \in Seq(Passed)
  <2>1. <<"empty_end">> \in Seq(Passed) /\ <<"thought", "thinking_end">> \in Seq(Passed)
    BY DEF Passed, Made, Content
  <2>2. QED
    BY <2>1, EmptySeq DEF Candidate
<1>2. Held \in Seq(Passed)
  <2>1. <<"thought">> \in Seq(Passed)
    BY DEF Passed, Made, Content
  <2>2. QED
    BY <2>1, EmptySeq DEF Held
<1>3. /\ Held \o <<"thinking_end">> \in Seq(Passed)
      /\ Held \o <<e>> \in Seq(Passed)
      /\ <<"thought">> \in Seq(Passed)
  <2>1. <<"thinking_end">> \in Seq(Passed) /\ <<e>> \in Seq(Passed) /\ <<"thought">> \in Seq(Passed)
    BY DEF Passed, Made, Content
  <2>2. QED
    BY <1>2, <2>1, ConcatProperties
<1>4. consume(e) \in Seq(Passed)
  BY <1>1, <1>3, EmptySeq, ConcatProperties DEF consume
<1>5. QED
  BY <1>4 DEF filterAfter

\* The note of output is a note of all that was emitted.
LEMMA SpokeAppend ==
    ASSUME NEW s \in Seq(Made), NEW e \in Made
    PROVE  Spoke(Append(s, e)) <=> Spoke(s) \/ isCommittedModelOutput(e)
<1>1. /\ Append(s, e) \in Seq(Made)
      /\ Len(Append(s, e)) = Len(s) + 1
      /\ \A i \in 1 .. Len(s) : Append(s, e)[i] = s[i]
      /\ Append(s, e)[Len(s) + 1] = e
  BY AppendProperties
<1>2. DOMAIN s = 1 .. Len(s) /\ DOMAIN Append(s, e) = 1 .. Len(s) + 1 /\ Len(s) \in Nat
  BY <1>1, LenProperties
<1>3. QED
  BY <1>1, <1>2 DEF Spoke

\* attempt-retry-policy.ts permits a transition only without output and after a
\* status of the plan's kind.
LEMMA PermittedEvidence ==
    ASSUME TypeOK, NEW e, Permitted(e)
    PROVE  /\ capture.output = FALSE
           /\ capture.status \in (IF kind = "gateway-ingress" THEN {400, 422} ELSE {502, 503})
BY DEF TypeOK, Evidence, Permitted, evaluateAttemptTransition, ProtocolRejected, UpstreamUnavailable

\* push appends to the answer, with the attempt that is running.
LEMMA Pushed ==
    ASSUME TypeOK, NEW events \in Seq(Passed \ Throws), push(events)
    PROVE  /\ answer' \in Seq(Shows)
           /\ Len(answer') = Len(answer) + Len(events)
           /\ \A i \in 1 .. Len(answer) : answer'[i] = answer[i]
           /\ \A i \in 1 .. Len(events) :
                 answer'[Len(answer) + i] = [attempt |-> attempt, kind |-> events[i]]
<1>1. DOMAIN events = 1 .. Len(events) /\ Len(events) \in Nat
  BY LenProperties
<1>2. \A i \in 1 .. Len(events) : events[i] \in Passed \ Throws
  BY ElementOfSeq
<1> DEFINE e(i) == [attempt |-> attempt, kind |-> events[i]]
<1>3. \A i \in 1 .. Len(events) : e(i) \in Shows
  BY <1>2 DEF TypeOK, Shows
<1>4. [i \in 1 .. Len(events) |-> e(i)] \in Seq(Shows)
  <2> HIDE DEF e
  <2>1. QED
    BY <1>1, <1>3, IsASeq
<1>5. Shown(events) \in Seq(Shows) /\ Len(Shown(events)) = Len(events)
  BY <1>1, <1>4 DEF Shown
<1>6. answer \in Seq(Shows) /\ answer' = answer \o Shown(events)
  BY DEF TypeOK, push
<1>7. /\ answer' \in Seq(Shows)
      /\ Len(answer') = Len(answer) + Len(Shown(events))
      /\ \A i \in 1 .. Len(answer) + Len(Shown(events)) :
            answer'[i] = IF i <= Len(answer) THEN answer[i] ELSE Shown(events)[i - Len(answer)]
  BY <1>5, <1>6, ConcatProperties
<1>8. Len(answer) \in Nat
  BY <1>6, LenProperties
<1>9. \A i \in 1 .. Len(events) : Shown(events)[i] = [attempt |-> attempt, kind |-> events[i]]
  BY <1>1 DEF Shown
<1>10. QED
  BY <1>1, <1>5, <1>7, <1>8, <1>9

\* The events the runner reads are events; those it takes as a block are.
LEMMA TakenEvent ==
    ASSUME TypeOK, Take
    PROVE  Event \in Passed /\ queue' \in Seq(Passed)
BY HeadTailProperties DEF TypeOK, Take, Event

-----------------------------------------------------------------------------
(* Types.                                                                  *)

\* After TryNext the next attempt begins, or the request ends.
LEMMA TryNextTypes ==
    ASSUME TypeOK, NEW error \in 0 .. Attempts, TryNext(error)
    PROVE  /\ lastError' \in 0 .. Attempts
           /\ attempt' \in 1 .. Attempts
           /\ stage' \in {"attest", "dispatch", "ended"}
           /\ transport' \in {"idle", transport}
           /\ past' \in Seq(PastAttempts)
           /\ answer' \in Seq(Shows)
           /\ over' \in {"no", "event", "failure"}
<1>0. attempt \in 1 .. Attempts /\ Attempts \in Nat \ {0}
  BY PlanAssumption DEF TypeOK
<1>1. CASE attempt < Attempts
  <2>1. PastAttempt \in PastAttempts
    BY DEF TypeOK, PastAttempt, PastAttempts, Evidence, Spoke
  <2>2. past' \in Seq(PastAttempts)
    <3>1. past \in Seq(PastAttempts)
      BY DEF TypeOK
    <3>2. past' = Append(past, PastAttempt)
      BY <1>1 DEF TryNext
    <3>3. QED
      BY <2>1, <3>1, <3>2, AppendProperties
  <2>3. attempt' \in 1 .. Attempts
    BY <1>0, <1>1 DEF TryNext
  <2>4. QED
    BY <1>1, <2>2, <2>3 DEF TryNext, TypeOK, FirstStage, outer
<1>2. CASE ~ (attempt < Attempts)
  <2>1. answer' \in Seq(Shows)
    <3>1. CASE error = 0
      BY <1>2, <3>1 DEF TryNext, TypeOK
    <3>2. CASE error # 0
      <4>1. [attempt |-> error, kind |-> "error"] \in Shows
        BY <3>2 DEF Shows, Passed, Made, Terminal, Errors, Throws
      <4>2. answer \in Seq(Shows)
        BY DEF TypeOK
      <4>3. answer' = Append(answer, [attempt |-> error, kind |-> "error"])
        BY <1>2, <3>2 DEF TryNext
      <4>4. QED
        BY <4>1, <4>2, <4>3, AppendProperties
    <3>3. QED
      BY <3>1, <3>2
  <2>2. QED
    BY <1>2, <2>1 DEF TryNext, TypeOK, End
<1>3. QED
  BY <1>1, <1>2

\* The events an attempt has held back are shown with the one that settles it.
LEMMA HeldBackEvents ==
    ASSUME TypeOK, NEW e \in Passed \ Throws
    PROVE  /\ StartEvent \o Append(blocks, e) \in Seq(Passed \ Throws)
           /\ Append(StartEvent, e) \in Seq(Passed \ Throws)
           /\ (IF committed THEN <<>> ELSE StartEvent \o blocks) \o <<e>> \in Seq(Passed \ Throws)
<1>1. Buffered \subseteq Passed \ Throws /\ "start" \in Passed \ Throws
  BY DEF Buffered, Passed, Made, Content, Throws
<1>2. blocks \in Seq(Passed \ Throws)
  BY <1>1, SeqMonotonic DEF TypeOK
<1>3. StartEvent \in Seq(Passed \ Throws)
  <2>1. <<"start">> \in Seq(Passed \ Throws)
    BY <1>1
  <2>2. QED
    BY <2>1, EmptySeq DEF StartEvent
<1>4. <<e>> \in Seq(Passed \ Throws) /\ <<>> \in Seq(Passed \ Throws)
  BY EmptySeq
<1>5. QED
  BY <1>2, <1>3, <1>4, AppendProperties, ConcatProperties

LEMMA TypeStep ==
    ASSUME TypeOK, Next
    PROVE  TypeOK'
<1> USE DEF source, runner, outer
<1>0. kind \in Kinds /\ attempt \in 1 .. Attempts /\ lastError \in 0 .. Attempts /\ requests \in 0 .. MaxRequests
  BY DEF TypeOK
<1>1. ASSUME NEW status \in Statuses, NEW json \in BOOLEAN, NEW topic \in Topics,
             Respond(status, json, topic)
      PROVE  TypeOK'
  <2>1. capture' \in Evidence
    BY <1>1, CapturedEvidence DEF Respond, TypeOK
  <2>2. QED
    BY <1>1, <2>1 DEF Respond, TypeOK, States
<1>2. CASE Repeat
  <2>1. requests' \in 0 .. MaxRequests
    BY <1>2, PlanAssumption DEF Repeat, TypeOK
  <2>2. QED
    BY <1>2, <2>1 DEF Repeat, TypeOK, States
<1>3. ASSUME NEW e \in Made \ Throws, Pass(e),
             UNCHANGED <<kind, requests, runner, outer>>,
             transport' \in {transport, "given up", "answered", "cut off"}
      PROVE  TypeOK'
  <2>1. emitted' \in Seq(Made)
    BY <1>3, AppendProperties DEF Pass, TypeOK
  <2>2. queue' \in Seq(Passed)
    BY <1>3, ConsumedEvents, ConcatProperties DEF Pass, TypeOK
  <2>3. capture' \in Evidence
    <3> DEFINE noted == capture.output \/ isCommittedModelOutput(e)
    <3>1. noted \in BOOLEAN
      OBVIOUS
    <3>2. capture' = [capture EXCEPT !.output = noted]
      BY <1>3 DEF Pass
    <3> HIDE DEF noted
    <3>3. QED
      BY <3>1, <3>2 DEF TypeOK, Evidence
  <2>4. filter' \in {"undecided", "holding", "candidate", "decided"}
    BY <1>3, ConsumedEvents DEF Pass
  <2>5. QED
    BY <1>3, <2>1, <2>2, <2>3, <2>4 DEF TypeOK, States
<1>4. CASE Begin
  BY <1>3, <1>4 DEF Begin, Made, Throws
<1>5. ASSUME NEW e \in Content, Emit(e)
      PROVE  TypeOK'
  BY <1>3, <1>5 DEF Emit, Made, Content, Throws
<1>6. ASSUME NEW e \in Terminal, Finish(e)
      PROVE  TypeOK'
  BY <1>3, <1>6 DEF Finish, Stopped, Made, Terminal, Errors, Throws
<1>7. ASSUME NEW e \in Throws, Break(e)
      PROVE  TypeOK'
  <2>1. e \in Made /\ e \in Passed
    BY DEF Made, Passed
  <2>2. emitted' \in Seq(Made)
    BY <1>7, <2>1, AppendProperties DEF Break, TypeOK
  <2>3. queue' \in Seq(Passed)
    <3>1. queue \in Seq(Passed)
      BY DEF TypeOK
    <3>2. <<e>> \in Seq(Passed)
      BY <2>1
    <3>3. Append(queue, e) \in Seq(Passed)
      BY <2>1, <3>1, AppendProperties
    <3>4. QED
      BY <1>7, <3>2, <3>3 DEF Break
  <2>4. QED
    BY <1>7, <2>2, <2>3 DEF Break, Stopped, TypeOK, States
<1>8. CASE Attest \/ AttestFails \/ DispatchFails
  <2>1. CASE Attest
    BY <2>1 DEF Attest, TypeOK
  <2>2. CASE AttestFails
    BY <2>2 DEF AttestFails, End, TypeOK
  <2>3. CASE DispatchFails
    BY <2>3 DEF DispatchFails, End, TypeOK
  <2>4. QED
    BY <1>8, <2>1, <2>2, <2>3
<1>9. CASE Dispatch
  <2>1. capture' \in Evidence
    BY <1>9 DEF Dispatch, NothingCaptured, Evidence
  <2>2. emitted' \in Seq(Made) /\ queue' \in Seq(Passed) /\ blocks' \in Seq(Buffered)
    BY <1>9, EmptySeq DEF Dispatch
  <2>3. requests' \in 0 .. MaxRequests
    BY <1>9, PlanAssumption DEF Dispatch
  <2>4. QED
    BY <1>9, <2>1, <2>2, <2>3 DEF Dispatch, TypeOK, States
<1>10. CASE ReadStart
  BY <1>10, TakenEvent DEF ReadStart, Take, TypeOK
<1>11. CASE ReadBlock
  <2>1. blocks' \in Seq(Buffered)
    BY <1>11, AppendProperties DEF ReadBlock, TypeOK
  <2>2. QED
    BY <1>11, <2>1, TakenEvent DEF ReadBlock, Take, TypeOK
<1>12. ASSUME NEW events \in Seq(Passed \ Throws), Take, push(events),
              over' \in {over, "event"}, stage' \in {stage, "ended"},
              UNCHANGED <<transport, attempt, started, blocks, lastError, past>>,
              committed' \in BOOLEAN
       PROVE  TypeOK'
  <2>1. queue' \in Seq(Passed) /\ UNCHANGED <<kind, requests, emitted, capture, filter>>
    BY <1>12, TakenEvent DEF Take
  <2>2. answer' \in Seq(Shows)
    BY <1>12, Pushed
  <2>3. QED
    BY <1>12, <2>1, <2>2 DEF TypeOK
<1>13. Terminal \subseteq Passed \ Throws
  BY DEF Passed, Made, Terminal, Errors, Throws
<1>14. CASE ReadAborted
  <2>1. Append(StartEvent, "aborted") \in Seq(Passed \ Throws)
    BY <1>13, HeldBackEvents DEF Terminal
  <2>2. QED
    BY <1>12, <1>14, <2>1 DEF ReadAborted, End, TypeOK
<1>15. ASSUME NEW e \in Terminal, Take, Conclude(e),
              UNCHANGED <<transport, attempt, started, blocks, committed, lastError, past>>
       PROVE  TypeOK'
  <2>1. StartEvent \o Append(blocks, e) \in Seq(Passed \ Throws)
    BY <1>13, HeldBackEvents
  <2>2. QED
    BY <1>12, <1>15, <2>1 DEF Conclude, End, TypeOK
<1>16. CASE ReadDone
  BY <1>15, <1>16 DEF ReadDone, Terminal
<1>17. ASSUME Take, NEW error \in 0 .. Attempts, TryNext(error),
              UNCHANGED <<started, blocks, committed>>
       PROVE  TypeOK'
  <2>1. queue' \in Seq(Passed) /\ UNCHANGED <<kind, requests, emitted, capture, filter>>
    BY <1>17, TakenEvent DEF Take
  <2>2. /\ lastError' \in 0 .. Attempts
        /\ attempt' \in 1 .. Attempts
        /\ stage' \in {"attest", "dispatch", "ended"}
        /\ transport' \in {"idle", transport}
        /\ past' \in Seq(PastAttempts)
        /\ answer' \in Seq(Shows)
        /\ over' \in {"no", "event", "failure"}
    BY <1>17, TryNextTypes
  <2>3. QED
    BY <1>17, <2>1, <2>2 DEF TypeOK, States
<1>18. CASE ReadError
  <2>1. CASE TryNext(attempt) /\ UNCHANGED <<started, blocks, committed>>
    BY <1>0, <1>17, <1>18, <2>1 DEF ReadError
  <2>2. CASE /\ Conclude(Event)
             /\ UNCHANGED <<transport, attempt, started, blocks, committed, lastError, past>>
    BY <1>15, <1>18, <2>2 DEF ReadError, Terminal
  <2>3. QED
    BY <1>18, <2>1, <2>2 DEF ReadError
<1>19. CASE ReadOutput
  <2>1. Event \in Passed \ Throws
    BY <1>19, TakenEvent DEF ReadOutput, isCommittedModelOutput, Throws
  <2>2. (IF committed THEN <<>> ELSE StartEvent \o blocks) \o <<Event>> \in Seq(Passed \ Throws)
    BY <2>1, HeldBackEvents
  <2>3. over' \in {over, "event"} /\ stage' \in {stage, "ended"}
    BY <1>19 DEF ReadOutput, End
  <2>4. QED
    BY <1>12, <1>19, <2>2, <2>3 DEF ReadOutput, Show
<1>20. CASE ReadThrow
  <2>1. CASE TryNext(lastError)
    BY <1>0, <1>17, <1>20, <2>1 DEF ReadThrow
  <2>2. CASE End("failure") /\ UNCHANGED <<transport, attempt, lastError, past, answer>>
    BY <1>20, <2>2, TakenEvent DEF ReadThrow, Take, End, TypeOK
  <2>3. QED
    BY <1>20, <2>1, <2>2 DEF ReadThrow
<1>21. QED
  BY <1>1, <1>2, <1>4, <1>5, <1>6, <1>7, <1>8, <1>9, <1>10, <1>11, <1>14, <1>16, <1>18, <1>19, <1>20
  DEF Next, Transport, Runner

-----------------------------------------------------------------------------
(* Repeats.                                                                *)

LEMMA NotedStep ==
    ASSUME TypeOK, OutputNoted, Next
    PROVE  OutputNoted'
<1> USE DEF OutputNoted
<1>0. emitted \in Seq(Made) /\ capture \in Evidence /\ capture.output \in BOOLEAN
  BY DEF TypeOK, Evidence
<1>1. ASSUME UNCHANGED <<emitted, capture>>
      PROVE  OutputNoted'
  BY <1>1 DEF Spoke
<1>2. ASSUME NEW status \in Statuses, NEW json \in BOOLEAN, NEW topic \in Topics,
             Respond(status, json, topic)
      PROVE  OutputNoted'
  <2>1. capture'.output = capture.output
    BY <1>0, <1>2, CapturedEvidence DEF Respond
  <2>2. emitted' = emitted
    BY <1>2 DEF Respond
  <2>3. QED
    BY <2>1, <2>2 DEF Spoke
<1>3. ASSUME NEW e \in Made, Pass(e)
      PROVE  OutputNoted'
  <2>1. capture'.output = (capture.output \/ isCommittedModelOutput(e))
    BY <1>0, <1>3 DEF Pass, Evidence
  <2>2. emitted' = Append(emitted, e)
    BY <1>3 DEF Pass
  <2>3. Spoke(emitted') <=> Spoke(emitted) \/ isCommittedModelOutput(e)
    BY <1>0, <2>2, SpokeAppend
  <2>4. Spoke(emitted') \in BOOLEAN /\ Spoke(emitted) \in BOOLEAN
    BY DEF Spoke
  <2>5. QED
    BY <2>1, <2>3, <2>4
<1>4. CASE Begin
  BY <1>3, <1>4 DEF Begin, Made
<1>5. ASSUME NEW e \in Content, Emit(e)
      PROVE  OutputNoted'
  BY <1>3, <1>5 DEF Emit, Made
<1>6. ASSUME NEW e \in Terminal, Finish(e)
      PROVE  OutputNoted'
  BY <1>3, <1>6 DEF Finish, Made
<1>7. ASSUME NEW e \in Throws, Break(e)
      PROVE  OutputNoted'
  <2>1. e \in Made /\ ~ isCommittedModelOutput(e)
    BY DEF Made, Throws, isCommittedModelOutput
  <2>2. emitted' = Append(emitted, e) /\ capture' = capture
    BY <1>7 DEF Break
  <2>3. Spoke(emitted') <=> Spoke(emitted)
    BY <1>0, <2>1, <2>2, SpokeAppend
  <2>4. Spoke(emitted') \in BOOLEAN /\ Spoke(emitted) \in BOOLEAN
    BY DEF Spoke
  <2>5. QED
    BY <2>2, <2>3, <2>4
<1>8. CASE Dispatch
  BY <1>8 DEF Dispatch, NothingCaptured, Spoke
<1>9. CASE Runner /\ ~ Dispatch
  BY <1>1, <1>9 DEF Runner, Attest, AttestFails, DispatchFails, source, ReadStart, ReadBlock,
     ReadAborted, ReadDone, ReadError, ReadOutput, ReadThrow, Take
<1>10. CASE Repeat
  BY <1>1, <1>10 DEF Repeat
<1>11. QED
  BY <1>2, <1>4, <1>5, <1>6, <1>7, <1>8, <1>9, <1>10 DEF Next, Transport

\* The only answer to an only request is the one the capture notes.
LEMMA RefusalStep ==
    ASSUME TypeOK, RefusalNoted, Next
    PROVE  RefusalNoted'
<1>0. requests \in Nat /\ capture \in Evidence
  BY PlanAssumption DEF TypeOK
<1>1. CASE \E s \in Statuses, json \in BOOLEAN, t \in Topics : Respond(s, json, t)
  <2>1. PICK s \in Statuses, json \in BOOLEAN, t \in Topics : Respond(s, json, t)
    BY <1>1
  <2>2. CASE s < 400
    <3>1. capture' = capture /\ requests' = requests /\ stage' = stage /\ transport = "requesting" /\ transport' = "answering"
      BY <2>1, <2>2 DEF Respond, Captured, runner
    <3>2. QED
      BY <3>1 DEF RefusalNoted, Refused
  <2>3. CASE ~ (s < 400)
    BY <2>1, <2>3 DEF Respond, RefusalNoted, Refused, runner
  <2>4. QED
    BY <2>2, <2>3
<1>2. CASE Repeat
  <2>1. requests' = requests + 1 /\ requests # 0 /\ stage' = stage /\ transport' = "requesting"
    BY <1>2 DEF Repeat, RefusalNoted, runner
  <2>2. requests' # 0 /\ requests' # 1
    BY <1>0, <2>1
  <2>3. QED
    BY <2>1, <2>2 DEF RefusalNoted
<1>3. ASSUME UNCHANGED <<stage, requests>>, capture'.status = capture.status,
             transport' \in {transport, Stopped}, transport \in {"requesting", "answering", "refused"}
      PROVE  RefusalNoted'
  BY <1>3 DEF RefusalNoted, Refused, Stopped
<1>4. ASSUME NEW e, Pass(e)
      PROVE  capture'.status = capture.status
  BY <1>0, <1>4 DEF Pass, Evidence
<1>5. CASE \/ Begin
           \/ \E e \in Content : Emit(e)
           \/ \E e \in Terminal : Finish(e)
           \/ \E e \in Throws : Break(e)
  BY <1>3, <1>4, <1>5 DEF Begin, Emit, Finish, Break, runner
<1>6. CASE Dispatch
  BY <1>6 DEF Dispatch, NothingCaptured, RefusalNoted
<1>7. ASSUME UNCHANGED <<transport, requests, capture>>, stage' # "reading" \/ stage = "reading"
      PROVE  RefusalNoted'
  BY <1>7 DEF RefusalNoted
<1>8. CASE Attest \/ AttestFails \/ DispatchFails
  BY <1>7, <1>8 DEF Attest, AttestFails, DispatchFails, End, source
<1>9. CASE ReadStart \/ ReadBlock \/ ReadAborted \/ ReadDone \/ ReadOutput
  BY <1>7, <1>9 DEF ReadStart, ReadBlock, ReadAborted, ReadDone, ReadOutput, Take
<1>10. ASSUME NEW error, TryNext(error), UNCHANGED <<requests, capture>>
       PROVE  RefusalNoted'
  BY <1>10 DEF TryNext, FirstStage, End, RefusalNoted
<1>11. CASE ReadError \/ ReadThrow
  BY <1>7, <1>10, <1>11 DEF ReadError, ReadThrow, Take
<1>12. QED
  BY <1>1, <1>2, <1>5, <1>6, <1>8, <1>9, <1>11 DEF Next, Transport, Runner

\* TryNext leaves an attempt behind only when nothing was noted of it.
LEMMA RepeatsStep ==
    ASSUME TypeOK, OutputNoted, RefusalNoted, RepeatsAreSafe, Next
    PROVE  RepeatsAreSafe'
<1>1. kind' = kind
  BY DEF Next, Transport, Runner, Respond, Repeat, Begin, Emit, Finish, Break, Attest, AttestFails,
         Dispatch, DispatchFails, ReadStart, ReadBlock, ReadAborted, ReadDone, ReadError,
         ReadOutput, ReadThrow, Take
<1>2. CASE UNCHANGED past
  BY <1>1, <1>2 DEF RepeatsAreSafe
<1>3. ASSUME NEW e, Permitted(e), stage = "reading", past' = Append(past, PastAttempt)
      PROVE  RepeatsAreSafe'
  <2>1. /\ ~ PastAttempt.spoke
        /\ PastAttempt.status \in (IF kind = "gateway-ingress" THEN {400, 422} ELSE {502, 503})
        /\ PastAttempt.requests = 1 => PastAttempt.ending \in Refused
    <3>0. capture.status \in {400, 422, 502, 503}
      BY <1>3, PermittedEvidence
    <3>1. capture.status # 0 /\ ~ PastAttempt.spoke
      <4>1. capture.status # 0
        BY <3>0
      <4>2. ~ PastAttempt.spoke
        BY <1>3, PermittedEvidence DEF PastAttempt, OutputNoted
      <4>3. QED
        BY <4>1, <4>2
    <3>2. requests = 1 => transport \in Refused
      BY <1>3, <3>1 DEF RefusalNoted
    <3>3. QED
      BY <1>3, <3>1, <3>2, PermittedEvidence DEF PastAttempt
  <2> DEFINE S == PastAttempts
  <2>2. past \in Seq(S) /\ PastAttempt \in S
    BY DEF TypeOK, PastAttempt, PastAttempts, Evidence, Spoke
  <2>3. /\ past' \in Seq(S)
        /\ Len(past') = Len(past) + 1
        /\ \A i \in 1 .. Len(past) : past'[i] = past[i]
        /\ past'[Len(past) + 1] = PastAttempt
    BY <1>3, <2>2, AppendProperties
  <2>4. DOMAIN past' = 1 .. Len(past) + 1 /\ DOMAIN past = 1 .. Len(past) /\ Len(past) \in Nat
    BY <2>2, <2>3, LenProperties
  <2> HIDE DEF PastAttempt, S
  <2>5. QED
    BY <1>1, <2>1, <2>3, <2>4 DEF RepeatsAreSafe
<1>4. ASSUME NEW e, NEW error, Permitted(e), TryNext(error)
      PROVE  UNCHANGED past \/ past' = Append(past, PastAttempt)
  BY <1>4 DEF TryNext
<1>5. CASE Transport \/ Attest \/ AttestFails \/ Dispatch \/ DispatchFails
  BY <1>2, <1>5 DEF Transport, Respond, Repeat, Begin, Emit, Finish, Break, Attest, AttestFails,
     Dispatch, DispatchFails, runner
<1>6. CASE ReadStart \/ ReadBlock \/ ReadAborted \/ ReadDone \/ ReadOutput
  BY <1>2, <1>6 DEF ReadStart, ReadBlock, ReadAborted, ReadDone, ReadOutput
<1>7. CASE ReadError
  BY <1>2, <1>3, <1>4, <1>7 DEF ReadError, Take
<1>8. CASE ReadThrow
  BY <1>2, <1>3, <1>4, <1>8 DEF ReadThrow, Take
<1>9. QED
  BY <1>5, <1>6, <1>7, <1>8 DEF Next, Runner

-----------------------------------------------------------------------------
(* One answer.                                                             *)

\* A push ends with e, and nothing before it ends a stream.
EndsWith(events, e) ==
    /\ events \in Seq(Passed \ Throws)
    /\ Len(events) \in Nat \ {0}
    /\ events[Len(events)] = e
    /\ \A i \in 1 .. Len(events) - 1 : events[i] \notin Terminal

LEMMA HeldBackEnds ==
    ASSUME NEW held \in Seq(Buffered \cup {"start"}), NEW e \in Passed \ Throws
    PROVE  EndsWith(held \o <<e>>, e)
<1>1. Buffered \cup {"start"} \subseteq Passed \ Throws
  BY DEF Buffered, Passed, Made, Content, Throws
<1>2. held \in Seq(Passed \ Throws)
  BY <1>1, SeqMonotonic
<1>3. held \o <<e>> = Append(held, e)
  BY <1>2, AppendIsConcat
<1>4. /\ Append(held, e) \in Seq(Passed \ Throws)
      /\ Len(Append(held, e)) = Len(held) + 1
      /\ \A i \in 1 .. Len(held) : Append(held, e)[i] = held[i]
      /\ Append(held, e)[Len(held) + 1] = e
  BY <1>2, AppendProperties
<1>5. \A i \in 1 .. Len(held) : held[i] \in Buffered \cup {"start"}
  BY ElementOfSeq
<1>6. \A k \in Buffered \cup {"start"} : k \notin Terminal
  BY DEF Buffered, Terminal, Errors
<1>7. Len(held) \in Nat
  BY LenProperties
<1>8. QED
  BY <1>3, <1>4, <1>5, <1>6, <1>7 DEF EndsWith

\* Whatever the runner pushes with e ends with e.
LEMMA PushEnds ==
    ASSUME TypeOK, NEW e \in Passed \ Throws
    PROVE  /\ EndsWith(StartEvent \o Append(blocks, e), e)
           /\ EndsWith(Append(StartEvent, e), e)
           /\ EndsWith((IF committed THEN <<>> ELSE StartEvent \o blocks) \o <<e>>, e)
<1> DEFINE B == Buffered \cup {"start"}
<1>1. blocks \in Seq(B)
  BY SeqMonotonic DEF TypeOK
<1>2. StartEvent \in Seq(B) /\ <<>> \in Seq(B)
  <2>1. <<"start">> \in Seq(B)
    OBVIOUS
  <2>2. QED
    BY <2>1, EmptySeq DEF StartEvent
<1>3. StartEvent \o blocks \in Seq(B)
  BY <1>1, <1>2, ConcatProperties
<1>4. /\ EndsWith((StartEvent \o blocks) \o <<e>>, e)
      /\ EndsWith(StartEvent \o <<e>>, e)
      /\ EndsWith(<<>> \o <<e>>, e)
  BY <1>2, <1>3, HeldBackEnds
<1>5. StartEvent \o Append(blocks, e) = (StartEvent \o blocks) \o <<e>>
  <2> DEFINE S == B \cup {e}
  <2>1. StartEvent \in Seq(S) /\ blocks \in Seq(S) /\ <<e>> \in Seq(S) /\ e \in S
    <3>1. B \subseteq S
      OBVIOUS
    <3>2. QED
      BY <1>1, <1>2, <3>1, SeqMonotonic
  <2>2. Append(blocks, e) = blocks \o <<e>>
    BY <2>1, AppendIsConcat
  <2>3. QED
    BY <2>1, <2>2, ConcatAssociative
<1>6. Append(StartEvent, e) = StartEvent \o <<e>>
  <2>1. B \subseteq B \cup {e}
    OBVIOUS
  <2>2. StartEvent \in Seq(B \cup {e})
    BY <1>2, <2>1, SeqMonotonic
  <2>3. QED
    BY <2>2, AppendIsConcat
<1>7. QED
  BY <1>4, <1>5, <1>6

\* Such a push is a step the promise allows, and the answer is then over if e
\* ends a stream and otherwise still this attempt's.
LEMMA PushedKeepsPromise ==
    ASSUME TypeOK, ShownByThisAttempt, over = "no", NEW events, NEW e,
           EndsWith(events, e), push(events),
           over' = IF e \in Terminal THEN "event" ELSE "no"
    PROVE  /\ Promise!Show
           /\ e \notin Terminal =>
                 \A i \in DOMAIN answer' :
                     answer'[i].attempt = attempt /\ answer'[i].kind \notin Terminal
<1> DEFINE a == Len(answer)
           n == Len(events)
<1>1. answer \in Seq(Shows) /\ events \in Seq(Passed \ Throws) /\ n \in Nat \ {0}
  BY DEF TypeOK, EndsWith
<1>2. a \in Nat /\ DOMAIN answer = 1 .. a
  BY <1>1, LenProperties
<1>3. /\ answer' \in Seq(Shows)
      /\ Len(answer') = a + n
      /\ \A i \in 1 .. a : answer'[i] = answer[i]
      /\ \A i \in 1 .. n : answer'[a + i] = [attempt |-> attempt, kind |-> events[i]]
  BY <1>1, Pushed
<1>4. DOMAIN answer' = 1 .. a + n
  BY <1>3, LenProperties
<1>5. \A i \in 1 .. a : answer[i].attempt = attempt /\ answer[i].kind \notin Terminal
  BY <1>2 DEF ShownByThisAttempt
<1>6. events[n] = e /\ \A i \in 1 .. n - 1 : events[i] \notin Terminal
  BY DEF EndsWith
<1> HIDE DEF a, n, Terminal
<1>7. answer'[a + n] = [attempt |-> attempt, kind |-> e]
  BY <1>1, <1>3, <1>6
<1>8. ASSUME NEW i \in 1 .. a + n
      PROVE  /\ answer'[i].attempt = attempt
             /\ i # a + n => answer'[i].kind \notin Terminal
  <2>1. CASE i \in 1 .. a
    BY <1>3, <1>5, <2>1
  <2>2. CASE i \notin 1 .. a
    <3>1. i - a \in 1 .. n /\ i = a + (i - a)
      BY <1>1, <1>2, <2>2
    <3>2. answer'[i] = [attempt |-> attempt, kind |-> events[i - a]]
      BY <1>3, <3>1
    <3>3. i # a + n => i - a \in 1 .. n - 1
      BY <1>1, <1>2, <3>1
    <3>4. QED
      BY <1>6, <3>2, <3>3
  <2>3. QED
    BY <2>1, <2>2
<1>9. SubSeq(answer', 1, a) = answer
  <2>1. \A i \in 1 .. a : answer'[i] \in Shows
    BY <1>1, <1>2, <1>3, ElementOfSeq DEF a
  <2>2. /\ SubSeq(answer', 1, a) \in Seq(Shows)
        /\ Len(SubSeq(answer', 1, a)) = IF 1 <= a THEN a - 1 + 1 ELSE 0
        /\ \A i \in 1 .. a - 1 + 1 : SubSeq(answer', 1, a)[i] = answer'[1 + i - 1]
    BY <1>2, <2>1, SubSeqProperties
  <2>3. Len(SubSeq(answer', 1, a)) = Len(answer)
    BY <1>2, <2>2 DEF a
  <2>4. \A i \in 1 .. Len(answer) : SubSeq(answer', 1, a)[i] = answer[i]
    BY <1>2, <1>3, <2>2 DEF a
  <2>5. QED
    BY <1>1, <2>2, <2>3, <2>4, SeqEqual
<1>10. Promise!Show
  <2>1. Len(answer') > Len(answer)
    BY <1>1, <1>2, <1>3 DEF a
  <2>2. SubSeq(answer', 1, Len(answer)) = answer
    BY <1>9 DEF a
  <2>3. \A i, j \in DOMAIN answer' : answer'[i].attempt = answer'[j].attempt
    BY <1>4, <1>8
  <2>4. \A i \in DOMAIN answer' : answer'[i].kind \in Terminal => i = Len(answer')
    BY <1>3, <1>4, <1>8
  <2>5. answer'[Len(answer')].kind = e
    BY <1>3, <1>7
  <2>6. QED
    BY <2>1, <2>2, <2>3, <2>4, <2>5 DEF Promise!Show
<1>11. ASSUME e \notin Terminal, NEW i \in DOMAIN answer'
       PROVE  answer'[i].attempt = attempt /\ answer'[i].kind \notin Terminal
  BY <1>4, <1>7, <1>8, <1>11
<1>12. QED
  BY <1>10, <1>11

\* TryNext goes on without having shown anything, or ends the request with the
\* one event or the failure.
LEMMA TryNextKeepsPromise ==
    ASSUME TypeOK, ShownByThisAttempt, stage = "reading", ~ committed,
           NEW error \in 0 .. Attempts, TryNext(error), UNCHANGED committed
    PROVE  ShownByThisAttempt' /\ [Promise!Show \/ Promise!Fail]_<<answer, over>>
<1>1. over = "no" /\ answer = <<>>
  BY DEF ShownByThisAttempt
<1>2. CASE attempt < Attempts
  BY <1>1, <1>2 DEF TryNext, ShownByThisAttempt, FirstStage, outer
<1>3. CASE ~ (attempt < Attempts) /\ error = 0
  BY <1>1, <1>3 DEF TryNext, ShownByThisAttempt, End, Promise!Fail
<1>4. CASE ~ (attempt < Attempts) /\ error # 0
  <2> DEFINE shown == [attempt |-> error, kind |-> "error"]
  <2>1. over' = "event" /\ stage' = "ended" /\ answer' = <<shown>>
    BY <1>1, <1>4 DEF TryNext, End
  <2>2. "error" \in Terminal
    BY DEF Terminal, Errors
  <2>3. Len(answer) = 0 /\ Len(answer') = 1 /\ DOMAIN answer' = {1} /\ answer'[1] = shown
    BY <1>1, <2>1
  <2>4. SubSeq(answer', 1, Len(answer)) = answer
    BY <1>1, <2>3, SubSeqEmpty
  <2>5. Promise!Show
    BY <1>1, <2>1, <2>2, <2>3, <2>4 DEF Promise!Show
  <2>6. QED
    BY <2>1, <2>5 DEF ShownByThisAttempt
<1>5. QED
  BY <1>2, <1>3, <1>4

\* Every step of a plan keeps the promise, as a step of it or a stutter.
LEMMA AnswerStep ==
    ASSUME TypeOK, ShownByThisAttempt, Next
    PROVE  ShownByThisAttempt' /\ [Promise!Show \/ Promise!Fail]_<<answer, over>>
<1> USE DEF source, runner, outer
<1>1. CASE Transport \/ Attest \/ ReadStart \/ ReadBlock
  <2>1. UNCHANGED <<attempt, committed, answer, over>> /\ stage' \in {stage, "dispatch"} /\ (stage' # stage => stage = "attest")
    BY <1>1 DEF Transport, Respond, Repeat, Begin, Emit, Finish, Break, Attest, ReadStart, ReadBlock
  <2>2. QED
    BY <2>1 DEF ShownByThisAttempt
<1>2. CASE Dispatch
  BY <1>2 DEF Dispatch, ShownByThisAttempt
<1>3. CASE AttestFails \/ DispatchFails
  BY <1>3 DEF AttestFails, DispatchFails, End, ShownByThisAttempt, Promise!Fail
<1>4. ASSUME NEW events, NEW e, EndsWith(events, e), Take, push(events), UNCHANGED attempt,
             e \in Terminal => End("event"),
             e \notin Terminal => UNCHANGED <<over, stage>> /\ committed'
      PROVE  ShownByThisAttempt' /\ [Promise!Show \/ Promise!Fail]_<<answer, over>>
  <2>1. over = "no" /\ stage = "reading"
    BY <1>4 DEF Take, ShownByThisAttempt
  <2>2. over' = IF e \in Terminal THEN "event" ELSE "no"
    BY <1>4, <2>1 DEF End
  <2>3. /\ Promise!Show
        /\ e \notin Terminal =>
              \A i \in DOMAIN answer' :
                  answer'[i].attempt = attempt /\ answer'[i].kind \notin Terminal
    BY <1>4, <2>1, <2>2, PushedKeepsPromise
  <2>4. CASE e \in Terminal
    BY <1>4, <2>2, <2>3, <2>4 DEF End, ShownByThisAttempt
  <2>5. CASE e \notin Terminal
    BY <1>4, <2>1, <2>2, <2>3, <2>5 DEF ShownByThisAttempt
  <2>6. QED
    BY <2>4, <2>5
<1>5. Terminal \subseteq Passed \ Throws
  BY DEF Passed, Made, Terminal, Errors, Throws
<1>6. CASE ReadAborted
  <2>1. "aborted" \in Terminal
    BY DEF Terminal
  <2>2. EndsWith(Append(StartEvent, "aborted"), "aborted")
    BY <1>5, <2>1, PushEnds
  <2>3. QED
    BY <1>4, <1>6, <2>1, <2>2 DEF ReadAborted
<1>7. ASSUME NEW e \in Terminal, Take, Conclude(e), UNCHANGED attempt
      PROVE  ShownByThisAttempt' /\ [Promise!Show \/ Promise!Fail]_<<answer, over>>
  <2>1. EndsWith(StartEvent \o Append(blocks, e), e)
    BY <1>5, <1>7, PushEnds
  <2>2. QED
    BY <1>4, <1>7, <2>1 DEF Conclude
<1>8. CASE ReadDone
  BY <1>7, <1>8 DEF ReadDone, Terminal
<1>9. CASE ReadError
  <2>1. CASE TryNext(attempt) /\ UNCHANGED <<started, blocks, committed>>
    <3>1. stage = "reading" /\ ~ committed /\ attempt \in 0 .. Attempts
      <4>1. stage = "reading" /\ ~ committed
        BY <1>9 DEF ReadError, Take
      <4>2. attempt \in 1 .. Attempts
        BY DEF TypeOK
      <4>3. QED
        BY <4>1, <4>2, PlanAssumption
    <3>2. QED
      BY <2>1, <3>1, TryNextKeepsPromise
  <2>2. CASE /\ Conclude(Event)
             /\ UNCHANGED <<transport, attempt, started, blocks, committed, lastError, past>>
    BY <1>7, <1>9, <2>2 DEF ReadError, Terminal
  <2>3. QED
    BY <1>9, <2>1, <2>2 DEF ReadError
<1>10. CASE ReadOutput
  <2>1. Event \in Passed \ Throws
    BY <1>10, TakenEvent DEF ReadOutput, isCommittedModelOutput, Throws
  <2>2. EndsWith((IF committed THEN <<>> ELSE StartEvent \o blocks) \o <<Event>>, Event)
    BY <2>1, PushEnds
  <2>3. QED
    BY <1>4, <1>10, <2>2 DEF ReadOutput, Show
<1>11. CASE ReadThrow
  <2>1. stage = "reading" /\ lastError \in 0 .. Attempts
    BY <1>11 DEF ReadThrow, Take, TypeOK
  <2>2. CASE ~ committed /\ TryNext(lastError)
    BY <1>11, <2>1, <2>2, TryNextKeepsPromise DEF ReadThrow
  <2>3. CASE End("failure") /\ UNCHANGED <<transport, attempt, lastError, past, answer>>
    BY <1>11, <2>1, <2>3 DEF ReadThrow, End, ShownByThisAttempt, Promise!Fail
  <2>4. QED
    BY <1>11, <2>2, <2>3 DEF ReadThrow
<1>12. QED
  BY <1>1, <1>2, <1>3, <1>6, <1>8, <1>9, <1>10, <1>11 DEF Next, Runner

-----------------------------------------------------------------------------
(* The theorems.                                                           *)

LEMMA PlanInit == Init => PlanInv
<1> SUFFICES ASSUME Init PROVE PlanInv
  OBVIOUS
<1>1. /\ emitted \in Seq(Made) /\ queue \in Seq(Passed) /\ blocks \in Seq(Buffered)
      /\ answer \in Seq(Shows) /\ past \in Seq(PastAttempts)
  BY EmptySeq DEF Init
<1>2. capture \in Evidence
  BY DEF Init, NothingCaptured, Evidence
<1>3. TypeOK
  <2>1. attempt \in 1 .. Attempts /\ lastError \in 0 .. Attempts /\ requests \in 0 .. MaxRequests
    BY PlanAssumption DEF Init
  <2>2. stage \in {"attest", "dispatch", "reading", "ended"}
    BY DEF Init, FirstStage
  <2>3. QED
    BY <1>1, <1>2, <2>1, <2>2 DEF Init, TypeOK, States
<1>4. OutputNoted
  BY DEF Init, NothingCaptured, OutputNoted, Spoke
<1>5. ShownByThisAttempt
  BY DEF Init, FirstStage, ShownByThisAttempt
<1>6. RepeatsAreSafe /\ RefusalNoted
  BY DEF Init, FirstStage, RepeatsAreSafe, RefusalNoted
<1>7. QED
  BY <1>3, <1>4, <1>5, <1>6 DEF PlanInv

LEMMA PlanStep == PlanInv /\ [Next]_vars => PlanInv'
<1> SUFFICES ASSUME PlanInv, [Next]_vars PROVE PlanInv'
  OBVIOUS
<1>1. CASE Next
  BY <1>1, TypeStep, NotedStep, RefusalStep, AnswerStep, RepeatsStep DEF PlanInv
<1>2. CASE UNCHANGED vars
  <2>1. /\ UNCHANGED <<kind, transport, requests, emitted, capture, filter, queue>>
        /\ UNCHANGED <<attempt, stage, started, blocks, committed, lastError, past, answer, over>>
    BY <1>2 DEF vars, source, runner, outer
  <2>2. TypeOK'
    BY <2>1 DEF PlanInv, TypeOK
  <2>3. OutputNoted'
    BY <2>1 DEF PlanInv, OutputNoted, Spoke
  <2>4. ShownByThisAttempt' /\ RepeatsAreSafe' /\ RefusalNoted'
    BY <2>1 DEF PlanInv, ShownByThisAttempt, RepeatsAreSafe, RefusalNoted
  <2>5. QED
    BY <2>2, <2>3, <2>4 DEF PlanInv
<1>3. QED
  BY <1>1, <1>2

\* The inductive invariant of a plan's execution.
THEOREM PlanInvariant == Spec => []PlanInv
BY PlanInit, PlanStep, PTL DEF Spec

\* runPifrostProtocolPlan makes another attempt only if this one has made no
\* output, not even output still held by the filter or the queue, and a request
\* of it was refused with a status the policy names; the only one, if the
\* transport made no other.
THEOREM RepeatedSafely == Spec => []RepeatsAreSafe
BY PlanInvariant, PTL DEF PlanInv

\* The outer stream of runPifrostProtocolPlan implements AnswerStream: it shows
\* the events of one attempt, takes none back and ends once.
THEOREM PlanGivesOneAnswer == Spec => OneAnswer
<1>1. Init => Promise!Init
  BY DEF Init, Promise!Init
<1>2. PlanInv /\ [Next]_vars => [Promise!Show \/ Promise!Fail]_Promise!vars
  <2> SUFFICES ASSUME PlanInv, [Next]_vars
               PROVE  [Promise!Show \/ Promise!Fail]_<<answer, over>>
    BY DEF Promise!vars
  <2>1. CASE Next
    BY <2>1, AnswerStep DEF PlanInv
  <2>2. CASE UNCHANGED vars
    BY <2>2 DEF vars, outer
  <2>3. QED
    BY <2>1, <2>2
<1>3. QED
  BY <1>1, <1>2, PlanInvariant, PTL DEF Spec, OneAnswer, Promise!Spec

-----------------------------------------------------------------------------
(* The whole answer.  An event of an attempt is on its way from emitted to  *)
(* answer: in the filter, in the queue or among the events held back.       *)

Unbroken == \A i \in DOMAIN queue : queue[i] \notin Throws
Closed == transport \in {"given up", "answered", "cut off"}

\* What ends a stream is the last event of it.
EndsLast ==
    \A i \in DOMAIN queue : queue[i] \in Terminal \cup Throws => i = Len(queue) /\ Closed

TextsFlow == Texts(emitted) = Texts(ShownKinds) + Texts(queue)

Opened(events) == \E i \in DOMAIN events : events[i] = "text_start"
OutputFlows ==
    Spoke(emitted) /\ ~ Opened(emitted) =>
        Spoke(ShownKinds) \/ Spoke(queue) \/ filter \in {"holding", "candidate"}

Unstarted == ~ started /\ blocks = <<>> /\ ~ committed
StartFlows ==
    \/ emitted = <<>> /\ queue = <<>> /\ filter = "undecided" /\ Unstarted
    \/ /\ emitted # <<>> /\ emitted[1] = "start" /\ started
       /\ committed => answer # <<>> /\ ShownKinds[1] = "start"
    \/ emitted # <<>> /\ emitted[1] = "start" /\ queue # <<>> /\ queue[1] = "start" /\ Unstarted
    \/ \E e \in Terminal : emitted = <<e>> /\ queue = <<e>> /\ Closed /\ Unstarted

Flow ==
    stage = "reading" =>
        /\ EndsLast
        /\ Unbroken => /\ TextsFlow /\ OutputFlows /\ StartFlows
                       /\ Closed => filter = "undecided"

\* An answer that ended with an event of this attempt gets no more of it.
EndedByItself ==
    over = "event" => answer # <<>> /\ (answer[Len(answer)].attempt = attempt => Closed)

WholeInv ==
    /\ Flow
    /\ EndedByItself
    /\ over = "no" => lastError < attempt
    /\ AnswerIsWhole

-----------------------------------------------------------------------------
(* Texts and output of joined sequences.                                   *)

LEMMA Joined ==
    ASSUME NEW S, NEW s \in Seq(S), NEW t \in Seq(S)
    PROVE  /\ s \o t \in Seq(S)
           /\ Len(s) \in Nat /\ Len(t) \in Nat /\ Len(s \o t) = Len(s) + Len(t)
           /\ DOMAIN s = 1 .. Len(s) /\ DOMAIN t = 1 .. Len(t)
           /\ DOMAIN (s \o t) = 1 .. Len(s) + Len(t)
           /\ \A i \in DOMAIN s : i \in DOMAIN (s \o t) /\ (s \o t)[i] = s[i]
           /\ \A i \in DOMAIN t : Len(s) + i \in DOMAIN (s \o t) /\ (s \o t)[Len(s) + i] = t[i]
           /\ \A i \in DOMAIN (s \o t) :
                 \/ i \in DOMAIN s
                 \/ \E j \in DOMAIN t : i = Len(s) + j
<1>1. /\ s \o t \in Seq(S)
      /\ Len(s \o t) = Len(s) + Len(t)
      /\ \A i \in 1 .. Len(s) + Len(t) :
            (s \o t)[i] = IF i <= Len(s) THEN s[i] ELSE t[i - Len(s)]
  BY ConcatProperties
<1>2. /\ Len(s) \in Nat /\ Len(t) \in Nat
      /\ DOMAIN s = 1 .. Len(s) /\ DOMAIN t = 1 .. Len(t)
      /\ DOMAIN (s \o t) = 1 .. Len(s) + Len(t)
  BY <1>1, LenProperties
<1>3. \A i \in DOMAIN s : i \in DOMAIN (s \o t) /\ (s \o t)[i] = s[i]
  BY <1>1, <1>2
<1>4. \A i \in DOMAIN t : Len(s) + i \in DOMAIN (s \o t) /\ (s \o t)[Len(s) + i] = t[i]
  BY <1>1, <1>2
<1>5. ASSUME NEW i \in DOMAIN (s \o t), i \notin DOMAIN s
      PROVE  \E j \in DOMAIN t : i = Len(s) + j
  <2>1. i - Len(s) \in DOMAIN t /\ i = Len(s) + (i - Len(s))
    BY <1>2, <1>5
  <2>2. QED
    BY <2>1
<1>6. QED
  BY <1>1, <1>2, <1>3, <1>4, <1>5

LEMMA TextsFinite ==
    ASSUME NEW S, NEW s \in Seq(S)
    PROVE  /\ IsFiniteSet({i \in DOMAIN s : s[i] = "text"})
           /\ Texts(s) \in Nat
           /\ Texts(s) = 0 <=> \A i \in DOMAIN s : s[i] # "text"
<1> DEFINE P == {i \in DOMAIN s : s[i] = "text"}
<1>1. DOMAIN s = 1 .. Len(s) /\ Len(s) \in Nat
  BY LenProperties
<1>2. IsFiniteSet(1 .. Len(s))
  BY <1>1, FS_Interval
<1>3. IsFiniteSet(P)
  BY <1>1, <1>2, FS_Subset
<1>4. Cardinality(P) \in Nat
  BY <1>3, FS_CardinalityType
<1>5. Cardinality(P) = 0 <=> P = {}
  BY <1>3, FS_EmptySet
<1>6. QED
  BY <1>3, <1>4, <1>5 DEF Texts

LEMMA JoinedTexts ==
    ASSUME NEW S, NEW s \in Seq(S), NEW t \in Seq(S)
    PROVE  Texts(s \o t) = Texts(s) + Texts(t)
<1> DEFINE P(u) == {i \in DOMAIN u : u[i] = "text"}
           n == Len(s)
           shift == [i \in P(t) |-> n + i]
           Q == {n + i : i \in P(t)}
<1>0. s \o t \in Seq(S) /\ n \in Nat /\ P(s) \subseteq 1 .. n /\ \A i \in P(t) : i \in Nat \ {0}
  BY Joined
<1>1. IsFiniteSet(P(s)) /\ IsFiniteSet(P(t))
  BY TextsFinite
<1>2. P(s \o t) = P(s) \cup Q
  <2>1. P(s) \cup Q \subseteq P(s \o t)
    BY Joined
  <2>2. ASSUME NEW i \in P(s \o t)
        PROVE  i \in P(s) \cup Q
    <3>1. CASE i \in DOMAIN s
      BY <2>2, <3>1, Joined
    <3>2. CASE \E j \in DOMAIN t : i = n + j
      <4>1. PICK j \in DOMAIN t : i = n + j
        BY <3>2
      <4>2. t[j] = "text"
        BY <2>2, <4>1, Joined
      <4>3. QED
        BY <4>1, <4>2
    <3>3. QED
      BY <2>2, <3>1, <3>2, Joined
  <2>3. QED
    BY <2>1, <2>2
<1>3. P(s) \cap Q = {}
  BY <1>0
<1>4. IsFiniteSet(Q) /\ Cardinality(Q) = Cardinality(P(t))
  <2>1. shift \in Bijection(P(t), Q)
    <3>1. shift \in [P(t) -> Q] /\ \A q \in Q : \E i \in P(t) : shift[i] = q
      OBVIOUS
    <3>2. \A i, j \in P(t) : shift[i] = shift[j] => i = j
      BY <1>0
    <3>3. QED
      BY <3>1, <3>2 DEF Bijection, Injection, Surjection, IsInjective
  <2>2. ExistsBijection(P(t), Q)
    BY <2>1 DEF ExistsBijection
  <2> HIDE DEF P, Q
  <2>3. QED
    BY <1>1, <2>2, FS_Bijection
<1>5. Cardinality(P(s) \cup Q) = Cardinality(P(s)) + Cardinality(Q)
  <2>1. Cardinality(P(s) \cap Q) = 0
    BY <1>3, FS_EmptySet
  <2>2. /\ Cardinality(P(s)) \in Nat /\ Cardinality(Q) \in Nat
    BY <1>1, <1>4, FS_CardinalityType
  <2>3. Cardinality(P(s) \cup Q) = Cardinality(P(s)) + Cardinality(Q) - Cardinality(P(s) \cap Q)
    BY <1>1, <1>4, FS_Union
  <2>4. QED
    BY <2>1, <2>2, <2>3
<1>6. QED
  BY <1>2, <1>4, <1>5 DEF Texts

LEMMA JoinedSpoke ==
    ASSUME NEW S, NEW s \in Seq(S), NEW t \in Seq(S)
    PROVE  Spoke(s \o t) <=> Spoke(s) \/ Spoke(t)
<1>1. ASSUME Spoke(s \o t) PROVE Spoke(s) \/ Spoke(t)
  <2>1. PICK i \in DOMAIN (s \o t) : isCommittedModelOutput((s \o t)[i])
    BY <1>1 DEF Spoke
  <2>2. CASE i \in DOMAIN s
    BY <2>1, <2>2, Joined DEF Spoke
  <2>3. CASE \E j \in DOMAIN t : i = Len(s) + j
    <3>1. PICK j \in DOMAIN t : i = Len(s) + j
      BY <2>3
    <3>2. (s \o t)[i] = t[j]
      BY <3>1, Joined
    <3>3. QED
      BY <2>1, <3>2 DEF Spoke
  <2>4. QED
    BY <2>2, <2>3, Joined
<1>2. ASSUME Spoke(s) PROVE Spoke(s \o t)
  BY <1>2, Joined DEF Spoke
<1>3. ASSUME Spoke(t) PROVE Spoke(s \o t)
  <2>1. PICK j \in DOMAIN t : isCommittedModelOutput(t[j])
    BY <1>3 DEF Spoke
  <2>2. Len(s) + j \in DOMAIN (s \o t) /\ (s \o t)[Len(s) + j] = t[j]
    BY Joined
  <2>3. QED
    BY <2>1, <2>2 DEF Spoke
<1>4. QED
  BY <1>1, <1>2, <1>3

\* No event ends the stream.
Plain(s) == \A i \in DOMAIN s : s[i] \notin Terminal \cup Throws

LEMMA JoinedPlain ==
    ASSUME NEW S, NEW s \in Seq(S), NEW t \in Seq(S), Plain(s)
    PROVE  /\ Plain(t) => Plain(s \o t)
           /\ \A e \in S : \A i \in DOMAIN (s \o <<e>>) :
                 (s \o <<e>>)[i] \in Terminal \cup Throws => i = Len(s \o <<e>>)
<1>1. ASSUME Plain(t), NEW i \in DOMAIN (s \o t)
      PROVE  (s \o t)[i] \notin Terminal \cup Throws
  <2>1. CASE i \in DOMAIN s
    BY <2>1, Joined DEF Plain
  <2>2. CASE \E j \in DOMAIN t : i = Len(s) + j
    <3>1. PICK j \in DOMAIN t : i = Len(s) + j
      BY <2>2
    <3>2. (s \o t)[i] = t[j]
      BY <3>1, Joined
    <3>3. QED
      BY <1>1, <3>2 DEF Plain
  <2>3. QED
    BY <1>1, <2>1, <2>2, Joined
<1>2. ASSUME NEW e \in S, NEW i \in DOMAIN (s \o <<e>>),
             (s \o <<e>>)[i] \in Terminal \cup Throws
      PROVE  i = Len(s \o <<e>>)
  <2>1. <<e>> \in Seq(S) /\ Len(<<e>>) = 1 /\ DOMAIN <<e>> = {1}
    OBVIOUS
  <2>2. i \notin DOMAIN s
    BY <1>2, <2>1, Joined DEF Plain
  <2>3. PICK j \in DOMAIN <<e>> : i = Len(s) + j
    BY <1>2, <2>1, <2>2, Joined
  <2>4. QED
    BY <2>1, <2>3, Joined
<1>3. QED
  BY <1>1, <1>2 DEF Plain

LEMMA Singles ==
    ASSUME NEW e, NEW f
    PROVE  /\ Texts(<<>>) = 0 /\ ~ Spoke(<<>>)
           /\ Texts(<<e>>) = IF e = "text" THEN 1 ELSE 0
           /\ Spoke(<<e>>) <=> isCommittedModelOutput(e)
           /\ Spoke(<<e, f>>) <=> isCommittedModelOutput(e) \/ isCommittedModelOutput(f)
<1>1. {i \in DOMAIN <<>> : <<>>[i] = "text"} = {} /\ Texts(<<>>) = 0
  BY FS_EmptySet DEF Texts
<1>2. CASE e = "text"
  <2>1. {i \in DOMAIN <<e>> : <<e>>[i] = "text"} = {1}
    BY <1>2
  <2>2. QED
    BY <1>1, <1>2, <2>1, FS_Singleton DEF Texts, Spoke
<1>3. CASE e # "text"
  <2>1. {i \in DOMAIN <<e>> : <<e>>[i] = "text"} = {}
    BY <1>3
  <2>2. QED
    BY <1>1, <1>3, <2>1, FS_EmptySet DEF Texts, Spoke
<1>4. QED
  BY <1>1, <1>2, <1>3 DEF Spoke

-----------------------------------------------------------------------------
(* The reasoning filter.                                                   *)

Rest(e) ==
    IF Withheld(e) THEN <<>>
    ELSE IF e \in {"marker", "thought"} THEN <<"thought">>
    ELSE IF e = "marker_end" THEN Held \o <<"thinking_end">>
    ELSE Held \o <<e>>

LEMMA CandidateFacts ==
    ASSUME NEW e \in Made \ Throws
    PROVE  /\ Candidate(e) \in Seq(Passed) /\ Plain(Candidate(e)) /\ Texts(Candidate(e)) = 0
           /\ filter # "candidate" => Candidate(e) = <<>>
           /\ filter = "candidate" => Spoke(Candidate(e)) \/ isMeaningfulContinuation(e)
<1> DEFINE c == <<"thought", "thinking_end">>
           d == <<"empty_end">>
<1>1. {"thought", "thinking_end", "empty_end"} \subseteq Passed
  BY DEF Passed, Made, Content
<1>2. {"thought", "thinking_end", "empty_end"} \cap ({"text"} \cup Terminal \cup Throws) = {}
  BY DEF Terminal, Errors, Throws
<1>3. c \in Seq(Passed) /\ DOMAIN c = {1, 2} /\ c[1] = "thought" /\ c[2] = "thinking_end"
  BY <1>1
<1>4. d \in Seq(Passed) /\ DOMAIN d = {1} /\ d[1] = "empty_end"
  BY <1>1
<1>5. <<>> \in Seq(Passed) /\ DOMAIN <<>> = {}
  BY EmptySeq
<1>6. ASSUME NEW s \in {c, d, <<>>}
      PROVE  s \in Seq(Passed) /\ Plain(s) /\ Texts(s) = 0
  <2>1. s \in Seq(Passed) /\ \A i \in DOMAIN s : s[i] \notin {"text"} \cup Terminal \cup Throws
    BY <1>2, <1>3, <1>4, <1>5, <1>6
  <2>2. QED
    BY <2>1, TextsFinite DEF Plain
<1>7. Spoke(c)
  BY <1>3 DEF Spoke, isCommittedModelOutput
<1>8. Candidate(e) \in {c, d, <<>>}
  BY DEF Candidate
<1>9. /\ filter # "candidate" => Candidate(e) = <<>>
      /\ filter = "candidate" /\ ~ isMeaningfulContinuation(e) => Candidate(e) = c
  BY DEF Candidate
<1> HIDE DEF c, d
<1>10. QED
  BY <1>6, <1>7, <1>8, <1>9

LEMMA HeldFacts ==
    /\ Held \in Seq(Passed) /\ Plain(Held) /\ Texts(Held) = 0
    /\ filter = "holding" => Spoke(Held)
    /\ filter # "holding" => Held = <<>>
<1>1. "thought" \in Passed /\ "thought" \notin {"text"} \cup Terminal \cup Throws
  BY DEF Passed, Made, Content, Terminal, Errors, Throws
<1>2. <<"thought">> \in Seq(Passed) /\ Plain(<<"thought">>)
  BY <1>1 DEF Plain
<1>3. <<>> \in Seq(Passed) /\ Plain(<<>>)
  BY EmptySeq DEF Plain
<1>4. Texts(<<"thought">>) = 0 /\ Texts(<<>>) = 0 /\ Spoke(<<"thought">>)
  BY Singles DEF isCommittedModelOutput
<1>5. QED
  BY <1>2, <1>3, <1>4 DEF Held

LEMMA RestFacts ==
    ASSUME NEW e \in Made \ Throws
    PROVE  /\ Rest(e) \in Seq(Passed) /\ Texts(Rest(e)) = Texts(<<e>>)
           /\ e \notin Terminal => Plain(Rest(e))
           /\ e \in Terminal => Rest(e) = Held \o <<e>> /\ filterAfter(e) = "undecided"
           /\ e = "start" => Rest(e) = Held \o <<e>>
           /\ isCommittedModelOutput(e) \/ filter = "holding" =>
                 Spoke(Rest(e)) \/ filterAfter(e) \in {"holding", "candidate"}
           /\ e = "text" => Spoke(Rest(e))
<1>1. e \in Passed /\ "thinking_end" \in Passed /\ "thought" \in Passed
  BY DEF Passed, Made, Content
<1>2. ASSUME NEW f \in Passed
      PROVE  /\ Held \o <<f>> \in Seq(Passed)
             /\ Texts(Held \o <<f>>) = Texts(<<f>>)
             /\ f \notin Terminal \cup Throws => Plain(Held \o <<f>>)
             /\ filter = "holding" \/ isCommittedModelOutput(f) => Spoke(Held \o <<f>>)
  <2>1. Held \in Seq(Passed) /\ <<f>> \in Seq(Passed)
    BY <1>2, HeldFacts
  <2>2. Texts(Held \o <<f>>) = Texts(Held) + Texts(<<f>>)
    BY <2>1, JoinedTexts
  <2>3. Texts(<<f>>) \in Nat
    BY <2>1, TextsFinite
  <2>4. Spoke(Held \o <<f>>) <=> Spoke(Held) \/ Spoke(<<f>>)
    BY <2>1, JoinedSpoke
  <2>5. f \notin Terminal \cup Throws => Plain(<<f>>)
    BY DEF Plain
  <2>6. Held \o <<f>> \in Seq(Passed)
    BY <2>1, Joined
  <2>7. f \notin Terminal \cup Throws => Plain(Held \o <<f>>)
    BY <2>1, <2>5, HeldFacts, JoinedPlain
  <2>8. Texts(Held \o <<f>>) = Texts(<<f>>)
    BY <2>2, <2>3, HeldFacts
  <2>9. filter = "holding" \/ isCommittedModelOutput(f) => Spoke(Held \o <<f>>)
    BY <2>4, HeldFacts, Singles
  <2>10. QED
    BY <2>6, <2>7, <2>8, <2>9
<1>3. CASE Withheld(e)
  <2>1. e \in {"marker", "marker_end"}
    BY <1>3 DEF Withheld
  <2>2. Rest(e) = <<>> /\ e \notin Terminal /\ e # "text" /\ e # "start"
    BY <1>3, <2>1 DEF Rest, Terminal, Errors
  <2>3. filterAfter(e) \in {"holding", "candidate"}
    BY <1>3, <2>1 DEF filterAfter
  <2>4. Texts(<<e>>) = 0 /\ Texts(<<>>) = 0
    BY <2>2, Singles
  <2>5. <<>> \in Seq(Passed) /\ Plain(<<>>)
    BY EmptySeq DEF Plain
  <2>6. QED
    BY <2>2, <2>3, <2>4, <2>5
<1>4. CASE ~ Withheld(e) /\ e \in {"marker", "thought"}
  <2>1. Rest(e) = <<"thought">> /\ e \notin Terminal /\ e # "text" /\ e # "start"
    BY <1>4 DEF Rest, Terminal, Errors
  <2>2. "thought" \notin Terminal \cup Throws
    BY DEF Terminal, Errors, Throws
  <2>3. Texts(<<e>>) = 0 /\ Texts(<<"thought">>) = 0 /\ Spoke(<<"thought">>)
    BY <2>1, Singles DEF isCommittedModelOutput
  <2>4. <<"thought">> \in Seq(Passed) /\ Plain(<<"thought">>)
    BY <1>1, <2>2 DEF Plain
  <2>5. QED
    BY <2>1, <2>3, <2>4
<1>5. CASE ~ Withheld(e) /\ e = "marker_end"
  <2>1. Rest(e) = Held \o <<"thinking_end">> /\ e \notin Terminal
    BY <1>5 DEF Rest, Terminal, Errors
  <2>2. "thinking_end" \notin Terminal \cup Throws /\ isCommittedModelOutput("thinking_end")
    BY DEF Terminal, Errors, Throws, isCommittedModelOutput
  <2>3. Texts(<<e>>) = 0 /\ Texts(<<"thinking_end">>) = 0
    BY <1>5, Singles
  <2>4. QED
    BY <1>1, <1>2, <1>5, <2>1, <2>2, <2>3
<1>6. CASE ~ Withheld(e) /\ e \notin {"marker", "thought", "marker_end"}
  <2>1. Rest(e) = Held \o <<e>>
    BY <1>6 DEF Rest
  <2>2. filterAfter(e) = "undecided"
    BY <1>6 DEF filterAfter
  <2>3. e = "text" => isCommittedModelOutput(e)
    BY DEF isCommittedModelOutput
  <2>4. QED
    BY <1>1, <1>2, <2>1, <2>2, <2>3
<1>7. QED
  BY <1>3, <1>4, <1>5, <1>6

\* The filter lets all text through at once, and what it withholds comes out
\* unless a text block, or the end of an answer that has text, follows.
LEMMA Filtered ==
    ASSUME NEW e \in Made \ Throws
    PROVE  /\ consume(e) \in Seq(Passed) /\ Texts(consume(e)) = Texts(<<e>>)
           /\ e \notin Terminal => Plain(consume(e))
           /\ e \in Terminal => /\ filterAfter(e) = "undecided"
                                /\ \E p \in Seq(Passed) : Plain(p) /\ consume(e) = p \o <<e>>
           /\ filter = "undecided" /\ e \in Terminal \cup {"start"} => consume(e) = <<e>>
           /\ isCommittedModelOutput(e) \/ filter \in {"holding", "candidate"} =>
                 \/ Spoke(consume(e))
                 \/ filterAfter(e) \in {"holding", "candidate"}
                 \/ e = "text_start"
                 \/ e = "done" /\ \E i \in DOMAIN emitted : emitted[i] = "text"
<1>1. /\ Candidate(e) \in Seq(Passed) /\ Rest(e) \in Seq(Passed) /\ <<e>> \in Seq(Passed)
      /\ Held \in Seq(Passed)
  <2>1. e \in Passed
    BY DEF Passed
  <2>2. <<e>> \in Seq(Passed)
    BY <2>1
  <2>3. QED
    BY <2>2, CandidateFacts, RestFacts, HeldFacts
<1>2. consume(e) = Candidate(e) \o Rest(e)
  BY DEF consume, Rest
<1>3. Texts(consume(e)) = Texts(<<e>>)
  <2>1. Texts(consume(e)) = Texts(Candidate(e)) + Texts(Rest(e))
    BY <1>1, <1>2, JoinedTexts
  <2>2. Texts(<<e>>) \in Nat
    BY <1>1, TextsFinite
  <2>3. QED
    BY <2>1, <2>2, CandidateFacts, RestFacts
<1>4. e \notin Terminal => Plain(consume(e))
  BY <1>1, <1>2, CandidateFacts, RestFacts, JoinedPlain
<1>5. ASSUME e \in Terminal
      PROVE  \E p \in Seq(Passed) : Plain(p) /\ consume(e) = p \o <<e>>
  <2>1. Candidate(e) \o Held \in Seq(Passed) /\ Plain(Candidate(e) \o Held)
    BY <1>1, CandidateFacts, HeldFacts, JoinedPlain, Joined
  <2>2. Candidate(e) \o (Held \o <<e>>) = (Candidate(e) \o Held) \o <<e>>
    BY <1>1, ConcatAssociative
  <2>3. Rest(e) = Held \o <<e>>
    BY <1>5, RestFacts
  <2>4. QED
    BY <1>2, <2>1, <2>2, <2>3
<1>6. ASSUME filter = "undecided", e \in Terminal \cup {"start"}
      PROVE  consume(e) = <<e>>
  <2>1. Candidate(e) = <<>> /\ Held = <<>> /\ Rest(e) = Held \o <<e>>
    BY <1>6, CandidateFacts, HeldFacts, RestFacts
  <2>2. <<>> \o <<e>> = <<e>>
    BY <1>1, ConcatEmptySeq
  <2>3. QED
    BY <1>2, <2>1, <2>2
<1>7. Spoke(consume(e)) <=> Spoke(Candidate(e)) \/ Spoke(Rest(e))
  BY <1>1, <1>2, JoinedSpoke
<1>8. isMeaningfulContinuation(e) =>
         \/ e \in {"text_start", "text"}
         \/ e = "done" /\ \E i \in DOMAIN emitted : emitted[i] = "text"
  BY DEF isMeaningfulContinuation
<1>9. isCommittedModelOutput(e) \/ filter \in {"holding", "candidate"} =>
         \/ Spoke(consume(e))
         \/ filterAfter(e) \in {"holding", "candidate"}
         \/ e = "text_start"
         \/ e = "done" /\ \E i \in DOMAIN emitted : emitted[i] = "text"
  BY <1>7, <1>8, CandidateFacts, RestFacts
<1>10. consume(e) \in Seq(Passed)
  BY <1>1, <1>2, Joined
<1>11. QED
  BY <1>3, <1>4, <1>5, <1>6, <1>9, <1>10, RestFacts

-----------------------------------------------------------------------------
(* The steps.                                                              *)

LEMMA KindsOf ==
    ASSUME NEW shown \in Seq(Shows)
    PROVE  /\ Len(shown) \in Nat /\ DOMAIN shown = 1 .. Len(shown)
           /\ [i \in DOMAIN shown |-> shown[i].kind] \in Seq(Passed)
           /\ Len([i \in DOMAIN shown |-> shown[i].kind]) = Len(shown)
<1>1. DOMAIN shown = 1 .. Len(shown) /\ Len(shown) \in Nat
  BY LenProperties
<1>2. \A i \in 1 .. Len(shown) : shown[i] \in Shows
  BY ElementOfSeq
<1>3. \A i \in 1 .. Len(shown) : shown[i].kind \in Passed
  BY <1>2 DEF Shows
<1>4. [i \in 1 .. Len(shown) |-> shown[i].kind] \in Seq(Passed)
  BY <1>1, <1>3, IsASeq
<1>5. QED
  BY <1>1, <1>4

LEMMA JoinedKinds ==
    ASSUME NEW k \in Seq(Passed), NEW t \in Seq(Passed)
    PROVE  /\ k \o t \in Seq(Passed)
           /\ Len(k \o t) = Len(k) + Len(t)
           /\ \A i \in DOMAIN k : (k \o t)[i] = k[i]
           /\ \A i \in DOMAIN t : (k \o t)[Len(k) + i] = t[i]
<1>1. k \o t \in Seq(Passed) /\ Len(k \o t) = Len(k) + Len(t)
  BY Joined
<1>2. \A i \in DOMAIN k : (k \o t)[i] = k[i]
  BY Joined
<1>3. \A i \in DOMAIN t : (k \o t)[Len(k) + i] = t[i]
  BY Joined
<1>4. QED
  BY <1>1, <1>2, <1>3

\* The kinds of the events shown after a push.
LEMMA PushedKinds ==
    ASSUME TypeOK, NEW events \in Seq(Passed \ Throws), push(events)
    PROVE  /\ ShownKinds \in Seq(Passed) /\ events \in Seq(Passed)
           /\ ShownKinds' = ShownKinds \o events
           /\ Len(ShownKinds) = Len(answer) /\ Len(answer') = Len(answer) + Len(events)
           /\ events # <<>> => answer'[Len(answer')].attempt = attempt
<1>1. /\ answer \in Seq(Shows) /\ Len(answer) \in Nat /\ DOMAIN answer = 1 .. Len(answer)
      /\ DOMAIN events = 1 .. Len(events) /\ Len(events) \in Nat
  BY LenProperties DEF TypeOK
<1>2. /\ answer' \in Seq(Shows)
      /\ Len(answer') = Len(answer) + Len(events)
      /\ \A i \in 1 .. Len(answer) : answer'[i] = answer[i]
      /\ \A i \in 1 .. Len(events) :
            answer'[Len(answer) + i] = [attempt |-> attempt, kind |-> events[i]]
  BY Pushed
<1>3. DOMAIN answer' = 1 .. Len(answer) + Len(events)
  BY <1>2, LenProperties
<1>5. ShownKinds \in Seq(Passed) /\ Len(ShownKinds) = Len(answer)
  BY <1>1, KindsOf DEF ShownKinds
<1>6. events \in Seq(Passed)
  BY SeqMonotonic
<1>7. ShownKinds' \in Seq(Passed) /\ Len(ShownKinds') = Len(answer) + Len(events)
  BY <1>2, KindsOf DEF ShownKinds
<1>8. /\ ShownKinds \o events \in Seq(Passed)
      /\ Len(ShownKinds \o events) = Len(answer) + Len(events)
      /\ \A i \in DOMAIN ShownKinds : (ShownKinds \o events)[i] = ShownKinds[i]
      /\ \A i \in DOMAIN events : (ShownKinds \o events)[Len(answer) + i] = events[i]
  <2>1. /\ ShownKinds \o events \in Seq(Passed)
        /\ Len(ShownKinds \o events) = Len(ShownKinds) + Len(events)
    BY <1>5, <1>6, JoinedKinds
  <2>2. \A i \in DOMAIN ShownKinds : (ShownKinds \o events)[i] = ShownKinds[i]
    BY <1>5, <1>6, JoinedKinds
  <2>3. \A i \in DOMAIN events : (ShownKinds \o events)[Len(ShownKinds) + i] = events[i]
    BY <1>5, <1>6, JoinedKinds
  <2>4. QED
    BY <1>5, <2>1, <2>2, <2>3
<1>9. ASSUME NEW i \in 1 .. Len(answer) + Len(events)
      PROVE  ShownKinds'[i] = (ShownKinds \o events)[i]
  <2>0. ShownKinds'[i] = answer'[i].kind
    BY <1>3 DEF ShownKinds
  <2>1. CASE i \in 1 .. Len(answer)
    <3>1. i \in DOMAIN ShownKinds /\ ShownKinds[i] = answer[i].kind
      BY <1>1, <2>1 DEF ShownKinds
    <3>2. QED
      BY <1>2, <1>8, <2>0, <2>1, <3>1
  <2>2. CASE i \notin 1 .. Len(answer)
    <3> DEFINE j == i - Len(answer)
    <3>1. j \in 1 .. Len(events) /\ i = Len(answer) + j
      BY <1>1, <2>2
    <3>2. answer'[i].kind = events[j]
      <4> HIDE DEF j
      <4>1. answer'[i] = [attempt |-> attempt, kind |-> events[j]]
        BY <1>2, <3>1
      <4>2. QED
        BY <4>1
    <3>3. (ShownKinds \o events)[i] = events[j]
      BY <1>1, <1>8, <3>1
    <3>4. QED
      BY <2>0, <3>2, <3>3
  <2>3. QED
    BY <2>1, <2>2
<1>10. ShownKinds' = ShownKinds \o events
  BY <1>7, <1>8, <1>9, SeqEqual
<1>11. ASSUME events # <<>>
       PROVE  answer'[Len(answer')].attempt = attempt
  <2>1. Len(events) \in 1 .. Len(events)
    BY <1>1, <1>11, EmptySeq
  <2>2. answer'[Len(answer) + Len(events)] = [attempt |-> attempt, kind |-> events[Len(events)]]
    BY <1>2, <2>1
  <2>3. QED
    BY <1>2, <2>2
<1>12. QED
  BY <1>2, <1>5, <1>6, <1>10, <1>11

\* The runner takes the first event off the queue.
LEMMA TakenQueue ==
    ASSUME TypeOK, Take
    PROVE  /\ Event \in Passed /\ queue' \in Seq(Passed) /\ <<Event>> \in Seq(Passed)
           /\ queue = <<Event>> \o queue' /\ queue[1] = Event
           /\ 1 \in DOMAIN queue /\ Len(queue) = Len(queue') + 1
           /\ \A i \in DOMAIN queue' : i + 1 \in DOMAIN queue /\ queue'[i] = queue[i + 1]
<1>1. queue \in Seq(Passed) /\ queue # <<>> /\ queue' = Tail(queue)
  BY DEF TypeOK, Take
<1>2. /\ Head(queue) = queue[1] /\ Head(queue) \in Passed
      /\ Tail(queue) \in Seq(Passed) /\ Len(Tail(queue)) = Len(queue) - 1
      /\ \A i \in 1 .. Len(Tail(queue)) : Tail(queue)[i] = queue[i + 1]
      /\ Len(queue) \in Nat \ {0}
  BY <1>1, HeadTailProperties, EmptySeq, LenProperties
<1>3. /\ DOMAIN queue = 1 .. Len(queue) /\ DOMAIN queue' = 1 .. Len(queue')
      /\ Len(queue') \in Nat /\ Len(queue) = Len(queue') + 1
  BY <1>1, <1>2, LenProperties
<1>4. \A i \in DOMAIN queue' : i + 1 \in DOMAIN queue /\ queue'[i] = queue[i + 1]
  BY <1>1, <1>2, <1>3
<1>5. <<Event>> \in Seq(Passed) /\ Len(<<Event>>) = 1 /\ <<Event>>[1] = Event
  BY <1>2 DEF Event
<1>6. /\ <<Event>> \o queue' \in Seq(Passed)
      /\ Len(<<Event>> \o queue') = Len(queue)
      /\ \A i \in 1 .. Len(queue) :
            (<<Event>> \o queue')[i] = IF i <= 1 THEN <<Event>>[i] ELSE queue'[i - 1]
  BY <1>1, <1>2, <1>3, <1>5, ConcatProperties
<1>7. \A i \in 1 .. Len(queue) : (<<Event>> \o queue')[i] = queue[i]
  <2>1. ASSUME NEW i \in 1 .. Len(queue), i > 1
        PROVE  queue'[i - 1] = queue[i]
    <3>1. i - 1 \in DOMAIN queue' /\ (i - 1) + 1 = i
      BY <1>2, <1>3, <2>1
    <3>2. QED
      BY <1>4, <3>1
  <2>2. queue[1] = <<Event>>[1]
    BY <1>2 DEF Event
  <2>3. QED
    BY <1>2, <1>6, <2>1, <2>2
<1>8. queue = <<Event>> \o queue'
  BY <1>1, <1>6, <1>7, SeqEqual
<1>9. QED
  BY <1>1, <1>2, <1>3, <1>4, <1>5, <1>8 DEF Event

\* While events may come, none in the queue ends it.
LEMMA OpenQueue ==
    ASSUME EndsLast, ~ Closed
    PROVE  Plain(queue) /\ Unbroken
BY DEF EndsLast, Plain, Unbroken

\* The bridge takes an event of the transport.
LEMMA FlowPass ==
    ASSUME TypeOK, Flow, ~ Closed, NEW e \in Made \ Throws, Pass(e),
           UNCHANGED <<runner, outer>>,
           e \in Terminal <=> Closed',
           \/ e = "start" /\ emitted = <<>>
           \/ e \in Content /\ emitted # <<>>
           \/ e \in Terminal
    PROVE  Flow'
<1> SUFFICES ASSUME stage = "reading"
             PROVE  Flow'
  BY DEF Flow, runner
<1>1. EndsLast /\ Plain(queue) /\ Unbroken /\ TextsFlow /\ OutputFlows /\ StartFlows
  BY OpenQueue DEF Flow
<1>2. /\ emitted \in Seq(Made) /\ queue \in Seq(Passed) /\ e \in Made /\ e \in Passed
      /\ ShownKinds \in Seq(Passed) /\ <<e>> \in Seq(Made)
  <2>1. ShownKinds \in Seq(Passed)
    BY KindsOf DEF TypeOK, ShownKinds
  <2>2. emitted \in Seq(Made) /\ queue \in Seq(Passed)
    BY DEF TypeOK
  <2>3. e \in Made /\ <<e>> \in Seq(Made)
    OBVIOUS
  <2>4. QED
    BY <2>1, <2>2, <2>3 DEF Passed
<1>3. /\ emitted' = emitted \o <<e>> /\ queue' = queue \o consume(e)
      /\ filter' = filterAfter(e) /\ ShownKinds' = ShownKinds /\ answer' = answer
      /\ started' = started /\ blocks' = blocks /\ committed' = committed
  <2>1. emitted \o <<e>> = Append(emitted, e)
    BY <1>2, AppendIsConcat
  <2>2. QED
    BY <2>1 DEF Pass, runner, outer, ShownKinds
<1>4. consume(e) \in Seq(Passed)
  BY Filtered
<1>5. EndsLast' /\ Unbroken'
  <2>1. CASE e \notin Terminal
    <3>1. Plain(queue')
      BY <1>1, <1>2, <1>3, <1>4, <2>1, Filtered, JoinedPlain
    <3>2. QED
      BY <3>1 DEF Plain, EndsLast, Unbroken
  <2>2. CASE e \in Terminal
    <3>1. PICK p \in Seq(Passed) : Plain(p) /\ consume(e) = p \o <<e>>
      BY <2>2, Filtered
    <3>2. queue \o p \in Seq(Passed) /\ Plain(queue \o p) /\ <<e>> \in Seq(Passed)
      BY <1>1, <1>2, <3>1, JoinedPlain, Joined
    <3>3. queue' = (queue \o p) \o <<e>>
      BY <1>2, <1>3, <3>1, <3>2, ConcatAssociative
    <3>4. \A i \in DOMAIN queue' : queue'[i] \in Terminal \cup Throws => i = Len(queue')
      BY <1>2, <3>2, <3>3, JoinedPlain
    <3>5. Closed'
      BY <2>2
    <3>6. queue'[Len(queue')] = e
      <4>1. Len(<<e>>) = 1 /\ DOMAIN <<e>> = {1} /\ <<e>>[1] = e
        OBVIOUS
      <4>2. Len(queue') = Len(queue \o p) + 1 /\ queue'[Len(queue \o p) + 1] = e
        BY <3>2, <3>3, <4>1, Joined
      <4>3. QED
        BY <4>2
    <3>7. QED
      BY <3>4, <3>5, <3>6 DEF EndsLast, Unbroken
  <2>3. QED
    BY <2>1, <2>2
<1>6. TextsFlow'
  <2>1. Texts(emitted') = Texts(emitted) + Texts(<<e>>)
    BY <1>2, <1>3, JoinedTexts
  <2>2. Texts(queue') = Texts(queue) + Texts(<<e>>)
    BY <1>2, <1>3, <1>4, Filtered, JoinedTexts
  <2>3. {Texts(emitted), Texts(<<e>>), Texts(queue), Texts(ShownKinds)} \subseteq Nat
    BY <1>2, TextsFinite
  <2>4. QED
    BY <1>1, <1>3, <2>1, <2>2, <2>3 DEF TextsFlow
<1>7. OutputFlows'
  <2> SUFFICES ASSUME Spoke(emitted'), ~ Opened(emitted')
               PROVE  Spoke(ShownKinds) \/ Spoke(queue') \/ filter' \in {"holding", "candidate"}
    BY <1>3 DEF OutputFlows
  <2>1. Spoke(emitted) \/ isCommittedModelOutput(e)
    BY <1>2, <1>3, JoinedSpoke, Singles
  <2>2. ~ Opened(emitted) /\ e # "text_start"
    <3>1. \A i \in DOMAIN emitted : i \in DOMAIN emitted' /\ emitted'[i] = emitted[i]
      BY <1>2, <1>3, Joined
    <3>2. DOMAIN <<e>> = {1} /\ <<e>>[1] = e
      OBVIOUS
    <3>3. Len(emitted) + 1 \in DOMAIN emitted' /\ emitted'[Len(emitted) + 1] = e
      BY <1>2, <1>3, <3>2, Joined
    <3>4. QED
      BY <3>1, <3>3 DEF Opened
  <2>3. Spoke(queue') <=> Spoke(queue) \/ Spoke(consume(e))
    BY <1>2, <1>3, <1>4, JoinedSpoke
  <2>4. ASSUME \E i \in DOMAIN emitted : emitted[i] = "text"
        PROVE  Spoke(ShownKinds) \/ Spoke(queue)
    <3>1. Texts(emitted) # 0
      BY <1>2, <2>4, TextsFinite
    <3>2. Texts(ShownKinds) # 0 \/ Texts(queue) # 0
      BY <1>1, <3>1 DEF TextsFlow
    <3>3. \/ \E i \in DOMAIN ShownKinds : ShownKinds[i] = "text"
          \/ \E i \in DOMAIN queue : queue[i] = "text"
      BY <1>2, <3>2, TextsFinite
    <3>4. QED
      BY <3>3 DEF Spoke, isCommittedModelOutput
  <2>5. Spoke(emitted) => Spoke(ShownKinds) \/ Spoke(queue) \/ filter \in {"holding", "candidate"}
    BY <1>1, <2>2 DEF OutputFlows
  <2>6. QED
    BY <1>3, <2>1, <2>2, <2>3, <2>4, <2>5, Filtered
<1>8. StartFlows'
  <2>1. DOMAIN emitted = 1 .. Len(emitted) /\ Len(emitted) \in Nat /\ DOMAIN queue = 1 .. Len(queue)
        /\ Len(queue) \in Nat
    BY <1>2, LenProperties
  <2>2. ASSUME emitted # <<>>
        PROVE  emitted' # <<>> /\ emitted'[1] = emitted[1]
    <3>1. 1 \in DOMAIN emitted
      BY <1>2, <2>1, <2>2, EmptySeq
    <3>2. 1 \in DOMAIN emitted' /\ emitted'[1] = emitted[1]
      BY <1>2, <1>3, <3>1, Joined
    <3>3. QED
      BY <3>2
  <2>3. ASSUME queue # <<>>
        PROVE  queue' # <<>> /\ queue'[1] = queue[1]
    <3>1. 1 \in DOMAIN queue
      BY <1>2, <2>1, <2>3, EmptySeq
    <3>2. 1 \in DOMAIN queue' /\ queue'[1] = queue[1]
      BY <1>2, <1>3, <1>4, <3>1, Joined
    <3>3. QED
      BY <3>2
  <2>4. CASE emitted = <<>> /\ queue = <<>> /\ filter = "undecided" /\ Unstarted
    <3>1. e \in Terminal \cup {"start"}
      BY <2>4
    <3>2. consume(e) = <<e>>
      BY <2>4, <3>1, Filtered
    <3>3. emitted' = <<e>> /\ queue' = <<e>>
      BY <1>2, <1>3, <2>4, <3>2, ConcatEmptySeq
    <3>4. Unstarted'
      BY <1>3, <2>4 DEF Unstarted
    <3>5. CASE e = "start"
      <4>1. emitted' # <<>> /\ emitted'[1] = "start" /\ queue' # <<>> /\ queue'[1] = "start"
        BY <3>3, <3>5
      <4>2. QED
        BY <3>4, <4>1 DEF StartFlows
    <3>6. CASE e \in Terminal
      BY <3>3, <3>4, <3>6 DEF StartFlows
    <3>7. QED
      BY <3>1, <3>5, <3>6
  <2>5. CASE /\ emitted # <<>> /\ emitted[1] = "start" /\ started
             /\ committed => answer # <<>> /\ ShownKinds[1] = "start"
    BY <1>3, <2>2, <2>5 DEF StartFlows
  <2>6. CASE emitted # <<>> /\ emitted[1] = "start" /\ queue # <<>> /\ queue[1] = "start" /\ Unstarted
    <3>1. Unstarted'
      BY <1>3, <2>6 DEF Unstarted
    <3>2. QED
      BY <2>2, <2>3, <2>6, <3>1 DEF StartFlows
  <2>7. QED
    BY <1>1, <2>4, <2>5, <2>6 DEF StartFlows
<1>9. Closed' => filter' = "undecided"
  BY <1>3, Filtered
<1>10. QED
  BY <1>5, <1>6, <1>7, <1>8, <1>9 DEF Flow

-----------------------------------------------------------------------------
(* The runner's reads.                                                     *)

\* What is shown before an event, and what the forms of a push come to.
Before == {<<>>, StartEvent, StartEvent \o blocks}

LEMMA BeforeFacts ==
    ASSUME TypeOK, NEW p \in Before
    PROVE  /\ p \in Seq(Passed \ Throws) /\ p \in Seq(Passed) /\ Texts(p) = 0
           /\ started /\ p # <<>> => 1 \in DOMAIN p /\ p[1] = "start"
           /\ ~ started /\ blocks = <<>> => p = <<>>
<1>1. Buffered \cup {"start"} \subseteq Passed \ Throws /\ "text" \notin Buffered \cup {"start"}
  BY DEF Buffered, Passed, Made, Content, Throws
<1>2. blocks \in Seq(Buffered \cup {"start"})
  BY SeqMonotonic DEF TypeOK
<1>3. /\ StartEvent \in Seq(Buffered \cup {"start"})
      /\ started => StartEvent = <<"start">>
      /\ ~ started => StartEvent = <<>>
  <2>1. <<"start">> \in Seq(Buffered \cup {"start"})
    OBVIOUS
  <2>2. QED
    BY <2>1, EmptySeq DEF StartEvent
<1>4. <<>> \in Seq(Buffered \cup {"start"}) /\ <<>> \o <<>> = <<>>
  BY EmptySeq, ConcatEmptySeq
<1>5. StartEvent \o blocks \in Seq(Buffered \cup {"start"})
  BY <1>2, <1>3, ConcatProperties
<1>6. p \in Seq(Buffered \cup {"start"})
  BY <1>3, <1>4, <1>5 DEF Before
<1>7. p \in Seq(Passed \ Throws) /\ p \in Seq(Passed)
  BY <1>1, <1>6, SeqMonotonic
<1>8. \A i \in DOMAIN p : p[i] \in Buffered \cup {"start"}
  BY <1>6, ElementOfSeq, LenProperties
<1>9. Texts(p) = 0
  BY <1>1, <1>7, <1>8, TextsFinite
<1>10. ASSUME started, p # <<>>
       PROVE  1 \in DOMAIN p /\ p[1] = "start"
  <2>1. <<"start">> \in Seq(Buffered \cup {"start"}) /\ 1 \in DOMAIN <<"start">> /\ <<"start">>[1] = "start"
    BY <1>1
  <2>2. 1 \in DOMAIN (<<"start">> \o blocks) /\ (<<"start">> \o blocks)[1] = "start"
    BY <1>2, <2>1, Joined
  <2>3. QED
    BY <1>3, <1>10, <2>1, <2>2 DEF Before
<1>11. ~ started /\ blocks = <<>> => p = <<>>
  BY <1>3, <1>4 DEF Before
<1>12. QED
  BY <1>7, <1>9, <1>10, <1>11

LEMMA PushedForms ==
    ASSUME TypeOK, NEW e \in Passed \ Throws
    PROVE  /\ StartEvent \o Append(blocks, e) = (StartEvent \o blocks) \o <<e>>
           /\ Append(StartEvent, e) = StartEvent \o <<e>>
<1>1. Buffered \subseteq Passed /\ "start" \in Passed
  BY DEF Buffered, Passed, Made, Content
<1>2. blocks \in Seq(Passed)
  BY <1>1, SeqMonotonic DEF TypeOK
<1>3. StartEvent \in Seq(Passed)
  <2>1. <<"start">> \in Seq(Passed)
    BY <1>1
  <2>2. QED
    BY <2>1, EmptySeq DEF StartEvent
<1>4. <<e>> \in Seq(Passed)
  OBVIOUS
<1>5. Append(blocks, e) = blocks \o <<e>> /\ Append(StartEvent, e) = StartEvent \o <<e>>
  BY <1>2, <1>3, AppendIsConcat
<1>6. QED
  BY <1>2, <1>3, <1>4, <1>5, ConcatAssociative

\* An event shown after what was held back counts as itself.
LEMMA PushedEvent ==
    ASSUME TypeOK, NEW p \in Before, NEW e \in Passed \ Throws
    PROVE  /\ p \o <<e>> \in Seq(Passed \ Throws) /\ p \o <<e>> # <<>>
           /\ Texts(p \o <<e>>) = Texts(<<e>>)
           /\ isCommittedModelOutput(e) => Spoke(p \o <<e>>)
           /\ started /\ p # <<>> => (p \o <<e>>)[1] = "start"
           /\ p = <<>> => Len(p \o <<e>>) = 1
<1>1. p \in Seq(Passed) /\ p \in Seq(Passed \ Throws) /\ Texts(p) = 0
  BY BeforeFacts
<1>2. <<e>> \in Seq(Passed) /\ <<e>> \in Seq(Passed \ Throws) /\ Len(<<e>>) = 1
  OBVIOUS
<1>3. Texts(p \o <<e>>) = Texts(<<e>>)
  <2>1. Texts(p \o <<e>>) = Texts(p) + Texts(<<e>>)
    BY <1>1, <1>2, JoinedTexts
  <2>2. Texts(<<e>>) \in Nat
    BY <1>2, TextsFinite
  <2>3. QED
    BY <1>1, <2>1, <2>2
<1>4. isCommittedModelOutput(e) => Spoke(p \o <<e>>)
  BY <1>1, <1>2, JoinedSpoke, Singles
<1>5. started /\ p # <<>> => (p \o <<e>>)[1] = "start"
  BY <1>1, <1>2, BeforeFacts, Joined
<1>6. p = <<>> => Len(p \o <<e>>) = 1
  BY <1>2, ConcatEmptySeq
<1>7. p \o <<e>> \in Seq(Passed \ Throws)
  BY <1>1, <1>2, ConcatProperties
<1>8. p \o <<e>> # <<>>
  <2>1. Len(p \o <<e>>) = Len(p) + 1 /\ Len(p) \in Nat
    BY <1>1, <1>2, ConcatProperties, LenProperties
  <2>2. Len(<<>>) = 0
    OBVIOUS
  <2>3. QED
    BY <2>1, <2>2
<1>9. QED
  BY <1>3, <1>4, <1>5, <1>6, <1>7, <1>8

\* A read that goes on hands over the event it takes.
LEMMA FlowTaken ==
    ASSUME TypeOK, Flow, Take, UNCHANGED transport, Event \notin Terminal \cup Throws,
           NEW shown \in Seq(Passed), ShownKinds \in Seq(Passed),
           ShownKinds' = ShownKinds \o shown,
           Texts(shown) = Texts(<<Event>>), isCommittedModelOutput(Event) => Spoke(shown),
           StartFlows => StartFlows'
    PROVE  Flow'
<1>1. EndsLast /\ UNCHANGED <<emitted, filter>>
  BY DEF Flow, Take
<1>2. /\ queue \in Seq(Passed) /\ queue' \in Seq(Passed) /\ <<Event>> \in Seq(Passed)
      /\ queue = <<Event>> \o queue' /\ queue[1] = Event
  BY TakenQueue DEF TypeOK
<1>3. EndsLast'
  <2>1. ASSUME NEW i \in DOMAIN queue', queue'[i] \in Terminal \cup Throws
        PROVE  i = Len(queue') /\ Closed'
    <3>1. i + 1 \in DOMAIN queue /\ queue'[i] = queue[i + 1] /\ Len(queue) = Len(queue') + 1
      BY TakenQueue
    <3>2. i + 1 = Len(queue) /\ Closed
      BY <1>1, <2>1, <3>1 DEF EndsLast
    <3>3. i \in Nat /\ Len(queue') \in Nat
      BY <1>2, LenProperties
    <3>4. i = Len(queue')
      BY <3>1, <3>2, <3>3
    <3>5. Closed'
      BY <3>2 DEF Closed
    <3>6. QED
      BY <3>4, <3>5
  <2>2. QED
    BY <2>1 DEF EndsLast
<1> SUFFICES ASSUME Unbroken'
             PROVE  TextsFlow' /\ OutputFlows' /\ StartFlows' /\ (Closed' => filter' = "undecided")
  BY <1>3 DEF Flow
<1>4. Unbroken
  <2>1. ASSUME NEW i \in DOMAIN queue
        PROVE  queue[i] \notin Throws
    <3>1. CASE i = 1
      BY <1>2, <3>1
    <3>2. CASE i # 1
      <4>1. DOMAIN queue = 1 .. Len(queue) /\ DOMAIN queue' = 1 .. Len(queue')
            /\ Len(queue) \in Nat /\ Len(queue') \in Nat /\ Len(queue) = Len(queue') + 1
        BY <1>2, TakenQueue, LenProperties
      <4>2. i - 1 \in DOMAIN queue' /\ (i - 1) + 1 = i
        BY <3>2, <4>1
      <4>3. queue'[i - 1] = queue[i]
        BY <4>2, TakenQueue
      <4>4. QED
        BY <4>2, <4>3 DEF Unbroken
    <3>3. QED
      BY <3>1, <3>2
  <2>2. QED
    BY <2>1 DEF Unbroken
<1>5. TextsFlow /\ OutputFlows /\ StartFlows /\ (Closed => filter = "undecided")
  BY <1>4 DEF Flow, Take
<1>6. TextsFlow'
  <2>1. Texts(queue) = Texts(<<Event>>) + Texts(queue')
    BY <1>2, JoinedTexts
  <2>2. Texts(ShownKinds') = Texts(ShownKinds) + Texts(<<Event>>)
    BY JoinedTexts
  <2>3. {Texts(<<Event>>), Texts(queue'), Texts(ShownKinds)} \subseteq Nat
    BY <1>2, TextsFinite
  <2>4. QED
    BY <1>1, <1>5, <2>1, <2>2, <2>3 DEF TextsFlow
<1>7. OutputFlows'
  <2>1. Spoke(queue) <=> isCommittedModelOutput(Event) \/ Spoke(queue')
    BY <1>2, JoinedSpoke, Singles
  <2>2. Spoke(ShownKinds') <=> Spoke(ShownKinds) \/ Spoke(shown)
    BY JoinedSpoke
  <2>3. Spoke(emitted') = Spoke(emitted) /\ Opened(emitted') = Opened(emitted)
    BY <1>1 DEF Spoke, Opened
  <2>4. QED
    BY <1>1, <1>5, <2>1, <2>2, <2>3 DEF OutputFlows
<1>8. QED
  BY <1>1, <1>5, <1>6, <1>7 DEF Closed

\* A read that goes on leaves the flow whole.
LEMMA FlowRead ==
    ASSUME PlanInv, Flow, ReadStart \/ ReadBlock \/ (ReadOutput /\ Event \notin Terminal)
    PROVE  Flow'
<1> USE DEF PlanInv
<1>1. Take /\ stage = "reading" /\ over = "no" /\ UNCHANGED <<transport, emitted>>
  BY DEF ReadStart, ReadBlock, ReadOutput, Take, ShownByThisAttempt
<1>2. ShownKinds \in Seq(Passed) /\ <<>> \in Seq(Passed) /\ ShownKinds \o <<>> = ShownKinds
  <2>1. ShownKinds \in Seq(Passed)
    BY KindsOf DEF TypeOK, ShownKinds
  <2>2. QED
    BY <2>1, EmptySeq, ConcatEmptySeq
<1>3. /\ queue[1] = Event
      /\ queue # <<>>
      /\ \A e : queue = <<e>> => Event = e
  <2>1. queue[1] = Event /\ queue # <<>>
    BY <1>1, TakenQueue DEF Take
  <2>2. \A e : <<e>>[1] = e
    OBVIOUS
  <2>3. QED
    BY <2>1, <2>2
<1>4. ASSUME StartFlows, Event \notin Terminal
      PROVE  \/ /\ emitted # <<>> /\ emitted[1] = "start" /\ started
                /\ committed => answer # <<>> /\ ShownKinds[1] = "start"
             \/ emitted # <<>> /\ emitted[1] = "start" /\ Event = "start" /\ Unstarted
  BY <1>3, <1>4 DEF StartFlows
<1>5. CASE ReadStart \/ ReadBlock
  <2>1. /\ Event \in {"start"} \cup Buffered /\ UNCHANGED <<committed, answer>> /\ ~ committed
        /\ started' = (started \/ Event = "start")
    <3>1. CASE ReadStart
      BY <3>1 DEF ReadStart, outer
    <3>2. CASE ReadBlock
      <4>1. "start" \notin Buffered
        BY DEF Buffered
      <4>2. QED
        BY <3>2, <4>1 DEF ReadBlock, outer, TypeOK
    <3>3. QED
      BY <1>5, <3>1, <3>2
  <2>2. /\ Event \notin Terminal \cup Throws /\ Event # "text"
        /\ ~ isCommittedModelOutput(Event)
    BY <2>1 DEF Buffered, Terminal, Errors, Throws, isCommittedModelOutput
  <2>3. ShownKinds' = ShownKinds \o <<>> /\ Texts(<<>>) = Texts(<<Event>>)
    <3>1. ShownKinds' = ShownKinds
      BY <2>1 DEF ShownKinds
    <3>2. Texts(<<>>) = 0 /\ Texts(<<Event>>) = 0
      BY <2>2, Singles
    <3>3. QED
      BY <1>2, <3>1, <3>2
  <2>4. StartFlows => StartFlows'
    BY <1>1, <1>4, <2>1, <2>2 DEF StartFlows
  <2>5. QED
    BY <1>1, <1>2, <2>2, <2>3, <2>4, FlowTaken
<1>6. CASE ReadOutput /\ Event \notin Terminal
  <2> DEFINE p == IF committed THEN <<>> ELSE StartEvent \o blocks
             shown == p \o <<Event>>
  <2>1. /\ push(shown) /\ committed' = TRUE /\ started' = started
        /\ committed \/ isCommittedModelOutput(Event)
        /\ Event \in Passed \ Throws
    <3>1. Event \in Passed
      BY <1>1, TakenQueue
    <3>2. isCommittedModelOutput(Event) => Event \notin Throws
      BY DEF isCommittedModelOutput, Throws
    <3>3. QED
      BY <1>6, <3>1, <3>2 DEF ReadOutput, Show
  <2>2. p \in Before
    BY DEF Before
  <2> HIDE DEF p
  <2>3. /\ shown \in Seq(Passed \ Throws) /\ Texts(shown) = Texts(<<Event>>)
        /\ isCommittedModelOutput(Event) => Spoke(shown)
        /\ started /\ p # <<>> => shown[1] = "start"
        /\ shown # <<>>
    BY <2>1, <2>2, PushedEvent
  <2> HIDE DEF shown
  <2>4. /\ ShownKinds' = ShownKinds \o shown /\ shown \in Seq(Passed)
        /\ Len(ShownKinds) = Len(answer) /\ Len(answer') = Len(answer) + Len(shown)
    BY <2>1, <2>3, PushedKinds
  <2>5. StartFlows => StartFlows'
    <3> SUFFICES ASSUME StartFlows
                 PROVE  StartFlows'
      OBVIOUS
    <3>1. /\ emitted # <<>> /\ emitted[1] = "start" /\ started
          /\ committed => answer # <<>> /\ ShownKinds[1] = "start"
      <4>1. Event = "start" => ~ isCommittedModelOutput(Event)
        BY DEF isCommittedModelOutput
      <4>2. QED
        BY <1>4, <1>6, <2>1, <4>1 DEF Unstarted
    <3>2. answer' # <<>>
      <4>1. Len(answer) \in Nat /\ Len(shown) \in Nat \ {0}
        BY <2>3, EmptySeq, LenProperties DEF TypeOK
      <4>2. Len(answer') # 0 /\ Len(<<>>) = 0
        BY <2>4, <4>1
      <4>3. QED
        BY <4>2
    <3>3. ShownKinds'[1] = "start"
      <4>1. CASE committed
        <5>1. 1 \in DOMAIN ShownKinds
          <6>1. ShownKinds # <<>>
            BY <2>4, <3>1, <4>1, EmptySeq DEF TypeOK
          <6>2. QED
            BY <1>2, <6>1, EmptySeq, LenProperties
        <5>2. (ShownKinds \o shown)[1] = ShownKinds[1]
          BY <1>2, <2>4, <5>1, Joined
        <5>3. QED
          BY <2>4, <3>1, <4>1, <5>2
      <4>2. CASE ~ committed
        <5>1. answer = <<>>
          BY <1>1, <4>2 DEF ShownByThisAttempt
        <5>2. ShownKinds = <<>>
          BY <5>1 DEF ShownKinds
        <5>3. ShownKinds' = shown
          BY <2>4, <5>2, ConcatEmptySeq
        <5>4. p # <<>>
          <6>1. p = StartEvent \o blocks /\ StartEvent = <<"start">>
            BY <3>1, <4>2 DEF p, StartEvent
          <6>2. "start" \in Passed /\ Buffered \subseteq Passed
            BY DEF Buffered, Passed, Made, Content
          <6>3. blocks \in Seq(Passed) /\ <<"start">> \in Seq(Passed) /\ Len(<<"start">>) = 1
            <7>1. <<"start">> \in Seq(Passed) /\ Len(<<"start">>) = 1
              BY <6>2
            <7>2. blocks \in Seq(Passed)
              BY <6>2, SeqMonotonic DEF TypeOK
            <7>3. QED
              BY <7>1, <7>2
          <6>4. Len(p) = 1 + Len(blocks) /\ Len(blocks) \in Nat
            BY <6>1, <6>3, ConcatProperties, LenProperties
          <6>5. Len(<<>>) = 0
            OBVIOUS
          <6>6. QED
            BY <6>4, <6>5
        <5>5. QED
          BY <2>3, <3>1, <5>3, <5>4
      <4>3. QED
        BY <4>1, <4>2
    <3>4. QED
      BY <1>1, <2>1, <3>1, <3>2, <3>3 DEF StartFlows
  <2>6. QED
    BY <1>1, <1>2, <1>6, <2>1, <2>3, <2>4, <2>5, FlowTaken
<1>7. QED
  BY <1>5, <1>6

\* The read of a terminal event ends the request with the whole answer.
LEMMA WholeEnd ==
    ASSUME PlanInv, Flow, Take, Event \in Terminal, UNCHANGED <<transport, attempt>>,
           NEW p \in Before, push(p \o <<Event>>),
           p = <<>> => committed \/ ~ started,
           committed => p = <<>>
    PROVE  EndedByItself' /\ AnswerIsWhole'
<1> USE DEF PlanInv
<1>1. /\ stage = "reading" /\ over = "no" /\ UNCHANGED emitted /\ Event \in Passed \ Throws
      /\ ~ isCommittedModelOutput(Event) /\ Event \notin {"text", "start"}
  <2>1. Event \notin Throws /\ ~ isCommittedModelOutput(Event) /\ Event \notin {"text", "start"}
    BY DEF Terminal, Errors, Throws, isCommittedModelOutput
  <2>2. QED
    BY <2>1, TakenQueue DEF Take, ShownByThisAttempt
<1>2. queue \in Seq(Passed) /\ queue[1] = Event /\ 1 \in DOMAIN queue /\ EndsLast
  BY <1>1, TakenQueue DEF TypeOK, Flow
<1>3. Len(queue) = 1 /\ Closed /\ queue = <<Event>> /\ DOMAIN queue = {1}
  <2>1. 1 = Len(queue) /\ Closed
    BY <1>2 DEF EndsLast
  <2>2. DOMAIN queue = {1}
    BY <1>2, <2>1, LenProperties
  <2>3. <<Event>> \in Seq(Passed) /\ Len(<<Event>>) = 1 /\ <<Event>>[1] = Event
    BY <1>1
  <2>4. queue = <<Event>>
    BY <1>2, <2>1, <2>3, SeqEqual
  <2>5. QED
    BY <2>1, <2>2, <2>4
<1>4. TextsFlow /\ OutputFlows /\ StartFlows /\ filter = "undecided"
  <2>1. Unbroken
    BY <1>1, <1>2, <1>3 DEF Unbroken
  <2>2. QED
    BY <1>1, <1>3, <2>1 DEF Flow
<1>5. Texts(queue) = 0 /\ ~ Spoke(queue) /\ Texts(<<Event>>) = 0
  BY <1>1, <1>3, Singles
<1>6. /\ p \o <<Event>> \in Seq(Passed \ Throws) /\ p \o <<Event>> # <<>>
      /\ Texts(p \o <<Event>>) = 0
      /\ started /\ p # <<>> => (p \o <<Event>>)[1] = "start"
      /\ p = <<>> => Len(p \o <<Event>>) = 1
  BY <1>1, <1>5, PushedEvent
<1> DEFINE shown == p \o <<Event>>
<1> HIDE DEF shown
<1>7. /\ ShownKinds \in Seq(Passed) /\ shown \in Seq(Passed)
      /\ ShownKinds' = ShownKinds \o shown
      /\ Len(ShownKinds) = Len(answer) /\ Len(answer') = Len(answer) + Len(shown)
      /\ answer'[Len(answer')].attempt = attempt
  BY <1>6, PushedKinds DEF shown
<1>8. Len(answer) \in Nat /\ Len(shown) \in Nat \ {0} /\ answer' # <<>>
  <2>1. Len(answer) \in Nat /\ Len(shown) \in Nat \ {0}
    BY <1>6, <1>7, EmptySeq, LenProperties DEF TypeOK, shown
  <2>2. Len(answer') # 0 /\ Len(<<>>) = 0
    BY <1>7, <2>1
  <2>3. QED
    BY <2>1, <2>2
<1>9. EndedByItself'
  BY <1>3, <1>8 DEF EndedByItself, Closed
<1>10. Texts(ShownKinds') = Texts(emitted)
  <2>1. Texts(ShownKinds') = Texts(ShownKinds) + Texts(shown)
    BY <1>7, JoinedTexts
  <2>2. Texts(ShownKinds) \in Nat /\ Texts(shown) = 0
    BY <1>6, <1>7, TextsFinite DEF shown
  <2>3. QED
    BY <1>4, <1>5, <2>1, <2>2 DEF TextsFlow
<1>11. Spoke(emitted) /\ ~ Opened(emitted) => Spoke(ShownKinds')
  <2>1. Spoke(emitted) /\ ~ Opened(emitted) => Spoke(ShownKinds)
    BY <1>4, <1>5 DEF OutputFlows
  <2>2. Spoke(ShownKinds') <=> Spoke(ShownKinds) \/ Spoke(shown)
    BY <1>7, JoinedSpoke
  <2>3. QED
    BY <2>1, <2>2
<1>12. ASSUME Len(answer') > 1
       PROVE  ShownKinds'[1] = emitted[1]
  <2>1. ~ committed => answer = <<>> /\ ShownKinds' = shown
    <3>1. ~ committed => answer = <<>>
      BY <1>1 DEF ShownByThisAttempt
    <3>2. answer = <<>> => ShownKinds = <<>>
      BY DEF ShownKinds
    <3>3. QED
      BY <1>7, <3>1, <3>2, ConcatEmptySeq
  <2>2. CASE /\ emitted # <<>> /\ emitted[1] = "start" /\ started
             /\ committed => answer # <<>> /\ ShownKinds[1] = "start"
    <3>1. CASE committed
      <4>1. 1 \in DOMAIN ShownKinds
        <5>1. ShownKinds # <<>>
          BY <1>7, <2>2, <3>1, EmptySeq DEF TypeOK
        <5>2. QED
          BY <1>7, <5>1, EmptySeq, LenProperties
      <4>2. (ShownKinds \o shown)[1] = ShownKinds[1]
        BY <1>7, <4>1, Joined
      <4>3. QED
        BY <1>7, <2>2, <3>1, <4>2
    <3>2. CASE ~ committed
      BY <1>6, <2>1, <2>2, <3>2 DEF shown
    <3>3. QED
      BY <3>1, <3>2
  <2>3. CASE Unstarted
    <3>1. p = <<>> /\ ~ committed
      BY <2>3, BeforeFacts DEF Unstarted
    <3>2. Len(shown) = 1 /\ Len(answer) = 0
      <4>1. Len(<<>>) = 0
        OBVIOUS
      <4>2. QED
        BY <1>6, <2>1, <3>1, <4>1 DEF shown
    <3>3. QED
      BY <1>7, <1>12, <3>2
  <2>4. QED
    BY <1>4, <2>2, <2>3 DEF StartFlows
<1>13. AnswerIsWhole'
  <2>1. emitted' = emitted
    BY <1>1
  <2>2. (\A i \in DOMAIN emitted : emitted[i] # "text_start") => ~ Opened(emitted)
    BY DEF Opened
  <2>3. QED
    BY <1>10, <1>11, <1>12, <2>1, <2>2 DEF AnswerIsWhole
<1>14. QED
  BY <1>9, <1>13

-----------------------------------------------------------------------------
(* Every step keeps the flow and the answer whole.                         *)

LEMMA WholeTransport ==
    ASSUME PlanInv, WholeInv, Transport
    PROVE  WholeInv'
<1> USE DEF PlanInv, WholeInv
<1>1. UNCHANGED <<runner, outer>> /\ transport \in {"requesting", "answering", "refused"}
  BY DEF Transport, Respond, Repeat, Begin, Emit, Finish, Break
<1>2. ~ Closed
  BY <1>1 DEF Closed
<1>3. Flow'
  <2>1. CASE /\ UNCHANGED <<emitted, filter, queue>>
             /\ transport' \in {"requesting", "answering", "refused"}
    <3>1. ~ Closed' /\ UNCHANGED <<stage, started, blocks, committed, answer>>
      BY <1>1, <2>1 DEF Closed, runner, outer
    <3>2. /\ EndsLast => EndsLast'
          /\ Unbroken' => Unbroken
      BY <1>2, <2>1, <3>1 DEF EndsLast, Unbroken
    <3>3. /\ TextsFlow => TextsFlow'
          /\ OutputFlows => OutputFlows'
      BY <2>1, <3>1 DEF TextsFlow, OutputFlows, Texts, Spoke, Opened, ShownKinds
    <3>4. StartFlows => StartFlows'
      BY <1>2, <2>1, <3>1 DEF StartFlows, Unstarted, ShownKinds
    <3>5. QED
      BY <3>1, <3>2, <3>3, <3>4 DEF Flow
  <2>2. CASE \E s \in Statuses, json \in BOOLEAN, t \in Topics : Respond(s, json, t)
    BY <2>1, <2>2 DEF Respond
  <2>3. CASE Repeat
    BY <2>1, <2>3 DEF Repeat
  <2>4. CASE Begin
    <3>1. "start" \in Made \ Throws /\ "start" \notin Terminal
      BY DEF Made, Throws, Terminal, Errors
    <3>2. Pass("start") /\ emitted = <<>> /\ ~ Closed'
      BY <1>1, <2>4 DEF Begin, Closed
    <3>3. QED
      BY <1>1, <1>2, <3>1, <3>2, FlowPass
  <2>5. ASSUME NEW e \in Content, Emit(e)
        PROVE  Flow'
    <3>1. e \in Made \ Throws /\ e \notin Terminal
      BY DEF Content, Made, Throws, Terminal, Errors
    <3>2. Pass(e) /\ ~ Closed'
      BY <2>5 DEF Emit, Closed
    <3>3. emitted # <<>>
      <4>1. Len(emitted) # 0 /\ Len(<<>>) = 0
        BY <2>5 DEF Emit
      <4>2. QED
        BY <4>1
    <3>4. QED
      BY <1>1, <1>2, <3>1, <3>2, <3>3, FlowPass
  <2>6. ASSUME NEW e \in Terminal, Finish(e)
        PROVE  Flow'
    <3>1. e \in Made \ Throws
      BY DEF Made, Throws, Terminal, Errors
    <3>2. Pass(e) /\ Closed'
      BY <2>6 DEF Finish, Stopped, Closed
    <3>3. QED
      BY <1>1, <1>2, <3>1, <3>2, FlowPass
  <2>7. ASSUME NEW e \in Throws, Break(e), stage = "reading"
        PROVE  Flow'
    <3>1. e \in Passed /\ <<e>> \in Seq(Passed) /\ queue \in Seq(Passed)
      <4>1. e \in Passed
        BY DEF Passed, Made
      <4>2. <<e>> \in Seq(Passed)
        BY <4>1
      <4>3. QED
        BY <4>1, <4>2 DEF TypeOK
    <3>2. Closed' /\ queue' \in {queue \o <<e>>, <<e>>}
      BY <2>7, <3>1, AppendIsConcat DEF Break, Stopped, Closed
    <3>3. Plain(queue)
      BY <1>2, <2>7, OpenQueue DEF Flow
    <3>4. /\ \A i \in DOMAIN queue' : queue'[i] \in Terminal \cup Throws => i = Len(queue')
          /\ \E i \in DOMAIN queue' : queue'[i] = e
      <4>1. Len(<<e>>) = 1 /\ DOMAIN <<e>> = {1} /\ <<e>>[1] = e
        OBVIOUS
      <4>2. CASE queue' = queue \o <<e>>
        BY <3>1, <3>3, <4>1, <4>2, JoinedPlain, Joined
      <4>3. CASE queue' = <<e>>
        BY <4>1, <4>3
      <4>4. QED
        BY <3>2, <4>2, <4>3
    <3>5. EndsLast' /\ ~ Unbroken'
      BY <3>2, <3>4 DEF EndsLast, Unbroken
    <3>6. QED
      BY <3>5 DEF Flow
  <2>8. CASE stage # "reading"
    BY <1>1, <2>8 DEF Flow, runner
  <2>9. QED
    BY <2>2, <2>3, <2>4, <2>5, <2>6, <2>7, <2>8 DEF Transport
<1>4. UNCHANGED <<attempt, lastError, answer, over>>
  BY <1>1 DEF runner, outer
<1>5. over = "event" => answer # <<>> /\ answer[Len(answer)].attempt # attempt
  BY <1>2 DEF EndedByItself
<1>6. EndedByItself' /\ AnswerIsWhole'
  BY <1>4, <1>5 DEF EndedByItself, AnswerIsWhole
<1>7. QED
  BY <1>3, <1>4, <1>6

LEMMA WholeDispatch ==
    ASSUME PlanInv, WholeInv, Attest \/ AttestFails \/ Dispatch \/ DispatchFails
    PROVE  WholeInv'
<1> USE DEF PlanInv, WholeInv
<1>1. /\ stage \in {"attest", "dispatch"} /\ over' \in {over, "failure"}
      /\ UNCHANGED <<attempt, lastError, answer>>
  BY DEF Attest, AttestFails, Dispatch, DispatchFails, End, outer
<1>2. over = "no" /\ answer = <<>>
  BY <1>1 DEF ShownByThisAttempt
<1>3. over' # "event" /\ lastError' < attempt'
  BY <1>1, <1>2
<1>4. EndedByItself' /\ AnswerIsWhole'
  BY <1>3 DEF EndedByItself, AnswerIsWhole
<1>5. CASE ~ Dispatch
  <2>1. stage' # "reading"
    BY <1>5 DEF Attest, AttestFails, DispatchFails, End
  <2>2. QED
    BY <1>3, <1>4, <2>1 DEF Flow
<1>6. CASE Dispatch
  <2>1. /\ emitted' = <<>> /\ queue' = <<>> /\ filter' = "undecided" /\ Unstarted'
        /\ ShownKinds' = <<>>
    <3>1. answer' = <<>>
      BY <1>1, <1>2
    <3>2. QED
      BY <1>6, <3>1 DEF Dispatch, Unstarted, ShownKinds
  <2>2. EndsLast'
    BY <2>1 DEF EndsLast
  <2>3. TextsFlow' /\ OutputFlows'
    <3>1. Texts(<<>>) = 0 /\ ~ Spoke(<<>>)
      BY FS_EmptySet DEF Texts, Spoke
    <3>2. TextsFlow'
      BY <2>1, <3>1 DEF TextsFlow
    <3>3. QED
      BY <2>1, <3>1, <3>2 DEF OutputFlows
  <2>4. StartFlows'
    BY <2>1 DEF StartFlows
  <2>5. QED
    BY <1>3, <1>4, <2>1, <2>2, <2>3, <2>4 DEF Flow
<1>7. QED
  BY <1>5, <1>6

\* The last attempt has failed without output: its error is all there is to show.
LEMMA WholeGivenUp ==
    ASSUME PlanInv, WholeInv, ReadError, TryNext(attempt)
    PROVE  WholeInv'
<1> USE DEF PlanInv, WholeInv
<1>0. attempt \in 1 .. Attempts /\ Attempts \in Nat \ {0}
  BY PlanAssumption DEF TypeOK
<1>1. /\ stage = "reading" /\ over = "no" /\ answer = <<>> /\ ~ committed /\ Event \in Errors
  BY DEF ReadError, Take, ShownByThisAttempt
<1>2. CASE attempt < Attempts
  <2>1. /\ attempt' = attempt + 1 /\ lastError' = attempt /\ over' = "no"
        /\ stage' \in {"attest", "dispatch"}
    BY <1>1, <1>2 DEF TryNext, FirstStage, outer
  <2>2. lastError' < attempt'
    BY <1>0, <2>1
  <2>3. QED
    BY <2>1, <2>2 DEF Flow, EndedByItself, AnswerIsWhole
<1>3. CASE ~ (attempt < Attempts)
  <2>1. /\ over' = "event" /\ stage' = "ended" /\ UNCHANGED <<attempt, transport, emitted>>
        /\ answer' = Append(answer, [attempt |-> attempt, kind |-> "error"])
    BY <1>0, <1>3 DEF TryNext, End, ReadError, Take
  <2>2. answer' = <<[attempt |-> attempt, kind |-> "error"]>>
    BY <1>1, <2>1
  <2>3. Len(answer') = 1 /\ ShownKinds' = <<"error">> /\ answer' # <<>>
    BY <2>2 DEF ShownKinds
  <2>4. Closed
    <3>1. 1 \in DOMAIN queue /\ queue[1] \in Terminal /\ EndsLast
      BY <1>1, TakenQueue DEF ReadError, Terminal, Flow
    <3>2. QED
      BY <3>1 DEF EndsLast
  <2>5. EndedByItself'
    BY <2>1, <2>3, <2>4 DEF EndedByItself, Closed
  <2>6. ~ Spoke(emitted)
    <3>1. Permitted(Event)
      <4>1. Permitted(Event) \/ UNCHANGED lastError
        BY DEF ReadError
      <4>2. lastError' = attempt /\ lastError < attempt
        BY <1>1 DEF TryNext
      <4>3. QED
        BY <1>0, <4>1, <4>2
    <3>2. QED
      BY <3>1, PermittedEvidence DEF OutputNoted
  <2>7. Texts(emitted) = 0 /\ Texts(<<"error">>) = 0
    <3>1. \A i \in DOMAIN emitted : emitted[i] # "text"
      BY <2>6 DEF Spoke, isCommittedModelOutput
    <3>2. emitted \in Seq(Made)
      BY DEF TypeOK
    <3>3. QED
      BY <3>1, <3>2, TextsFinite, Singles
  <2>8. AnswerIsWhole'
    BY <2>1, <2>3, <2>6, <2>7 DEF AnswerIsWhole
  <2>9. QED
    BY <2>1, <2>5, <2>8 DEF Flow
<1>4. QED
  BY <1>2, <1>3

LEMMA WholeRead ==
    ASSUME PlanInv, WholeInv,
           \/ ReadStart \/ ReadBlock \/ ReadAborted \/ ReadDone \/ ReadError \/ ReadOutput
           \/ ReadThrow
    PROVE  WholeInv'
<1> USE DEF PlanInv, WholeInv
<1>0. /\ attempt \in 1 .. Attempts /\ lastError \in 0 .. Attempts /\ Attempts \in Nat \ {0}
      /\ over = "no" /\ lastError < attempt /\ Take /\ stage = "reading"
  <2>1. Take
    BY DEF ReadStart, ReadBlock, ReadAborted, ReadDone, ReadError, ReadOutput, ReadThrow
  <2>2. QED
    BY <2>1, PlanAssumption DEF TypeOK, Take, ShownByThisAttempt
<1>1. CASE ReadStart \/ ReadBlock \/ (ReadOutput /\ Event \notin Terminal)
  <2>1. UNCHANGED <<attempt, lastError, over>>
    BY <1>1 DEF ReadStart, ReadBlock, ReadOutput, outer
  <2>2. Flow'
    BY <1>1, FlowRead
  <2>3. QED
    BY <1>0, <2>1, <2>2 DEF EndedByItself, AnswerIsWhole
<1>2. ASSUME Event \in Terminal, UNCHANGED <<transport, attempt>>, End("event"),
             NEW p \in Before, push(p \o <<Event>>),
             p = <<>> => committed \/ ~ started,
             committed => p = <<>>
      PROVE  WholeInv'
  <2>1. EndedByItself' /\ AnswerIsWhole'
    BY <1>0, <1>2, WholeEnd
  <2>2. QED
    BY <1>2, <2>1 DEF End, Flow
<1>3. /\ <<>> \in Before /\ StartEvent \in Before /\ StartEvent \o blocks \in Before
      /\ started => StartEvent # <<>> /\ StartEvent \o blocks # <<>>
  <2>1. ASSUME started
        PROVE  StartEvent # <<>> /\ StartEvent \o blocks # <<>>
    <3>1. "start" \in Passed /\ Buffered \subseteq Passed
      BY DEF Buffered, Passed, Made, Content
    <3>2. <<"start">> \in Seq(Passed) /\ Len(<<"start">>) = 1 /\ Len(<<>>) = 0
      BY <3>1
    <3>3. blocks \in Seq(Passed) /\ Len(blocks) \in Nat
      BY <3>1, SeqMonotonic, LenProperties DEF TypeOK
    <3>4. Len(<<"start">> \o blocks) = 1 + Len(blocks)
      BY <3>2, <3>3, ConcatProperties
    <3>5. StartEvent = <<"start">>
      BY <2>1 DEF StartEvent
    <3>6. QED
      BY <3>2, <3>3, <3>4, <3>5
  <2>2. QED
    BY <2>1 DEF Before
<1>4. Terminal \subseteq Passed \ Throws
  BY DEF Passed, Made, Terminal, Errors, Throws
<1>5. CASE ReadAborted
  <2>1. /\ push(StartEvent \o <<"aborted">>) /\ Event = "aborted" /\ "aborted" \in Terminal
        /\ UNCHANGED <<transport, attempt>> /\ End("event") /\ ~ committed
    <3>1. "aborted" \in Terminal
      BY DEF Terminal
    <3>2. QED
      BY <1>4, <1>5, <3>1, PushedForms DEF ReadAborted
  <2>2. QED
    BY <1>2, <1>3, <2>1
<1>6. ASSUME Event \in Terminal, Conclude(Event), UNCHANGED <<transport, attempt>>, ~ committed
      PROVE  WholeInv'
  <2>1. push((StartEvent \o blocks) \o <<Event>>) /\ End("event")
    BY <1>4, <1>6, PushedForms DEF Conclude
  <2>2. QED
    BY <1>2, <1>3, <1>6, <2>1
<1>7. CASE ReadDone
  <2>1. Event \in Terminal /\ Conclude(Event)
    BY <1>7 DEF ReadDone, Terminal
  <2>2. QED
    BY <1>6, <1>7, <2>1 DEF ReadDone
<1>8. CASE ReadError
  <2>1. CASE TryNext(attempt)
    BY <1>8, <2>1, WholeGivenUp
  <2>2. CASE /\ Conclude(Event)
             /\ UNCHANGED <<transport, attempt, started, blocks, committed, lastError, past>>
    <3>1. Event \in Terminal /\ ~ committed
      BY <1>8 DEF ReadError, Terminal
    <3>2. QED
      BY <1>6, <2>2, <3>1
  <2>3. QED
    BY <1>8, <2>1, <2>2 DEF ReadError
<1>9. CASE ReadOutput /\ Event \in Terminal
  <2>1. ~ isCommittedModelOutput(Event)
    BY <1>9 DEF Terminal, Errors, isCommittedModelOutput
  <2>2. committed /\ End("event") /\ UNCHANGED <<transport, attempt>> /\ push(<<>> \o <<Event>>)
    BY <1>9, <2>1 DEF ReadOutput, Show
  <2>3. QED
    BY <1>2, <1>3, <1>9, <2>2
<1>10. CASE ReadThrow
  <2>1. CASE over' = "failure"
    <3>1. stage' # "reading"
      BY <1>0, <1>10, <2>1 DEF ReadThrow, TryNext, End, outer
    <3>2. QED
      BY <2>1, <3>1 DEF Flow, EndedByItself, AnswerIsWhole
  <2>2. CASE TryNext(lastError) /\ attempt < Attempts
    <3>1. /\ attempt' = attempt + 1 /\ lastError' = lastError /\ over' = "no"
          /\ stage' \in {"attest", "dispatch"}
      BY <1>0, <2>2 DEF TryNext, FirstStage, outer
    <3>2. lastError' < attempt'
      BY <1>0, <3>1
    <3>3. QED
      BY <3>1, <3>2 DEF Flow, EndedByItself, AnswerIsWhole
  <2>3. CASE TryNext(lastError) /\ ~ (attempt < Attempts) /\ over' # "failure"
    <3>1. /\ over' = "event" /\ stage' = "ended" /\ attempt' = attempt
          /\ answer' = Append(answer, [attempt |-> lastError, kind |-> "error"])
      BY <2>3 DEF TryNext, End
    <3>2. /\ answer' # <<>>
          /\ answer'[Len(answer')] = [attempt |-> lastError, kind |-> "error"]
      <4>1. answer \in Seq(Shows) /\ Len(answer) \in Nat
        BY LenProperties DEF TypeOK
      <4>2. Len(answer') = Len(answer) + 1
        BY <3>1, <4>1
      <4>3. answer'[Len(answer) + 1] = [attempt |-> lastError, kind |-> "error"]
        BY <3>1, <4>1
      <4>4. Len(<<>>) = 0 /\ Len(answer') # 0
        BY <4>1, <4>2
      <4>5. QED
        BY <4>2, <4>3, <4>4
    <3>3. answer'[Len(answer')].attempt # attempt'
      BY <1>0, <3>1, <3>2
    <3>4. QED
      BY <3>1, <3>2, <3>3 DEF Flow, EndedByItself, AnswerIsWhole
  <2>4. QED
    BY <1>10, <2>1, <2>2, <2>3 DEF ReadThrow, End
<1>11. QED
  BY <1>1, <1>5, <1>7, <1>8, <1>9, <1>10

LEMMA WholeInit == Init => WholeInv
<1> SUFFICES ASSUME Init PROVE WholeInv
  OBVIOUS
<1>1. stage # "reading" /\ over = "no" /\ lastError = 0 /\ attempt = 1
  BY DEF Init, FirstStage
<1>2. QED
  BY <1>1 DEF WholeInv, Flow, EndedByItself, AnswerIsWhole

LEMMA WholeStep == PlanInv /\ WholeInv /\ [Next]_vars => WholeInv'
<1> SUFFICES ASSUME PlanInv, WholeInv, [Next]_vars PROVE WholeInv'
  OBVIOUS
<1>1. CASE Transport
  BY <1>1, WholeTransport
<1>2. CASE Runner
  BY <1>2, WholeDispatch, WholeRead DEF Runner
<1>3. CASE UNCHANGED vars
  <2>1. /\ UNCHANGED <<kind, transport, requests, emitted, capture, filter, queue>>
        /\ UNCHANGED <<attempt, stage, started, blocks, committed, lastError, past, answer, over>>
    BY <1>3 DEF vars, source, runner, outer
  <2>2. ShownKinds' = ShownKinds
    BY <2>1 DEF ShownKinds
  <2>3. (EndsLast => EndsLast') /\ (Unbroken' => Unbroken) /\ (Closed' <=> Closed)
    BY <2>1 DEF EndsLast, Unbroken, Closed
  <2>4. (TextsFlow => TextsFlow') /\ (OutputFlows => OutputFlows') /\ (StartFlows => StartFlows')
    BY <2>1, <2>2, <2>3 DEF TextsFlow, OutputFlows, StartFlows, Unstarted
  <2>5. Flow'
    BY <2>1, <2>3, <2>4 DEF WholeInv, Flow
  <2>6. QED
    BY <2>1, <2>2, <2>3, <2>5 DEF WholeInv, EndedByItself, AnswerIsWhole
<1>4. QED
  BY <1>1, <1>2, <1>3 DEF Next

\* An answer of runPifrostProtocolPlan that ends with an event has shown all the
\* text of its attempt, once and after its start; and where no text block was
\* begun it shows some of what the model thought, if that is all it did.
THEOREM AnswersAreWhole == Spec => []AnswerIsWhole
<1>1. Spec => []WholeInv
  BY PlanInvariant, WholeInit, WholeStep, PTL DEF Spec
<1>2. WholeInv => AnswerIsWhole
  BY DEF WholeInv
<1>3. QED
  BY <1>1, <1>2, PTL

=============================================================================
