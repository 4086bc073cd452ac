---------------------------- MODULE ProtocolPlan ----------------------------
(***************************************************************************)
(* One inference request of the native provider: the attempts of its plan, *)
(* run one after another by runPifrostProtocolPlan, and for each attempt   *)
(* the pipeline its events come through.                                   *)
(*                                                                         *)
(*   OMP's transport  ->  bridge and reasoning filter  ->  queue           *)
(*      (external)        bridgeBifrostUsageCostStream                     *)
(*                                                     ->  runner -> outer *)
(*                                                                         *)
(* The bridge takes an event as soon as the transport makes it, so the two *)
(* are one step; the runner reads the queue when it gets to it.  An event  *)
(* is represented by its kind.                                             *)
(***************************************************************************)
EXTENDS AttemptPolicy, Sequences, FiniteSets

CONSTANTS
    Kinds,          \* of AttemptTransitionKind, those to consider
    Attempts,       \* length of plan.attempts
    Statuses,       \* HTTP statuses of the gateway
    MaxRequests,    \* bound: requests the transport makes for an attempt
    MaxEvents       \* bound: events of an attempt before its last one

ASSUME PlanAssumption ==
    /\ Kinds \subseteq {"gateway-ingress", "physical-compatibility"}
    /\ Attempts \in Nat \ {0}
    /\ Statuses \subseteq 200 .. 599
    /\ MaxRequests \in Nat \ {0}
    /\ MaxEvents \in Nat

VARIABLES
    kind,           \* which of the two plans is executed
    attempt,        \* attemptIndex, from 1
    stage,          \* "attest", "dispatch", "reading" or "ended"
    transport,      \* of the attempt: "idle", "requesting", "answering",
                    \*   "refused"; or stopped with its last request "given
                    \*   up" (refused), "answered" or "cut off" (neither)
    requests,       \* how many requests it has made for the attempt
    emitted,        \* what the transport has emitted in this attempt
    capture,        \* the BifrostCostCapture of this attempt
    filter,         \* the reasoning filter: "undecided", "holding",
                    \*   "candidate" or "decided"
    queue,          \* events of the bridge the runner has not read
    started,        \* startEvent is set
    blocks,         \* pendingBlockEvents
    committed,      \* this attempt has shown output
    lastError,      \* the attempt of lastErrorEvent, 0 if there is none
    answer,         \* the events pushed to outer, with their attempts
    over,           \* "no", "event" (a terminal event) or "failure" (fail)
    past            \* history: what became of the earlier attempts

source == <<transport, requests, emitted, capture, filter>>
runner == <<attempt, stage, started, blocks, committed, lastError, past>>
outer  == <<answer, over>>
vars   == <<kind, source, queue, runner, outer>>

Errors   == {"error", "protocol error"}     \* reason "error"
Throws   == {"throw", "protocol throw"}
Terminal == {"done", "aborted"} \cup Errors
Content  == {"thinking_start", "marker", "thought", "thinking_end", "marker_end",
             "text_start", "text"}

names(e) == e \in {"protocol error", "protocol throw"}

\* isCommittedModelOutput; "text" stands for every nonempty delta, end of a
\* text, tool call or image that is not thinking.
isCommittedModelOutput(e) ==
    e \in {"marker", "thought", "thinking_end", "marker_end", "text"}

\* isUncommittedBlockEvent without committed output
Buffered == {"thinking_start", "text_start", "empty_end"}

Spoke(events) == \E i \in DOMAIN events : isCommittedModelOutput(events[i])

\* Events: those a transport makes, those that pass the bridge, those shown.
Made == {"start"} \cup Content \cup Terminal \cup Throws
Passed == {"empty_end"} \cup Made
Shows == [attempt : 1 .. Attempts, kind : Passed \ Throws]

\* The states of a transport, and of those the ones after a refusal.
States == {"idle", "requesting", "answering", "refused", "given up", "answered", "cut off"}
Refused == {"refused", "given up"}

\* What is noted of an attempt that another one follows.
PastAttempts == [status   : 0 .. 599,
                 spoke    : BOOLEAN,
                 requests : 0 .. MaxRequests,
                 ending   : States]

TypeOK ==
    /\ kind \in Kinds
    /\ attempt \in 1 .. Attempts
    /\ stage \in {"attest", "dispatch", "reading", "ended"}
    /\ transport \in States
    /\ requests \in 0 .. MaxRequests
    /\ emitted \in Seq(Made)
    /\ capture \in Evidence
    /\ filter \in {"undecided", "holding", "candidate", "decided"}
    /\ queue \in Seq(Passed)
    /\ started \in BOOLEAN
    /\ blocks \in Seq(Buffered)
    /\ committed \in BOOLEAN
    /\ lastError \in 0 .. Attempts
    /\ answer \in Seq(Shows)
    /\ over \in {"no", "event", "failure"}
    /\ past \in Seq(PastAttempts)

-----------------------------------------------------------------------------
(* The reasoning filter (ResponsesReasoningPrefixFilter).  A "marker" is a *)
(* thinking delta after which the block may still be the synthetic marker  *)
(* text, a "thought" one after which it is not; "marker_end" ends a block  *)
(* of nothing but unsigned markers.                                        *)

isMeaningfulContinuation(e) ==
    \/ e \in {"text_start", "text"}
    \/ e = "done" /\ \E i \in DOMAIN emitted : emitted[i] = "text"

Held == IF filter = "holding" THEN <<"thought">> ELSE <<>>

\* What becomes of a block of markers when e follows it.
Candidate(e) ==
    IF filter # "candidate" THEN <<>>
    ELSE IF isMeaningfulContinuation(e) THEN <<"empty_end">>
    ELSE <<"thought", "thinking_end">>

Withheld(e) ==
    \/ e = "marker" /\ filter # "decided"
    \/ e = "marker_end" /\ filter = "holding"

\* Mutation: a block of markers is dropped whatever follows.
ConsumeDropsMarkers(e) ==
    (IF filter = "candidate" THEN <<"empty_end">> ELSE <<>>)
      \o (IF Withheld(e) THEN <<>>
          ELSE IF e \in {"marker", "thought"} THEN <<"thought">>
          ELSE IF e = "marker_end" THEN Held \o <<"thinking_end">>
          ELSE Held \o <<e>>)

\* A held delta comes out as one with the delta that settles it.
consume(e) ==
    Candidate(e)
      \o (IF Withheld(e) THEN <<>>
          ELSE IF e \in {"marker", "thought"} THEN <<"thought">>
          ELSE IF e = "marker_end" THEN Held \o <<"thinking_end">>
          ELSE Held \o <<e>>)

filterAfter(e) ==
    CASE Withheld(e) /\ e = "marker_end" -> "candidate"
      [] Withheld(e) /\ e = "marker" -> "holding"
      [] ~ Withheld(e) /\ e \in {"marker", "thought"} -> "decided"
      [] OTHER -> "undecided"

-----------------------------------------------------------------------------
(* The transport and the bridge.                                           *)

\* Mutation: output is noted of the events the filter lets through.
PassNotesFiltered(e) ==
    /\ emitted' = Append(emitted, e)
    /\ queue' = queue \o consume(e)
    /\ filter' = filterAfter(e)
    /\ capture' = [capture EXCEPT !.output = @ \/ Spoke(consume(e))]

\* The bridge handles an event of the transport.
Pass(e) ==
    /\ emitted' = Append(emitted, e)
    /\ queue' = queue \o consume(e)
    /\ filter' = filterAfter(e)
    /\ capture' = [capture EXCEPT !.output = @ \/ isCommittedModelOutput(e)]

\* The gateway answers the attempt's request.
Respond(status, json, topic) ==
    /\ transport = "requesting"
    /\ transport' = IF status < 400 THEN "answering" ELSE "refused"
    /\ capture' = Captured(capture, status, json, topic)
    /\ UNCHANGED <<kind, requests, emitted, filter, queue, runner, outer>>

\* The transport repeats a refused request (retries are OMP's own).
Repeat ==
    /\ transport = "refused"
    /\ emitted = <<>>
    /\ requests < MaxRequests
    /\ requests' = requests + 1
    /\ transport' = "requesting"
    /\ UNCHANGED <<kind, emitted, capture, filter, queue, runner, outer>>

\* Thinking is a block: start, deltas, end; a text block does not overlap it.
Thinking ==
    \E i \in DOMAIN emitted :
        /\ emitted[i] = "thinking_start"
        /\ \A j \in DOMAIN emitted :
              j > i => emitted[j] \in {"marker", "thought"}

Follows(e) ==
    CASE e \in {"marker", "thought"} -> Thinking
      [] e = "thinking_end" -> Thinking /\ emitted[Len(emitted)] # "thinking_start"
      [] e = "marker_end" -> Thinking /\ filter = "holding"
      [] OTHER -> ~ Thinking

Begin ==
    /\ transport \in {"requesting", "answering", "refused"}
    /\ emitted = <<>>
    /\ Pass("start")
    /\ UNCHANGED <<kind, transport, requests, runner, outer>>

Emit(e) ==
    /\ transport = "answering"
    /\ Len(emitted) \in 1 .. MaxEvents - 1
    /\ Follows(e)
    /\ Pass(e)
    /\ UNCHANGED <<kind, transport, requests, runner, outer>>

Stopped ==
    CASE transport = "refused" -> "given up"
      [] transport = "answering" -> "answered"
      [] OTHER -> "cut off"

\* The transport ends its stream with a terminal event.
Finish(e) ==
    /\ transport \in {"requesting", "answering", "refused"}
    /\ e = "done" => transport = "answering" /\ emitted # <<>> /\ ~ Thinking
    /\ transport' = Stopped
    /\ Pass(e)
    /\ UNCHANGED <<kind, requests, runner, outer>>

\* The transport's stream throws: bridge fails its own stream, and OMP's
\* stream (external) may discard what it had queued.
Break(e) ==
    /\ transport \in {"requesting", "answering", "refused"}
    /\ transport' = Stopped
    /\ emitted' = Append(emitted, e)
    /\ queue' \in {Append(queue, e), <<e>>}
    /\ UNCHANGED <<kind, requests, capture, filter, runner, outer>>

-----------------------------------------------------------------------------
(* The runner.                                                             *)

Shown(events) == [i \in DOMAIN events |-> [attempt |-> attempt, kind |-> events[i]]]

push(events) == answer' = answer \o Shown(events)

StartEvent == IF started THEN <<"start">> ELSE <<>>

End(how) ==
    /\ over' = how
    /\ stage' = "ended"

\* beforeAttempt: a plan of physical routes re-attests them.
Attest ==
    /\ stage = "attest"
    /\ stage' = "dispatch"
    /\ UNCHANGED <<kind, source, queue, attempt, started, blocks, committed, lastError,
                   past, outer>>

AttestFails ==
    /\ stage = "attest"
    /\ End("failure")
    /\ UNCHANGED <<kind, source, queue, attempt, started, blocks, committed, lastError,
                   past, answer>>

\* dispatch(attempt): a capture and a stream of its own.
Dispatch ==
    /\ stage = "dispatch"
    /\ stage' = "reading"
    /\ transport' = "requesting"
    /\ requests' = 1
    /\ emitted' = <<>>
    /\ capture' = NothingCaptured
    /\ filter' = "undecided"
    /\ queue' = <<>>
    /\ started' = FALSE
    /\ blocks' = <<>>
    /\ committed' = FALSE
    /\ UNCHANGED <<kind, attempt, lastError, past, outer>>

\* dispatch throws: nothing has been captured, which permits no transition.
DispatchFails ==
    /\ stage = "dispatch"
    /\ End("failure")
    /\ UNCHANGED <<kind, source, queue, attempt, started, blocks, committed, lastError,
                   past, answer>>

FirstStage(k) == IF k = "physical-compatibility" THEN "attest" ELSE "dispatch"

PastAttempt == [status   |-> capture.status,
                spoke    |-> Spoke(emitted),
                requests |-> requests,
                ending   |-> transport]

\* Mutation: running out of attempts is not reported.
TryNextStopsSilently(error) ==
    /\ lastError' = error
    /\ IF attempt < Attempts
       THEN /\ attempt' = attempt + 1
            /\ stage' = FirstStage(kind)
            /\ past' = Append(past, PastAttempt)
            /\ transport' = "idle"
            /\ UNCHANGED outer
       ELSE /\ stage' = "ended"
            /\ UNCHANGED <<attempt, past, transport, outer>>

\* The attempt failed before output, and the policy permits the next one.
\* error is the attempt of lastErrorEvent: after the last attempt that event is
\* pushed, and without one the errors thrown are reported.
TryNext(error) ==
    /\ lastError' = error
    /\ IF attempt < Attempts
       THEN /\ attempt' = attempt + 1
            /\ stage' = FirstStage(kind)
            /\ past' = Append(past, PastAttempt)
            /\ transport' = "idle"
            /\ UNCHANGED outer
       ELSE /\ End(IF error = 0 THEN "failure" ELSE "event")
            /\ answer' = IF error = 0 THEN answer
                         ELSE Append(answer, [attempt |-> error, kind |-> "error"])
            /\ UNCHANGED <<attempt, past, transport>>

Permitted(e) == evaluateAttemptTransition(kind, names(e), capture)

Event == Head(queue)

Take ==
    /\ stage = "reading"
    /\ queue # <<>>
    /\ queue' = Tail(queue)
    /\ UNCHANGED <<kind, requests, emitted, capture, filter>>

ReadStart ==
    /\ Take
    /\ ~ committed /\ Event = "start"
    /\ started' = TRUE
    /\ UNCHANGED <<transport, attempt, stage, blocks, committed, lastError, past, outer>>

ReadBlock ==
    /\ Take
    /\ ~ committed /\ Event \in Buffered
    /\ blocks' = Append(blocks, Event)
    /\ UNCHANGED <<transport, attempt, stage, started, committed, lastError, past, outer>>

ReadAborted ==
    /\ Take
    /\ ~ committed /\ Event = "aborted"
    /\ push(Append(StartEvent, "aborted"))
    /\ End("event")
    /\ UNCHANGED <<transport, attempt, started, blocks, committed, lastError, past>>

\* Mutation: the return is missing.
ConcludeGoesOn(e) ==
    /\ push(StartEvent \o Append(blocks, e))
    /\ UNCHANGED <<over, stage>>

\* The attempt ends, and with it the request, before any output.
Conclude(e) ==
    /\ push(StartEvent \o Append(blocks, e))
    /\ End("event")

ReadDone ==
    /\ Take
    /\ ~ committed /\ Event = "done"
    /\ Conclude("done")
    /\ UNCHANGED <<transport, attempt, started, blocks, committed, lastError, past>>

ReadError ==
    /\ Take
    /\ ~ committed /\ Event \in Errors
    /\ IF Permitted(Event)
       THEN TryNext(attempt) /\ UNCHANGED <<started, blocks, committed>>
       ELSE /\ Conclude(Event)
            /\ UNCHANGED <<transport, attempt, started, blocks, committed, lastError, past>>

\* Output commits to this attempt: what was buffered goes first.
Show ==
    push((IF committed THEN <<>> ELSE StartEvent \o blocks) \o <<Event>>)

ReadOutput ==
    /\ Take
    /\ \/ committed /\ Event \notin Throws
       \/ isCommittedModelOutput(Event)
    /\ committed' = TRUE
    /\ Show
    /\ IF Event \in Terminal THEN End("event") ELSE UNCHANGED <<stage, over>>
    /\ UNCHANGED <<transport, attempt, started, blocks, lastError, past>>

ReadThrow ==
    /\ Take
    /\ Event \in Throws
    /\ IF ~ committed /\ Permitted(Event)
       THEN TryNext(lastError)
       ELSE /\ End("failure")
            /\ UNCHANGED <<transport, attempt, lastError, past, answer>>
    /\ UNCHANGED <<started, blocks, committed>>

-----------------------------------------------------------------------------
Init ==
    /\ kind \in Kinds
    /\ attempt = 1
    /\ stage = FirstStage(kind)
    /\ transport = "idle"
    /\ requests = 0
    /\ emitted = <<>>
    /\ capture = NothingCaptured
    /\ filter = "undecided"
    /\ queue = <<>>
    /\ started = FALSE
    /\ blocks = <<>>
    /\ committed = FALSE
    /\ lastError = 0
    /\ answer = <<>>
    /\ over = "no"
    /\ past = <<>>

Transport ==
    \/ \E s \in Statuses, json \in BOOLEAN, t \in Topics : Respond(s, json, t)
    \/ Repeat
    \/ Begin
    \/ \E e \in Content : Emit(e)
    \/ \E e \in Terminal : Finish(e)
    \/ \E e \in Throws : Break(e)

Runner ==
    \/ Attest
    \/ AttestFails
    \/ Dispatch
    \/ DispatchFails
    \/ ReadStart
    \/ ReadBlock
    \/ ReadAborted
    \/ ReadDone
    \/ ReadError
    \/ ReadOutput
    \/ ReadThrow

Next == Transport \/ Runner

Spec == Init /\ [][Next]_vars

\* OMP's transport goes on (a request that gets no answer times out) and so
\* does the runner; what the transport answers is not restricted.
Fairness == WF_vars(Transport) /\ WF_vars(Runner)

-----------------------------------------------------------------------------
(* Properties.                                                             *)

\* Another attempt follows one that made no output, not even output that the
\* filter or the queue still withheld from the runner ("replaying the turn on
\* another protocol would duplicate or contradict already-visible output",
\* multi-protocol-routing.ts), and some request of which was refused with a
\* status the policy names; if it made only one, that one did not time out.
RepeatsAreSafe ==
    \A i \in DOMAIN past :
        /\ ~ past[i].spoke
        /\ past[i].status \in
              (IF kind = "gateway-ingress" THEN {400, 422} ELSE {502, 503})
        /\ past[i].requests = 1 => past[i].ending \in Refused

\* No attempt follows one whose last request the gateway did not refuse: it may
\* have been processed ("Timeouts are deliberately terminal: the upstream may
\* already have processed the request", attempt-retry-policy.ts).
LastRequestRefused == \A i \in DOMAIN past : past[i].ending \in Refused

\* How much text there is among events (one text is like another here).
Texts(events) == Cardinality({i \in DOMAIN events : events[i] = "text"})

ShownKinds == [i \in DOMAIN answer |-> answer[i].kind]

\* An answer that ends with an event has shown all the text of its attempt, once
\* and after its start; and if the model has only thought, with no text block
\* begun that makes the filter drop its markers, some of that is shown.
AnswerIsWhole ==
    (over = "event" /\ answer[Len(answer)].attempt = attempt)
        => /\ Texts(ShownKinds) = Texts(emitted)
           /\ Spoke(emitted) /\ (\A i \in DOMAIN emitted : emitted[i] # "text_start")
                => Spoke(ShownKinds)
           /\ Len(answer) > 1 => ShownKinds[1] = emitted[1]

\* The outer stream keeps AnswerStream's promise, whatever the attempts do.
Promise == INSTANCE AnswerStream
OneAnswer == Promise!Spec

\* Every request ends (runPifrostProtocolPlan always pushes or fails).
RequestEnds == <>(over # "no")

=============================================================================
