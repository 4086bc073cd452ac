---------------------------- MODULE AnswerStream ----------------------------
(***************************************************************************)
(* What the outer stream of a Pifrost request promises OMP, whatever       *)
(* attempts are made behind it: the events shown come from one attempt,    *)
(* they are never taken back, and the stream ends once, with a terminal    *)
(* event or with a failure.                                                *)
(***************************************************************************)
EXTENDS Naturals, Sequences

CONSTANT Terminal   \* kinds of events that end a stream

VARIABLES
    answer,         \* the events shown: the attempt and the kind of each
    over            \* "no", "event" or "failure"

vars == <<answer, over>>

Init == answer = <<>> /\ over = "no"

Show ==
    /\ over = "no"
    /\ Len(answer') > Len(answer)
    /\ SubSeq(answer', 1, Len(answer)) = answer
    /\ \A i, j \in DOMAIN answer' : answer'[i].attempt = answer'[j].attempt
    /\ \A i \in DOMAIN answer' :
          answer'[i].kind \in Terminal => i = Len(answer')
    /\ over' = IF answer'[Len(answer')].kind \in Terminal THEN "event" ELSE "no"

Fail ==
    /\ over = "no"
    /\ over' = "failure"
    /\ UNCHANGED answer

Spec == Init /\ [][Show \/ Fail]_vars

=============================================================================
