---------------------------- MODULE MCSessionStop ----------------------------
(* SessionStop for TLC.                                                    *)
EXTENDS SessionStop

\* A long prompt, and one that names a release.
LongPrompt    == [sha |-> "p1", long |-> TRUE, named |-> FALSE]
ReleasePrompt == [sha |-> "p2", long |-> FALSE, named |-> TRUE]

TwoStages   == <<"native", "model">>
ThreeStages == <<"native", "context", "model">>
OnePrompt   == {LongPrompt}
TwoPrompts  == {LongPrompt, ReleasePrompt}

=============================================================================
