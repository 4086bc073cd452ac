---------------------------- MODULE AttemptPolicy ----------------------------
(***************************************************************************)
(* When a failed attempt may be followed by another one:                   *)
(* attempt-retry-policy.ts over the evidence that bifrost-cost-bridge.ts   *)
(* captures, as gateway-reliability.ts and inference-failure.ts classify   *)
(* it.  Texts are represented by what the patterns find in them.           *)
(***************************************************************************)
EXTENDS Naturals

\* What the body of an error response is about: the first pattern of
\* classifyInferenceFailure that it matches.
Topics == {"replay", "output limit", "route", "protocol", "blocked", "other"}

\* GatewayFailureClass and InferenceFailureCode, as far as statuses lead to them.
Classes == {"credential", "authorization", "quota-or-rate-limit", "timeout", "upstream", "request"}
Codes == {"REASONING_REPLAY_INVALID", "OUTPUT_LIMIT_EXCEEDED", "ROUTE_CONTRACT_UNKNOWN",
          "PROTOCOL_INCOMPATIBLE", "OTHER_REQUEST", "REQUEST_TOO_LARGE", "MODEL_NOT_PERMITTED",
          "UPSTREAM_TRANSIENT", "UNKNOWN"}

\* status 0 stands for an HTTP status that has not been captured
Evidence == [status : 0 .. 599, class : Classes \cup {"none"}, code : Codes \cup {"none"},
             output : BOOLEAN]

NothingCaptured == [status |-> 0, class |-> "none", code |-> "none", output |-> FALSE]

classifyGatewayHttpStatus(status) ==
    CASE status = 401 -> "credential"
      [] status = 403 -> "authorization"
      [] status \in {402, 429} -> "quota-or-rate-limit"
      [] status \in {408, 504} -> "timeout"
      [] status \in (500 .. 599) \ {504} -> "upstream"
      [] OTHER -> "request"

RequestCode ==
    [t \in Topics |->
        CASE t = "replay"       -> "REASONING_REPLAY_INVALID"
          [] t = "output limit" -> "OUTPUT_LIMIT_EXCEEDED"
          [] t = "route"        -> "ROUTE_CONTRACT_UNKNOWN"
          [] t = "protocol"     -> "PROTOCOL_INCOMPATIBLE"
          [] OTHER              -> "OTHER_REQUEST"]

classifyInferenceFailure(status, topic) ==
    CASE status = 413 -> "REQUEST_TOO_LARGE"
      [] status \in {400, 422} -> RequestCode[topic]
      [] status = 403 /\ topic = "blocked" -> "MODEL_NOT_PERMITTED"
      [] status \in 500 .. 599 -> "UPSTREAM_TRANSIENT"
      [] OTHER -> "UNKNOWN"

\* The evidence after a response with this status; a JSON body is classified,
\* and a response that is no error adds nothing.
Captured(evidence, status, json, topic) ==
    IF status < 400 THEN evidence
    ELSE [evidence EXCEPT
            !.status = status,
            !.class = classifyGatewayHttpStatus(status),
            !.code = IF json THEN classifyInferenceFailure(status, topic) ELSE @]

TerminalStatus == {401, 402, 403, 408, 413, 429, 504}

TerminalCode ==
    {"REASONING_REPLAY_INVALID", "OUTPUT_LIMIT_EXCEEDED", "REQUEST_TOO_LARGE",
     "MODEL_NOT_PERMITTED", "ROUTE_CONTRACT_UNKNOWN"}

ProtocolRejected(e, names) ==
    /\ e.status \in {400, 422}
    /\ e.class \in {"none", "request"}
    /\ e.code \in {"none", "PROTOCOL_INCOMPATIBLE", "OTHER_REQUEST", "UNKNOWN"}
    /\ names

UpstreamUnavailable(e) ==
    /\ e.status \in {502, 503}
    /\ e.class = "upstream"
    /\ e.code = "UPSTREAM_TRANSIENT"

\* evaluateAttemptTransition(kind, error, e).permitted, where names says
\* whether the text of the error reports an unsupported protocol.
evaluateAttemptTransition(kind, names, e) ==
    /\ ~ e.output
    /\ e.status \in (400 .. 599) \ TerminalStatus
    /\ e.code \notin TerminalCode
    /\ IF kind = "gateway-ingress"
       THEN ProtocolRejected(e, names)
       ELSE UpstreamUnavailable(e)

=============================================================================
