----------------------------- MODULE MailProvider -----------------------------
(***************************************************************************)
(* MailRelayProvider.send as a table: what becomes of one POST and which   *)
(* DeliveryStatus the provider class makes of it.                          *)
(*                                                                         *)
(* An exchange is what happened on the wire.  Whether the provider took    *)
(* the email is its own affair: the code only ever sees the exchange, and  *)
(* Evidence says what an exchange tells about it.                          *)
(***************************************************************************)
EXTENDS Naturals

CONSTANT StatusCode        \* HTTP status codes the provider may answer with

ASSUME StatusCodeAssumption == StatusCode \subseteq 200..599

MAILRELAY_RETRYABLE_STATUS_CODES == {429, 500, 502, 503, 504}

\* httpx: response.is_error
IsError(code) == code >= 400

\* "receipt": a JSON list of one MailRelaySendResponse; "other": anything
\* else, for which MailRelayClient.send or pydantic raises.
Answered == [kind : {"answered"}, status : StatusCode, body : {"receipt", "other"}]

\* TimeoutException, NetworkError and RemoteProtocolError of httpx.
Broken == [kind : {"timeout", "network_error", "protocol_error"}]

\* cc or bcc: no request is made.
NotCalled == [kind |-> "unsupported"]

\* MailRelayClient.send returns.  It raises for is_error and for a body that
\* is no receipt; a redirect is not followed, and is no error.
HasReceipt(e) == e \in Answered /\ ~IsError(e.status) /\ e.body = "receipt"

\* a faulty variant: an unexpected exception is taken for a refusal
SendUnexpectedIsFinal(e) ==
    IF HasReceipt(e) THEN "success"
    ELSE IF e = NotCalled THEN "permanent_failure"
    ELSE IF e \in Answered
    THEN IF IsError(e.status) /\ e.status \in MAILRELAY_RETRYABLE_STATUS_CODES
         THEN "temporary_failure" ELSE "permanent_failure"
    ELSE "temporary_failure"

Send(e) ==
    IF HasReceipt(e) THEN "success"
    ELSE IF e = NotCalled THEN "permanent_failure"
    ELSE IF e \in Answered /\ IsError(e.status)
    THEN IF e.status \in MAILRELAY_RETRYABLE_STATUS_CODES
         THEN "temporary_failure" ELSE "permanent_failure"
    ELSE "temporary_failure"

(* What is known of the email.  HTTP says that 4xx means the request was   *)
(* not carried out and 2xx that it was, and a receipt names the message;   *)
(* a provider that answers 5xx, redirects, sends something else or breaks  *)
(* the connection may have taken it or not.                                *)
Evidence(e) ==
    IF e \notin Answered THEN IF e = NotCalled THEN "refused" ELSE "broken"
    ELSE IF e.status >= 500 THEN "server_error"
    ELSE IF e.status >= 400 THEN "refused"
    ELSE IF e.status >= 300 THEN "redirect"
    ELSE IF e.body = "receipt" THEN "taken" ELSE "broken"

\* What send may return for an email, with cc or bcc or without, and what the
\* exchange told.
Results(copies) ==
    {[status |-> Send(e), evidence |-> Evidence(e)] :
        e \in IF copies THEN {NotCalled} ELSE Answered \cup Broken}
=============================================================================
