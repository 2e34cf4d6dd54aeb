----------------------------- MODULE CrawlAnswer -----------------------------
(***************************************************************************)
(* What one answer of the Crawl4AI service means (clients/                 *)
(* crawl4ai_client.py): the first rule that applies gives the outcome of   *)
(* the fetch, and only "content" carries a page.                           *)
(***************************************************************************)
EXTENDS Integers

CONSTANTS MaxBody, MaxContent  \* max_response_body_bytes, max_content_bytes

\* status of the service's own response, its length and whether it is JSON
Envelope == [status : {200, 429, 503}, bytes : Nat, json : BOOLEAN]

\* The first result of the payload, if its shape is recognized and its address is not too long.
Item == [shape : BOOLEAN, status : {200, 404, 429}, robotsDenied : BOOLEAN,
         challenge : BOOLEAN, success : BOOLEAN,
         media : {"text", "none", "pdf", "document", "other"},
         bytes : Nat, markdown : BOOLEAN, shell : BOOLEAN]

\* _fetch_one_outcome: the response of the service itself
EnvelopeCode(e) ==
  CASE e.status = 429 -> "rate_limited"
    [] e.status \notin {200, 429} -> "upstream_failure"
    [] e.status = 200 /\ e.bytes > MaxBody -> "content_too_large"
    [] e.status = 200 /\ e.bytes <= MaxBody /\ ~e.json -> "malformed_upstream_response"
    [] OTHER -> "none"

\* _unsupported_content_code
MediaCode(media, capabilities) ==
  CASE media \in {"text", "none"} -> "none"
    [] media \in {"pdf", "document"} ->
         IF media \in capabilities THEN "none" ELSE "unsupported_capability"
    [] OTHER -> "unsupported_content"

\* _terminal_outcome_code: an unsafe final address comes before anything else.
TerminalCode(i, unsafe, capabilities) ==
  CASE unsafe -> "unsafe_redirect"
    [] ~unsafe /\ i.status = 429 -> "rate_limited"
    [] ~unsafe /\ i.status # 429 /\ i.robotsDenied -> "robots_refused"
    [] ~unsafe /\ i.status # 429 /\ ~i.robotsDenied /\ i.challenge -> "challenge"
    [] ~unsafe /\ i.status # 429 /\ ~i.robotsDenied /\ ~i.challenge /\ ~i.success ->
         "upstream_failure"
    [] OTHER -> MediaCode(i.media, capabilities)

\* _outcome_from_payload
ItemCode(i, unsafe, capabilities) ==
  LET terminal == TerminalCode(i, unsafe, capabilities)
  IN CASE ~i.shape -> "malformed_upstream_response"
       [] i.shape /\ terminal # "none" -> terminal
       [] i.shape /\ terminal = "none" /\ i.bytes > MaxContent -> "content_too_large"
       [] i.shape /\ terminal = "none" /\ i.bytes <= MaxContent /\ ~i.markdown ->
            IF i.shell THEN "empty_shell" ELSE "extraction_empty"
       [] OTHER -> "content"

OutcomeCode(e, i, unsafe, capabilities) ==
  IF EnvelopeCode(e) # "none" THEN EnvelopeCode(e) ELSE ItemCode(i, unsafe, capabilities)
=============================================================================
