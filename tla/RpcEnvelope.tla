----------------------------- MODULE RpcEnvelope -----------------------------
(***************************************************************************)
(* One call of an RPC client from its JSON to its verdict, over HTTP or    *)
(* over frames (Unix socket, named pipe, TCP): what the server's           *)
(* handle_core() makes of the request, how each transport carries the      *)
(* reply, what the client reads in it, and which failures it tries again.  *)
(* Who waits for whom is left to RpcServer, RpcShells, ConnPool and        *)
(* Pipeline, the length of the pauses to ClientCalls.                      *)
(***************************************************************************)
EXTENDS Integers

CONSTANTS
  Hints,           \* values of retry_after_seconds
  Later,           \* hours from now that a gateway may name as an HTTP-date
  Months,          \* months, from 0, in which it may do so
  MaxTries,        \* max_retries + 1
  Nothing

\* What is said of a failure, and the verdicts and replies that there are.
Sayings ==
  {"server shutting down", "overloaded", "method not found", "exception", "http status 500",
   "not JSON", "busy", "params", "response", "transport"}
ErrorWords ==
  {"OK", "UNKNOWN", "CONNECTION_FAILED", "TIMEOUT", "OVERLOADED", "PROTOCOL_ERROR", "SERVER_ERROR"}
Values      == {"something", Nothing}
Verdicts    == [error : ErrorWords, text : Sayings \cup {Nothing}, value : Values]
CoreReplies == [code : {200, 404, 429, 500}, text : Sayings \cup {Nothing}, value : Values,
                after : Hints \cup {0}]
GatewaySays == [gateway : Later]

ASSUME EnvelopeAssumption ==
  /\ Hints \subseteq Nat /\ Months \subseteq 0..11 /\ MaxTries \in Nat \ {0}
  /\ Nothing \notin Sayings \cup Verdicts \cup CoreReplies \cup GatewaySays

VARIABLES
  carrier,         \* "http" or "frames"
  hint,            \* the server's retry_after_seconds
  closing,         \* its stopping
  alive,           \* its process has not been terminated
  asked,           \* what is asked
  leg,             \* how far the attempt is
  core,            \* the server's CoreReply to it, if any
  packet,          \* what travels back
  result,          \* the AttemptResult
  tries,           \* attempts
  retry_advice,    \* how long to wait before the next one: <<n, unit>>, or Nothing
  last_fail_error, \* last_fail_error
  verdict,         \* what the call returns: [error, text, value]
  ran, unseen      \* history: handler runs, and attempts whose answer was lost

envelopeVars == <<carrier, hint, closing, alive, asked, leg, core, packet, result, tries,
                  retry_advice, last_fail_error, verdict, ran, unseen>>

EnvelopeInit ==
  /\ carrier \in {"http", "frames"} /\ hint \in Hints
  /\ closing = FALSE /\ alive = TRUE
  /\ asked = Nothing /\ leg = "idle" /\ core = Nothing /\ packet = Nothing /\ result = Nothing
  /\ tries = 0 /\ retry_advice = Nothing /\ last_fail_error = "UNKNOWN" /\ verdict = Nothing
  /\ ran = 0 /\ unseen = 0

-----------------------------------------------------------------------------
(* The client asks *)

Verdict(err, text, value) == [error |-> err, text |-> text, value |-> value]

\* Parameters that are no JSON are refused before anything is sent.
Ask(what) ==
  /\ leg = "idle" /\ asked' = what
  /\ IF what = "bad params"
       THEN /\ leg' = "over" /\ verdict' = Verdict("PROTOCOL_ERROR", "params", Nothing)
            /\ UNCHANGED tries
       ELSE /\ leg' = "sent" /\ tries' = 1 /\ UNCHANGED verdict
  /\ UNCHANGED <<carrier, hint, closing, alive, core, packet, result, retry_advice,
                 last_fail_error, ran, unseen>>

-----------------------------------------------------------------------------
(* The server *)

Reply(code, text, value, after) == [code |-> code, text |-> text, value |-> value, after |-> after]

\* http_semantic_to_status()
Word(code) ==
  CASE code = 200 -> "ok" [] code = 400 -> "bad_request" [] code = 404 -> "not_found"
    [] code = 429 -> "overloaded" [] code = 500 -> "handler_error" [] OTHER -> "error"

Unsaid == [form |-> "none"]
Seconds(n) == IF n > 0 THEN [form |-> "seconds", n |-> n] ELSE Unsaid
Date(now, until) == [form |-> "date", now |-> now, until |-> until]

\* handle() over HTTP, core_reply_to_local() over frames: the hint is left out when
\* it is zero.
Packed(r) ==
  IF carrier = "http"
    THEN [kind |-> "http", status |-> r.code, text |-> r.text, value |-> r.value,
          after |-> IF r.code = 429 THEN Seconds(r.after) ELSE Unsaid]
    ELSE [kind |-> "frame", status |-> Word(r.code), text |-> r.text, value |-> r.value,
          after |-> Seconds(r.after)]

AnswerWith(r) ==
  /\ core' = r /\ packet' = Packed(r) /\ leg' = "answered"
  /\ UNCHANGED <<carrier, hint, closing, alive, asked, result, tries, retry_advice,
                 last_fail_error, verdict, unseen>>

\* handle_core(): refused while the server stops or is full, no such method, or
\* the handler runs.
Refuse ==
  /\ leg = "sent" /\ alive
  /\ \/ closing /\ AnswerWith(Reply(429, "server shutting down", Nothing, hint))
     \/ ~closing /\ AnswerWith(Reply(429, "overloaded", Nothing, hint))
  /\ UNCHANGED ran

NotFound ==
  /\ leg = "sent" /\ alive /\ ~closing /\ asked = "unknown"
  /\ AnswerWith(Reply(404, "method not found", Nothing, 0)) /\ UNCHANGED ran

RunHandler ==
  /\ leg = "sent" /\ alive /\ ~closing /\ asked = "known"
  /\ \E value \in {"something", Nothing} : AnswerWith(Reply(200, Nothing, value, 0))
  /\ ran' = ran + 1

\* It throws, or what it returns is no JSON.
HandlerFails ==
  /\ leg = "sent" /\ alive /\ ~closing /\ asked = "known"
  /\ AnswerWith(Reply(500, "exception", Nothing, 0))
  /\ ran' = ran + 1

\* It throws something that is no std::exception, or a text that is no UTF-8 and
\* cannot be put into a reply.  httplib answers 500 with an empty body; under the
\* other transports nobody catches it.
HandlerEscapes ==
  /\ leg = "sent" /\ alive /\ ~closing /\ asked = "known"
  /\ ran' = ran + 1
  /\ IF carrier = "http"
       THEN /\ packet' = [kind |-> "http", status |-> 500, text |-> "not JSON",
                          value |-> Nothing, after |-> Unsaid]
            /\ core' = Reply(500, "http status 500", Nothing, 0) /\ leg' = "answered"
            /\ UNCHANGED <<alive, result, unseen>>
       ELSE /\ alive' = FALSE /\ core' = Nothing /\ leg' = "got" /\ unseen' = unseen + 1
            /\ \E err \in {"CONNECTION_FAILED", "TIMEOUT"} : result' = [ok |-> FALSE, error |-> err]
            /\ UNCHANGED packet
  /\ UNCHANGED <<carrier, hint, closing, asked, tries, retry_advice, last_fail_error,
                 verdict>>

Shutdown ==
  /\ ~closing /\ closing' = TRUE
  /\ UNCHANGED <<carrier, hint, alive, asked, leg, core, packet, result, tries,
                 retry_advice, last_fail_error, verdict, ran, unseen>>

-----------------------------------------------------------------------------
(* On the way *)

Breaks(err) ==
  /\ result' = [ok |-> FALSE, error |-> err] /\ leg' = "got" /\ core' = Nothing
  /\ UNCHANGED <<carrier, hint, closing, alive, asked, packet, tries, retry_advice,
                 last_fail_error, verdict, ran>>

\* map_error(), and for a peer on this host the timeout of a connect is taken for
\* a refusal; the other transports fail to connect or to send.
Unreachable ==
  /\ leg = "sent"
  /\ Breaks("CONNECTION_FAILED") \/ (carrier = "http" /\ Breaks("TIMEOUT"))
  /\ UNCHANGED unseen

\* Too late, or the connection ends: only TCP tells one from the other.
AnswerLost ==
  /\ leg = "answered"
  /\ Breaks("TIMEOUT") \/ (carrier = "frames" /\ Breaks("CONNECTION_FAILED"))
  /\ unseen' = unseen + 1

\* Whoever answers is no RPC server.
Stranger ==
  /\ leg = "sent"
  /\ packet' = IF carrier = "http" THEN [kind |-> "http", status |-> 200, text |-> "not JSON",
                                         value |-> Nothing, after |-> Unsaid]
               ELSE [kind |-> "noise"]
  /\ leg' = "answered" /\ core' = Nothing
  /\ UNCHANGED <<carrier, hint, closing, alive, asked, result, tries, retry_advice,
                 last_fail_error, verdict, ran, unseen>>

\* A gateway before an HTTP server says when to come back, on the 15th at noon of
\* a month of 2026.
Gateway ==
  /\ leg = "sent" /\ carrier = "http"
  /\ \E m \in Months, n \in Later :
       /\ packet' = [kind |-> "http", status |-> 429, text |-> "busy", value |-> Nothing,
                     after |-> Date([month |-> m, day |-> 15, hour |-> 12],
                                    [month |-> m, day |-> 15 + ((12 + n) \div 24),
                                     hour |-> (12 + n) % 24])]
       /\ core' = [gateway |-> n]
  /\ leg' = "answered"
  /\ UNCHANGED <<carrier, hint, closing, alive, asked, result, tries, retry_advice,
                 last_fail_error, verdict, ran, unseen>>

-----------------------------------------------------------------------------
(* The client reads the answer *)

\* Days from 1970 to the first of a month of 2026, the system's clock.
FirstOf(m) ==
  20454 + <<0, 31, 59, 90, 120, 151, 181, 212, 243, 273, 304, 334>>[m + 1]

\* The date of parse_retry_after_ms(), whose months count from 0 in a formula for
\* months from 1.  In March the unsigned product wraps: it is 2^32 - 151 before it
\* is divided by 5.
ParsedDay(d) ==
  LET y   == IF d.month <= 1 THEN 2025 ELSE 2026
      era == y \div 400
      yoe == y - era * 400
      inYear == IF d.month = 2 THEN 858993429
                ELSE (153 * (d.month + (IF d.month > 1 THEN -3 ELSE 9)) + 2) \div 5
      doe == yoe * 365 + yoe \div 4 - yoe \div 100 + inYear + d.day - 1
  IN  era * 146097 + doe - 719468

\* Hours to wait, at most a day; what is past asks for nothing.
ParsedHours(now, until) ==
  LET days == ParsedDay(until) - (FirstOf(now.month) + now.day - 1)
  IN  IF days < 0 THEN 0
      ELSE IF days > 1 \/ days * 24 + until.hour - now.hour > 24 THEN 24
      ELSE IF until.hour + days * 24 < now.hour THEN 0 ELSE days * 24 + until.hour - now.hour

\* parse_retry_after_ms(): a number of seconds, or else a date.
WaitAsked(after) ==
  IF after.form = "seconds" THEN <<after.n, "s">>
                            ELSE <<ParsedHours(after.now, after.until), "h">>

\* Over HTTP, the header; without one, or with a wait of none, the wait is the
\* client's own affair.
Header(after) ==
  IF after.form = "none" \/ (after.form = "date" /\ WaitAsked(after)[1] = 0) THEN Nothing
  ELSE WaitAsked(after)

\* Mutant: a status word that does not name an error is taken for a success.
CodeTrusting(word) ==
  CASE word = "bad_request" -> 400 [] word = "not_found" -> 404 [] word = "overloaded" -> 429
    [] OTHER -> 200

\* parse_local_status()
Code(word) ==
  CASE word = "ok" -> 200 [] word = "bad_request" -> 400 [] word = "not_found" -> 404
    [] word = "overloaded" -> 429 [] OTHER -> 500

Received(code, after) ==
  [ok |-> TRUE, code |-> code, text |-> packet.text, value |-> packet.value, after |-> after]

\* A frame without a hint counts as one that asks for a second.
Read(p) ==
  IF p.kind = "noise" THEN [ok |-> FALSE, error |-> "PROTOCOL_ERROR"]
  ELSE IF p.kind = "http" THEN Received(p.status, Header(p.after))
  ELSE LET code == Code(p.status)
       IN  Received(code, IF code # 429 THEN Nothing
                          ELSE IF p.after = Unsaid THEN <<1, "s">> ELSE Header(p.after))

ReadReply ==
  /\ leg = "answered"
  /\ result' = Read(packet) /\ leg' = "got"
  /\ UNCHANGED <<carrier, hint, closing, alive, asked, core, packet, tries,
                 retry_advice, last_fail_error, verdict, ran, unseen>>

\* What the end of an attempt says of the call, or Nothing if it is to be tried again.
Judged(r) ==
  IF ~r.ok \/ r.code = 429 THEN Nothing
  ELSE IF r.code # 200
    THEN Verdict("SERVER_ERROR", IF r.text = "not JSON" THEN "http status 500" ELSE r.text, Nothing)
  ELSE IF r.text = "not JSON" THEN Verdict("PROTOCOL_ERROR", "response", Nothing)
  ELSE Verdict("OK", Nothing, r.value)

\* The advice is kept from the last 429, and counts only after one.
Judge ==
  /\ leg = "got"
  /\ IF Judged(result) # Nothing
       THEN /\ verdict' = Judged(result) /\ leg' = "over" /\ UNCHANGED <<last_fail_error,
                                                                      retry_advice>>
       ELSE /\ last_fail_error' = IF result.ok THEN "OVERLOADED" ELSE result.error
            /\ retry_advice' = IF result.ok THEN result.after ELSE retry_advice
            /\ leg' = "retry" /\ UNCHANGED verdict
  /\ UNCHANGED <<carrier, hint, closing, alive, asked, core, packet, result, tries, ran,
                 unseen>>

TryAgain ==
  /\ leg = "retry" /\ tries < MaxTries
  /\ tries' = tries + 1 /\ leg' = "sent" /\ core' = Nothing /\ packet' = Nothing /\ result' = Nothing
  /\ UNCHANGED <<carrier, hint, closing, alive, asked, retry_advice, last_fail_error,
                 verdict, ran, unseen>>

\* No attempt is left, or the next pause would exceed the budget.
GiveUp ==
  /\ leg = "retry"
  /\ verdict' = Verdict(last_fail_error, IF result.ok THEN result.text ELSE "transport", Nothing)
  /\ leg' = "over"
  /\ UNCHANGED <<carrier, hint, closing, alive, asked, core, packet, result, tries,
                 retry_advice, last_fail_error, ran, unseen>>

EnvelopeNext ==
  \/ \E what \in {"known", "unknown", "bad params"} : Ask(what)
  \/ Refuse \/ NotFound \/ RunHandler \/ HandlerFails \/ HandlerEscapes \/ Shutdown
  \/ Unreachable \/ AnswerLost \/ Stranger \/ Gateway
  \/ ReadReply \/ Judge \/ TryAgain \/ GiveUp

EnvelopeSpec == EnvelopeInit /\ [][EnvelopeNext]_envelopeVars

-----------------------------------------------------------------------------
\* What the caller is told is what the server meant, whatever carried it: a
\* result is the handler's, an error of the server keeps its text, "overloaded" is
\* said only of a refusal, and a call that never reached a handler is no success.
SaysWhatWasMeant ==
  (leg = "over" /\ core # Nothing /\ "code" \in DOMAIN core) =>
    \/ core.code = 200 /\ verdict = Verdict("OK", Nothing, core.value)
    \/ core.code \in {404, 500} /\ verdict = Verdict("SERVER_ERROR", core.text, Nothing)
    \/ core.code = 429 /\ verdict = Verdict("OVERLOADED", core.text, Nothing)

NothingFromNowhere ==
  leg = "over" => /\ verdict.error = "OK" => ran > 0
                  /\ verdict.error = "OVERLOADED" => core # Nothing

\* A handler runs again only for an attempt whose answer was lost: what the
\* server has answered is never sent anew, unless it was a refusal.
RunsOncePerLoss == ran <= 1 + unseen

\* The pause before the next attempt is the one the server asked for, on every
\* transport.  Over frames, a server that asks for none is taken to ask for a
\* second (rpc.cpp:1418), where the client's own backoff was meant (rpc.h:206).
WaitsAsAsked ==
  (leg = "retry" /\ result.ok /\ core # Nothing /\ "code" \in DOMAIN core) =>
    IF core.after > 0 THEN retry_advice = <<core.after, "s">>
    ELSE retry_advice = IF carrier = "http" THEN Nothing ELSE <<1, "s">>

\* Only a refusal is tried again after an answer, except that over frames an
\* answer that is no JSON is also (rpc.h:214 says that protocol errors are not).
OnlyRefusalsAgain ==
  leg = "retry" => \/ ~result.ok /\ (result.error = "PROTOCOL_ERROR" => carrier = "frames")
                   \/ result.ok /\ result.code = 429

EnvelopeInv ==
  SaysWhatWasMeant /\ NothingFromNowhere /\ RunsOncePerLoss /\ WaitsAsAsked /\ OnlyRefusalsAgain

\* The comment at rpc.cpp:163 says of an HTTP-date that its distance from now is
\* taken: a gateway that names a time to come is obeyed, for at most a day.
DatesHonoured ==
  (leg = "retry" /\ result.ok /\ core # Nothing /\ "gateway" \in DOMAIN core /\ core.gateway > 0) =>
    retry_advice = <<IF core.gateway > 24 THEN 24 ELSE core.gateway, "h">>
=============================================================================
