----------------------------- MODULE GatewayCall -----------------------------
(***************************************************************************)
(* One call of HermesClient.ask or ask_async: a POST to the gateway under  *)
(* one httpx timeout, and the classification of what comes back.           *)
(*                                                                         *)
(* httpx applies a timeout given as a number to each network operation by  *)
(* itself: to connecting, to sending, and to each read of the response.    *)
(* The gateway is a process of its own: it works on, whatever becomes of   *)
(* the call.                                                               *)
(***************************************************************************)
EXTENDS Integers

CONSTANTS
    Timeout,    \* HERMES_REQUEST_TIMEOUT_SECONDS, in clock ticks
    MaxReads    \* bound on the reads a response takes

ASSUME TimeoutPositive == Timeout \in Nat \ {0}
ASSUME ReadsPositive == MaxReads \in Nat \ {0}

VARIABLES
    mode,       \* which of the two methods was called
    clock,      \* ticks since the call began
    heard,      \* when the current network operation began
    ops,        \* network operations begun
    stage,      \* how far the call has come
    sent,       \* requests handed to the gateway
    gateway,    \* what the gateway does with the request
    response,   \* the response it gives
    left,       \* reads until the response is complete
    outcome     \* what the call returned or raised

vars == <<mode, clock, heard, ops, stage, sent, gateway, response, left, outcome>>

NoResponse == [status |-> "none", body |-> "none"]
Responses ==
    [status : {"ok", "unauthorized", "redirect", "error"},
     body : {"text", "not_a_string", "malformed", "undecodable"}]

(***************************************************************************)
(* The HermesErrors of the two methods.  "escaped" is an exception that    *)
(* neither turns into one: of response.json() for a body that is not       *)
(* UTF-8, which is no JSONDecodeError, or of httpx before it posts, which  *)
(* is no HTTPError; "cancelled" the cancellation of the coroutine.         *)
(***************************************************************************)
HermesErrors ==
    {"timed_out", "request_failed", "rejected_key", "http_status", "malformed", "not_a_string"}
Outcomes == {"none", "text", "escaped", "cancelled"} \union HermesErrors

Network == {"connecting", "sending", "receiving"}

TypeOK ==
    /\ mode \in {"ask", "ask_async"}
    /\ clock \in Nat
    /\ heard \in 0..clock
    /\ ops \in Nat \ {0}
    /\ stage \in Network \union {"received", "returned"}
    /\ sent \in Nat
    /\ gateway \in {"idle", "working", "answered"}
    /\ response \in Responses \union {NoResponse}
    /\ left \in 0..MaxReads
    /\ outcome \in Outcomes

Init ==
    /\ mode \in {"ask", "ask_async"}
    /\ clock = 0
    /\ heard = 0
    /\ ops = 1
    /\ stage = "connecting"
    /\ sent = 0
    /\ gateway = "idle"
    /\ response = NoResponse
    /\ left = 0
    /\ outcome = "none"

\* Wrong on purpose: the timer of the next operation starts a tick late.
Mut_NextOperationLate ==
    /\ heard' = clock + 1
    /\ ops' = ops + 1

\* An operation is over; the next one gets the whole timeout again.
NextOperation ==
    /\ heard' = clock
    /\ ops' = ops + 1

Returns(o) ==
    /\ stage' = "returned"
    /\ outcome' = o

-----------------------------------------------------------------------------
(* The request.                                                            *)

Connects ==
    /\ stage = "connecting"
    /\ stage' = "sending"
    /\ NextOperation
    /\ UNCHANGED <<mode, clock, sent, gateway, response, left, outcome>>

Sends ==
    /\ stage = "sending"
    /\ stage' = "receiving"
    /\ sent' = sent + 1
    /\ gateway' = "working"
    /\ NextOperation
    /\ UNCHANGED <<mode, clock, response, left, outcome>>

\* The gateway has an answer; it may take its time, or never have one.
GatewayAnswers ==
    /\ gateway = "working"
    /\ gateway' = "answered"
    /\ response' \in Responses
    /\ left' \in 1..MaxReads
    /\ UNCHANGED <<mode, clock, heard, ops, stage, sent, outcome>>

ReadArrives ==
    /\ stage = "receiving"
    /\ left > 0
    /\ left' = left - 1
    /\ IF left = 1
       THEN /\ stage' = "received"
            /\ UNCHANGED <<heard, ops>>
       ELSE /\ UNCHANGED stage
            /\ NextOperation
    /\ UNCHANGED <<mode, clock, sent, gateway, response, outcome>>

-----------------------------------------------------------------------------
(* What can go wrong on the way.                                           *)

\* Wrong on purpose: no timeout on reads.
Mut_TimesOutBeforeReading ==
    /\ stage \in {"connecting", "sending"}
    /\ clock - heard = Timeout
    /\ Returns("timed_out")
    /\ UNCHANGED <<mode, clock, heard, ops, sent, gateway, response, left>>

TimesOut ==
    /\ stage \in Network
    /\ clock - heard = Timeout
    /\ Returns("timed_out")
    /\ UNCHANGED <<mode, clock, heard, ops, sent, gateway, response, left>>

TransportFails ==
    /\ stage \in Network
    /\ Returns("request_failed")
    /\ UNCHANGED <<mode, clock, heard, ops, sent, gateway, response, left>>

\* httpx can make no request of what it is given, and raises what is no
\* HTTPError: for the URL (InvalidURL), the key or the session in a header
\* (UnicodeEncodeError), or a timeout no socket takes (OverflowError).
RequestRaises ==
    /\ stage = "connecting"
    /\ Returns("escaped")
    /\ UNCHANGED <<mode, clock, heard, ops, sent, gateway, response, left>>

\* The caller of a synchronous hermes_ask goes away; a thread cannot be
\* cancelled.
Cancelled ==
    /\ mode = "ask_async"
    /\ stage \in Network
    /\ Returns("cancelled")
    /\ UNCHANGED <<mode, clock, heard, ops, sent, gateway, response, left>>

-----------------------------------------------------------------------------
(* _response_text.                                                         *)

\* Wrong on purpose: the body is read whatever the status.
Mut_ClassifiedByBody(r) ==
    CASE r.status = "unauthorized" -> "rejected_key"
      [] r.body = "malformed" -> "malformed"
      [] r.body = "undecodable" -> "escaped"
      [] r.body = "not_a_string" -> "not_a_string"
      [] OTHER -> "text"

Classified(r) ==
    CASE r.status = "unauthorized" -> "rejected_key"
      [] r.status \in {"redirect", "error"} -> "http_status"
      [] r.status = "ok" /\ r.body = "malformed" -> "malformed"
      [] r.status = "ok" /\ r.body = "undecodable" -> "escaped"
      [] r.status = "ok" /\ r.body = "not_a_string" -> "not_a_string"
      [] OTHER -> "text"

\* Wrong on purpose: a redirect is followed, and the prompt posted again.
Mut_ClassifiesAndFollows ==
    /\ stage = "received"
    /\ IF response.status = "redirect" /\ sent < 2
       THEN /\ stage' = "sending"
            /\ NextOperation
            /\ UNCHANGED outcome
       ELSE /\ Returns(Classified(response))
            /\ UNCHANGED <<heard, ops>>
    /\ UNCHANGED <<mode, clock, sent, gateway, response, left>>

Classifies ==
    /\ stage = "received"
    /\ Returns(Classified(response))
    /\ UNCHANGED <<mode, clock, heard, ops, sent, gateway, response, left>>

\* Wrong on purpose: a due timer is served late.
Mut_TickPastTimer ==
    /\ stage \in Network
    /\ clock - heard <= Timeout
    /\ clock' = clock + 1
    /\ UNCHANGED <<mode, heard, ops, stage, sent, gateway, response, left, outcome>>

\* Time passes while the call waits for the network, up to the timer.
Tick ==
    /\ stage \in Network
    /\ clock - heard < Timeout
    /\ clock' = clock + 1
    /\ UNCHANGED <<mode, heard, ops, stage, sent, gateway, response, left, outcome>>

Next ==
    \/ Connects \/ Sends \/ GatewayAnswers \/ ReadArrives
    \/ TimesOut \/ TransportFails \/ RequestRaises \/ Cancelled
    \/ Classifies
    \/ Tick

Spec == Init /\ [][Next]_vars

\* Time passes, timers fire, and the code after the request runs.  Nothing
\* makes the network or the gateway do anything.
Fairness == WF_vars(Tick) /\ WF_vars(TimesOut) /\ WF_vars(Classifies)

FairSpec == Spec /\ Fairness

-----------------------------------------------------------------------------
(* Properties.                                                             *)

(* A text is returned only if it is the string of a complete response with *)
(* status 200 to the request that was sent; no other response, and no part *)
(* of one, passes for an answer.                                           *)
TextIsWholeAnswer ==
    outcome = "text" =>
        /\ gateway = "answered" /\ left = 0
        /\ response = [status |-> "ok", body |-> "text"]

(* The prompt is posted at most once, whatever fails and whatever comes    *)
(* back: no retry, and no redirect followed (hermes_client.py:72).         *)
SentAtMostOnce == sent <= 1

(* What the timeout does bound: with one timer per network operation, a    *)
(* call lasts no longer than the timeout times the operations it has begun *)
(* (hermes_client.py:71).                                                  *)
TimePerOperation == clock <= Timeout * ops

(* What makes the three inductive: how the stage, the gateway and the two  *)
(* clocks of a call go together.                                           *)
StageCoherent ==
    /\ sent = IF gateway = "idle" THEN 0 ELSE 1
    /\ stage \in {"connecting", "sending"} => gateway = "idle"
    /\ stage = "received" => gateway = "answered" /\ left = 0
    /\ gateway = "answered" => response \in Responses
    /\ left > 0 => gateway = "answered"
    /\ clock - heard <= Timeout
    /\ heard <= Timeout * (ops - 1)

IInv == TypeOK /\ StageCoherent /\ TextIsWholeAnswer

(* Every call returns or raises, though the gateway never answers or stops *)
(* half way: "A hung gateway turns into a `HermesError` after the timeout" *)
(* (THREAT_MODEL.md:100).                                                  *)
CallEnds == <>(outcome # "none")

(* "Max wall-clock seconds for a single hermes_ask call" (.env.example:36).*)
WallClockBound == clock <= Timeout
=============================================================================
