------------------------------- MODULE Fetcher -------------------------------
(***************************************************************************)
(* js-lib/src/http/fetcher.ts: one call of Fetcher.doFetch, from its first  *)
(* request to the answer it gives, with its retries, its two timeouts and   *)
(* its hooks.                                                               *)
(*                                                                          *)
(* An action is one run of JavaScript between two awaits.  pTimeout does    *)
(* not stop what it gives up on: the download of a body that timed out goes *)
(* on, and writes to the same `res` whenever it ends.  A body is the number *)
(* of the try whose response it was read from; an undefined or an empty one *)
(* (a falsy one) is 0.  The response types arrayBuffer and blob are like a  *)
(* json that always parses.  Delays, wording and what is logged are left    *)
(* out; of what hooks may do, stopping the retries, overriding the decision *)
(* to stop and throwing are modelled.                                       *)
(***************************************************************************)
EXTENDS Naturals

CONSTANTS Requests, \* the normalized requests to consider
          MaxCount  \* bound on req.retry.count

ResponseType == {"json", "text", "void", "readableStream"}
Status == {"2xx", "3xx", "4xx", "408", "5xx"}  \* "408" is 408 or 429
Failure == {"network", "redirect"}              \* "redirect": an unexpected one

Request == [post : BOOLEAN, retryPost : BOOLEAN, retry3xx : BOOLEAN,
            retry4xx : BOOLEAN, retry5xx : BOOLEAN, throwHttpErrors : BOOLEAN,
            responseType : ResponseType, timeout : BOOLEAN,
            count : 0..MaxCount, hook : BOOLEAN]

ASSUME FetcherAssumption == MaxCount \in Nat /\ Requests \subseteq Request

VARIABLES req,           \* req.timeout: timeoutSeconds > 0; req.hook: cfg has hooks
          pc,            \* what doFetch awaits
          tries,         \* how many times fetchFn was called
          retryAttempt, retryStopped,  \* of res.retryStatus
          fetchResponse, ok, err, body, \* of res
          cause,         \* res.err.cause: what it is, and of which try
          late,          \* the downloads given up on that go on
          statusOf,      \* history: what each try came to
          lateHit        \* history: a late download stopped the retries

vars == <<req, pc, tries, retryAttempt, retryStopped, fetchResponse, ok, err, body,
          cause, late, statusOf, lateHit>>

Try == 1..(MaxCount + 1)
Control == {"start", "fetching", "body", "errBody", "beforeRetry", "delay", "after",
            "done", "threw"}

TypeOK ==
  /\ req \in Requests
  /\ pc \in Control
  /\ tries \in 0..(MaxCount + 1)
  /\ retryAttempt \in 0..MaxCount
  /\ retryStopped \in BOOLEAN
  /\ fetchResponse \in Status \cup {"none"}
  /\ ok \in BOOLEAN
  /\ err \in Failure \cup {"none", "HttpRequestError"}
  /\ body \in 0..(MaxCount + 1)
  /\ cause \in [of : Failure \cup {"none", "body", "response", "default"},
                try : 0..(MaxCount + 1)]
  /\ late \subseteq Try
  /\ statusOf \in [Try -> Status \cup Failure \cup {"none"}]
  /\ lateHit \in BOOLEAN

Init ==
  /\ req \in Requests
  /\ pc = "start"
  /\ tries = 0
  /\ retryAttempt = 0
  /\ retryStopped = FALSE
  /\ fetchResponse = "none"
  /\ ok = FALSE
  /\ err = "none"
  /\ body = 0
  /\ cause = [of |-> "none", try |-> 0]
  /\ late = {}
  /\ statusOf = [k \in Try |-> "none"]
  /\ lateHit = FALSE

-----------------------------------------------------------------------------
\* Mutant: POST is not looked at.
ShouldRetry_Post(status, why) ==
  /\ status = "5xx" => req.retry5xx
  /\ status = "4xx" => req.retry4xx
  /\ status = "3xx" => req.retry3xx
  /\ why.of # "redirect"
\* Mutant: 408 and 429 are like any other 4xx.
ShouldRetry_No408(status, why) ==
  /\ req.post => req.retryPost
  /\ status = "5xx" => req.retry5xx
  /\ status \in {"4xx", "408"} => req.retry4xx
  /\ status = "3xx" => req.retry3xx
  /\ why.of # "redirect"
(* Whether a try that ended with status (of a 2xx whose body failed nothing *)
(* is left here) and error cause `why` may be repeated.                     *)
ShouldRetry(status, why) ==
  /\ req.post => req.retryPost
  /\ status = "5xx" => req.retry5xx
  /\ status = "4xx" => req.retry4xx
  /\ status = "3xx" => req.retry3xx
  /\ why.of # "redirect"

OutOfRetries == retryAttempt >= req.count

\* Mutant: the flag is computed anew in every round.
Stopped_Afresh(stopped, may) == ~may
\* retryStopped before the hooks, and it is never taken back here.
Stopped(stopped, may) == stopped \/ ~may

\* The end of processRetry, and the loop condition if it is not to wait.
Decide(stopped) ==
  LET stop == stopped \/ OutOfRetries IN
  /\ retryStopped' = stop
  /\ retryAttempt' = IF stop THEN retryAttempt ELSE retryAttempt + 1
  /\ pc' = IF stop THEN "after" ELSE "delay"

ProcessRetry(status, why) ==
  LET stopped == Stopped(retryStopped, ShouldRetry(status, why)) IN
  \/ /\ req.hook
     /\ pc' = "beforeRetry"
     /\ retryStopped' = stopped
     /\ UNCHANGED retryAttempt
  \/ /\ ~req.hook
     /\ Decide(stopped)

\* Mutant: what went wrong before is not unset.
Wrapped_Bare(e) == e
\* res.err once onNotOkResponse is done with it.
Wrapped(e) == "HttpRequestError"

(* The rest of onNotOkResponse: e is res.err ("none" if the response is the *)
(* error), b is res.body.                                                   *)
NotOk(status, e, b) ==
  LET why == CASE e # "none" -> [of |-> e, try |-> tries]
               [] e = "none" /\ b # 0 -> [of |-> "response", try |-> b]
               [] OTHER -> [of |-> "default", try |-> tries] IN
  /\ fetchResponse' = status
  /\ ok' = FALSE
  /\ err' = Wrapped(e)
  /\ cause' = why
  /\ body' = b
  /\ ProcessRetry(status, why)

\* The end of onOkResponse, with b in res.body, and of the loop.
Taken(status, e, b) ==
  /\ fetchResponse' = status
  /\ ok' = (status = "2xx")
  /\ err' = e
  /\ body' = b
  /\ retryStopped' = TRUE
  /\ pc' = "after"
  /\ UNCHANGED <<retryAttempt, cause>>

Await(where, status) ==
  /\ fetchResponse' = status
  /\ ok' = (status = "2xx")
  /\ err' = "none"
  /\ pc' = where
  /\ UNCHANGED <<retryAttempt, retryStopped, cause, body>>

\* Mutant: a response without a body leaves res.body alone.
NoBody_Kept == body
\* res.body for a response without one: {} or ''.
NoBody == IF req.responseType = "json" THEN tries ELSE 0

-----------------------------------------------------------------------------
StartTry ==
  /\ pc' = "fetching"
  /\ tries' = tries + 1
  /\ UNCHANGED <<req, retryAttempt, retryStopped, fetchResponse, ok, err, body,
                 cause, late, statusOf, lateHit>>

\* The call, its beforeRequest hooks awaited.
Call == pc = "start" /\ StartTry

\* fetchFn resolves, and onOkResponse takes the response.
AnswerTaken(s) ==
  /\ pc = "fetching"
  /\ s = "2xx" \/ ~req.throwHttpErrors
  /\ statusOf' = [statusOf EXCEPT ![tries] = s]
  /\ \/ /\ req.responseType = "void"
        /\ Taken(s, "none", body)
     \/ /\ req.responseType = "readableStream"
        /\ \/ Taken(s, "none", tries)
           \/ NotOk(s, "body", 0)
     \/ /\ req.responseType \in {"json", "text"}
        /\ \/ Await("body", s)
           \/ Taken(s, "none", NoBody)
  /\ UNCHANGED <<req, tries, late, lateHit>>

\* fetchFn resolves, and onNotOkResponse reads the body if res has none.
AnswerNotOk(s) ==
  /\ pc = "fetching"
  /\ s # "2xx" /\ req.throwHttpErrors
  /\ statusOf' = [statusOf EXCEPT ![tries] = s]
  /\ \/ /\ body = 0
        /\ Await("errBody", s)
     \/ /\ body # 0
        /\ NotOk(s, "none", body)
  /\ UNCHANGED <<req, tries, late, lateHit>>

(* fetchFn rejects.  Without throwHttpErrors the missing response goes to   *)
(* onOkResponse, where looking at its body throws.                          *)
Fail(f) ==
  /\ statusOf' = [statusOf EXCEPT ![tries] = f]
  /\ \/ /\ req.throwHttpErrors
        /\ NotOk("none", f, body)
     \/ /\ ~req.throwHttpErrors /\ req.responseType # "void"
        /\ NotOk("none", "body", body)
     \/ /\ ~req.throwHttpErrors /\ req.responseType = "void"
        /\ Taken("none", f, body)
  /\ UNCHANGED <<req, tries, late, lateHit>>

FetchFails(f) == pc = "fetching" /\ Fail(f)

\* The request timeout aborts fetchFn, which rejects.
RequestTimeout == pc = "fetching" /\ req.timeout /\ Fail("network")

\* The body arrives in time; it may be empty, or json that does not parse.
BodyArrives ==
  /\ pc = "body"
  /\ \/ Taken(fetchResponse, "none", tries)
     \/ req.responseType = "text" /\ Taken(fetchResponse, "none", 0)
     \/ req.responseType = "json" /\ NotOk(fetchResponse, "body", tries)
  /\ UNCHANGED <<req, tries, late, statusOf, lateHit>>

BodyBreaks ==
  /\ pc = "body"
  /\ NotOk(fetchResponse, "body", body)
  /\ UNCHANGED <<req, tries, late, statusOf, lateHit>>

\* pTimeout gives up on onOkResponse.  Its timer runs even with a
\* timeoutSeconds of 0: a timer of Infinity milliseconds fires after one.
BodyTimeout ==
  /\ pc = "body"
  /\ late' = late \cup {tries}
  /\ NotOk(fetchResponse, "body", body)
  /\ UNCHANGED <<req, tries, statusOf, lateHit>>

(* The onOkResponse that was given up on in try k goes on: the body is      *)
(* there, or is json that does not parse, or breaks.                        *)
LateBody(k) ==
  /\ k \in late
  /\ late' = late \ {k}
  /\ \/ /\ \/ body' = k
           \/ req.responseType = "text" /\ body' = 0
        /\ retryStopped' = TRUE
        /\ lateHit' = (lateHit \/ ~retryStopped)
     \/ /\ body' = k
        /\ req.responseType = "json"
        /\ UNCHANGED <<retryStopped, lateHit>>
     \/ UNCHANGED <<body, retryStopped, lateHit>>
  /\ UNCHANGED <<req, pc, tries, retryAttempt, fetchResponse, ok, err, cause, statusOf>>

\* The body of an error response is there, or is empty, or breaks.
ErrBodyArrives ==
  /\ pc = "errBody"
  /\ \E b \in {tries, 0, body} : NotOk(fetchResponse, "none", b)
  /\ UNCHANGED <<req, tries, late, statusOf, lateHit>>

\* The beforeRetry hooks are through, retryStopped as they leave it.
BeforeRetry ==
  /\ pc = "beforeRetry"
  /\ \E stopped \in BOOLEAN : Decide(stopped)
  /\ UNCHANGED <<req, tries, fetchResponse, ok, err, body, cause, late, statusOf, lateHit>>

\* Mutant: stopped meanwhile, the loop is not left.
DelayOver_Stuck == pc = "delay" /\ ~retryStopped /\ StartTry
\* pDelay is over, and the loop looks at retryStopped again.
DelayOver ==
  /\ pc = "delay"
  /\ \/ /\ ~retryStopped
        /\ StartTry
     \/ /\ retryStopped
        /\ pc' = "after"
        /\ UNCHANGED <<req, tries, retryAttempt, retryStopped, fetchResponse, ok, err,
                       body, cause, late, statusOf, lateHit>>

\* The onError and afterResponse hooks are through, and doFetch returns.
Return ==
  /\ pc = "after"
  /\ pc' = "done"
  /\ UNCHANGED <<req, tries, retryAttempt, retryStopped, fetchResponse, ok, err, body,
                 cause, late, statusOf, lateHit>>

\* A hook throws, and doFetch with it.
HookThrows ==
  /\ pc \in {"start", "beforeRetry", "after"} /\ req.hook
  /\ pc' = "threw"
  /\ UNCHANGED <<req, tries, retryAttempt, retryStopped, fetchResponse, ok, err, body,
                 cause, late, statusOf, lateHit>>

Next ==
  \/ Call \/ RequestTimeout \/ BodyArrives \/ BodyBreaks \/ BodyTimeout
  \/ \E s \in Status : AnswerTaken(s) \/ AnswerNotOk(s)
  \/ \E f \in Failure : FetchFails(f)
  \/ \E k \in Try : LateBody(k)
  \/ ErrBodyArrives \/ BeforeRetry \/ DelayOver \/ Return \/ HookThrows

Spec == Init /\ [][Next]_vars

(* Timers fire, and what hooks await comes.  The server owes nothing.       *)
SilentServerSpec ==
  Spec /\ WF_vars(Call) /\ WF_vars(RequestTimeout) /\ WF_vars(BodyTimeout)
       /\ WF_vars(BeforeRetry) /\ WF_vars(DelayOver) /\ WF_vars(Return)

(* In addition the body of an error response comes, or its connection       *)
(* breaks.                                                                  *)
FairSpec == SilentServerSpec /\ WF_vars(ErrBodyArrives)

-----------------------------------------------------------------------------
Ended == pc \in {"after", "done"}
Reads == req.responseType # "void"

\* Whether the options allow for a request after try k.
Repeatable(k) ==
  /\ req.retryPost \/ ~req.post
  /\ statusOf[k] # "5xx" \/ req.retry5xx
  /\ statusOf[k] # "4xx" \/ req.retry4xx
  /\ statusOf[k] # "3xx" \/ req.retry3xx
  /\ statusOf[k] # "redirect" \/ ~req.throwHttpErrors

(* No request is sent too often, whatever hooks, timeouts and late bodies   *)
(* do to the retry status: count is a bound, and with no hook to overrule   *)
(* it no POST and no answer that the options exclude is followed by another *)
(* request (fetcher.ts:567-616, 659-681).                                   *)
NoUnwantedRepeat ==
  /\ tries <= req.count + 1
  /\ ~req.hook => \A k \in Try : k < tries => Repeatable(k)

(* An error is not given to the caller as long as a retry is allowed for:   *)
(* unless a hook or a late body has stopped the retries, or the options     *)
(* make void responses of all (fetcher.ts:336, 567-616).                    *)
GivesUpOnlyWithReason ==
  Ended /\ err # "none" /\ ~req.hook /\ ~lateHit =>
    \/ retryAttempt = req.count
    \/ ~Repeatable(tries)
    \/ ~Reads /\ ~req.throwHttpErrors

(* ok, err and fetchResponse tell one story, of the last try: what an       *)
(* earlier try left in them is gone, whichever way the last one went.  With *)
(* throwHttpErrors an error is always an HttpRequestError                   *)
(* (fetcher.ts:369-388, 402-414, 543).                                      *)
OutcomeConsistent ==
  Ended =>
    /\ ok => err = "none" /\ fetchResponse = "2xx"
    /\ fetchResponse \in {statusOf[tries], "none"}
    /\ fetchResponse = "none" => err # "none" /\ statusOf[tries] \in Failure
    /\ req.throwHttpErrors => err = IF ok THEN "none" ELSE "HttpRequestError"
    /\ err = "HttpRequestError" /\ cause.of # "response" => cause.try = tries

(* The body of a successful answer never is the body of an error response   *)
(* to an earlier try, although res.body is not reset between tries: every   *)
(* response type that has a body overwrites it (fetcher.ts:440-471, 510).   *)
OkBodyIsNoErrorBody ==
  Ended /\ ok /\ Reads /\ body # 0 /\ req.throwHttpErrors => statusOf[body] = "2xx"

(* Once retryStopped is set, and no hook is there to clear it, it stays so  *)
(* and no further request is sent, also where a late body has set it in the *)
(* middle of a later try, which then fails in a way that may be repeated    *)
(* (fetcher.ts:336, 473, 570-607).                                          *)
StoppedSendsNothing ==
  [][retryStopped /\ ~req.hook => retryStopped' /\ tries' = tries]_vars

(* With a timeout every call is answered, as long as the bodies of error    *)
(* responses come or break (fetcher.ts:336-415).                            *)
EventuallyAnswered == req.timeout ~> pc \in {"done", "threw"}

(* "Timeout applies to both get the response and retrieve the body [...],   *)
(* so both should finish within this single timeout (not each)"             *)
(* (fetcher.model.ts:186-187): a server that falls silent cannot keep a     *)
(* call with a timeout from being answered (SilentServerSpec).              *)
TimeoutCoversTheBody == EventuallyAnswered
=============================================================================
