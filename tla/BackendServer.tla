---------------------------- MODULE BackendServer ---------------------------
(***************************************************************************)
(* backend-lib/src/server: a started BackendServer, the requests that go     *)
(* through createDefaultApp's middlewares to a resource, with their timeouts *)
(* and error handler, and stop().  Time goes in ticks; a timer fires at most *)
(* MaxDelay ticks late.  Every request has a connection of its own, which is *)
(* kept alive until the client leaves or close() finds it idle.              *)
(* External, as used: Express, http.Server, on-finished.                     *)
(***************************************************************************)
EXTENDS Integers

CONSTANTS Request,
          Reason,        \* what stop() is called with
          RequestLimit,  \* the timeout of requestTimeoutMiddleware
          CustomLimit,   \* that of customRequestTimeoutMiddleware
          ForceLimit,    \* cfg.forceShutdownTimeout
          MaxDelay,
          Stopped        \* a timer that does not run

ASSUME BackendServerAssumption ==
  /\ RequestLimit \in Nat /\ CustomLimit \in Nat /\ ForceLimit \in Nat /\ MaxDelay \in Nat
  /\ Stopped \notin Int

VARIABLES stage,     \* how far a request has come: see Stage
          sent,      \* its response: "nothing", "headers" or "finished"
          connection, \* "none", "open" or "closed"
          requestTimers,    \* ticks left, of the timer of each middleware
          requestTimeout, \* req.requestTimeout: whose timer it is
          hooked,    \* cfg.onShutdown is given
          hook,      \* its promise, for each call of stop
          forcing,   \* shutdownTimeout of each call of stop
          exit,      \* "no", or what made process.exit be called
          left,      \* history: requests whose client left before the end
          declined,  \* history: requests that their onTimeout did not answer
          sinceStop  \* history: the age of the first call of stop

serverVars == <<stage, sent, connection, requestTimers, requestTimeout, hooked, hook, forcing, exit,
                left, declined, sinceStop>>
requestVars == <<stage, sent, connection, requestTimers, requestTimeout, left, declined>>
stopVars == <<hooked, hook, forcing, exit, sinceStop>>

Stage == {"absent", "parsing", "routed", "handling", "over"}
Middleware == {"default", "custom"}
Hook == {"none", "running", "resolved", "rejected"}

ServerInit ==
  /\ stage = [r \in Request |-> "absent"]
  /\ sent = [r \in Request |-> "nothing"]
  /\ connection = [r \in Request |-> "none"]
  /\ requestTimers = [r \in Request |-> [m \in Middleware |-> Stopped]]
  /\ requestTimeout = [r \in Request |-> "default"]
  /\ hooked \in BOOLEAN
  /\ hook = [s \in Reason |-> "none"]
  /\ forcing = [s \in Reason |-> Stopped]
  /\ exit = "no"
  /\ left = {}
  /\ declined = {}
  /\ sinceStop = 0

-----------------------------------------------------------------------------
\* Calls of stop with the same reason are one call: stop is memoized.
Stopping == \E s \in Reason : forcing[s] # Stopped

\* What respondWithError, and likewise a response with a status and a body,
\* makes of a response.
Answered(response) == IF response = "nothing" THEN "finished" ELSE response

\* Mutant: the timer of the other middleware goes on.
Timed_Both(r, m, limit) == [requestTimers[r] EXCEPT ![m] = limit]
\* Both middlewares: clear the timer in req.requestTimeout, start one's own.
Timed(r, m, limit) == [requestTimers[r] EXCEPT ![requestTimeout[r]] = Stopped, ![m] = limit]

\* on-finished is about to call the listener that clears the timer.
Clearing(r) == /\ sent[r] = "finished" \/ connection[r] = "closed"
               /\ requestTimers[r][requestTimeout[r]] # Stopped

\* A request reaches requestTimeoutMiddleware.  The timeout in its query is
\* at once if it is zero, negative or no number.
Arrive(r) ==
  /\ exit = "no" /\ ~Stopping /\ stage[r] = "absent"
  /\ stage' = [stage EXCEPT ![r] = "parsing"]
  /\ connection' = [connection EXCEPT ![r] = "open"]
  /\ \E limit \in {0, RequestLimit} :
       requestTimers' = [requestTimers EXCEPT ![r] = Timed(r, "default", limit)]
  /\ requestTimeout' = [requestTimeout EXCEPT ![r] = "default"]
  /\ UNCHANGED <<sent, left, declined, stopVars>>

\* The body has been read: on to the resource, or to genericErrorMiddleware.
Parse(r) ==
  /\ exit = "no" /\ stage[r] = "parsing"
  /\ \/ stage' = [stage EXCEPT ![r] = "routed"] /\ UNCHANGED sent
     \/ /\ stage' = [stage EXCEPT ![r] = "over"]
        /\ sent' = [sent EXCEPT ![r] = Answered(@)]
  /\ UNCHANGED <<connection, requestTimers, requestTimeout, left, declined, stopVars>>

\* The resource's handler is called, by customRequestTimeoutMiddleware if the
\* resource has one.
Route(r) ==
  /\ exit = "no" /\ stage[r] = "routed"
  /\ stage' = [stage EXCEPT ![r] = "handling"]
  /\ \/ UNCHANGED <<requestTimers, requestTimeout>>
     \/ /\ requestTimers' = [requestTimers EXCEPT ![r] = Timed(r, "custom", CustomLimit)]
        /\ requestTimeout' = [requestTimeout EXCEPT ![r] = "custom"]
  /\ UNCHANGED <<sent, connection, left, declined, stopVars>>

\* The handler answers, or fails: if the response has begun already, the
\* error goes no further than to the log.
HandlerAnswers(r) ==
  /\ exit = "no" /\ stage[r] = "handling"
  /\ stage' = [stage EXCEPT ![r] = "over"]
  /\ sent' = [sent EXCEPT ![r] = Answered(@)]
  /\ UNCHANGED <<connection, requestTimers, requestTimeout, left, declined, stopVars>>

\* The handler begins to stream its response.
Begin(r) ==
  /\ exit = "no" /\ stage[r] = "handling" /\ sent[r] = "nothing"
  /\ sent' = [sent EXCEPT ![r] = "headers"]
  /\ UNCHANGED <<stage, connection, requestTimers, requestTimeout, left, declined, stopVars>>

End(r) ==
  /\ exit = "no" /\ stage[r] = "handling" /\ sent[r] = "headers"
  /\ stage' = [stage EXCEPT ![r] = "over"]
  /\ sent' = [sent EXCEPT ![r] = "finished"]
  /\ UNCHANGED <<connection, requestTimers, requestTimeout, left, declined, stopVars>>

\* A request's timer fires.  onTimeout answers, throws (which is answered by
\* genericErrorMiddleware), or does neither.
TimeOut(r, m) ==
  /\ exit = "no" /\ requestTimers[r][m] # Stopped /\ requestTimers[r][m] <= 0
  /\ requestTimers' = [requestTimers EXCEPT ![r][m] = Stopped]
  /\ \/ sent' = [sent EXCEPT ![r] = Answered(@)] /\ UNCHANGED declined
     \/ m = "custom" /\ declined' = declined \cup {r} /\ UNCHANGED sent
  /\ UNCHANGED <<stage, connection, requestTimeout, left, stopVars>>

OnFinished(r) ==
  /\ exit = "no" /\ Clearing(r)
  /\ requestTimers' = [requestTimers EXCEPT ![r][requestTimeout[r]] = Stopped]
  /\ UNCHANGED <<stage, sent, connection, requestTimeout, left, declined, stopVars>>

\* The client closes its connection.
Leave(r) ==
  /\ exit = "no" /\ connection[r] = "open"
  /\ connection' = [connection EXCEPT ![r] = "closed"]
  /\ left' = IF sent[r] = "finished" THEN left ELSE left \cup {r}
  /\ UNCHANGED <<stage, sent, requestTimers, requestTimeout, declined, stopVars>>

-----------------------------------------------------------------------------
\* The connections that server.close() closes.
Idle == {r \in Request : connection[r] = "open" /\ sent[r] = "finished"}

\* Mutant: the calls share one timer, which each of them sets again.
WithTimeout_Shared(s) ==
  [u \in Reason |-> IF u = s \/ forcing[u] # Stopped THEN ForceLimit ELSE Stopped]
\* shutdownTimeout is set.
WithTimeout(s) == [forcing EXCEPT ![s] = ForceLimit]

\* stop(s), up to its await; onShutdown may throw.
Stop(s) ==
  /\ exit = "no" /\ forcing[s] = Stopped
  /\ forcing' = WithTimeout(s)
  /\ connection' = [r \in Request |-> IF r \in Idle THEN "closed" ELSE connection[r]]
  /\ \/ ~hooked /\ UNCHANGED <<hook, exit>>
     \/ hooked /\ hook' = [hook EXCEPT ![s] = "running"] /\ UNCHANGED exit
     \/ hooked /\ hook' = [hook EXCEPT ![s] = "rejected"] /\ exit' = "failed"
  /\ UNCHANGED <<stage, sent, requestTimers, requestTimeout, hooked, left, declined, sinceStop>>

HookResolves(s) ==
  /\ exit = "no" /\ hook[s] = "running"
  /\ hook' = [hook EXCEPT ![s] = "resolved"]
  /\ UNCHANGED <<requestVars, hooked, forcing, exit, sinceStop>>

HookRejects(s) ==
  /\ exit = "no" /\ hook[s] = "running"
  /\ hook' = [hook EXCEPT ![s] = "rejected"]
  /\ exit' = "failed"
  /\ UNCHANGED <<requestVars, hooked, forcing, sinceStop>>

\* Mutant: Promise.race in its place.
Through_First(s) == (\A r \in Request : connection[r] # "open") \/ hook[s] = "resolved"
\* What stop(s) waits for: Promise.all of server.close and onShutdown.
Through(s) == /\ \A r \in Request : connection[r] # "open"
              /\ hook[s] # "running"

Complete(s) ==
  /\ exit = "no" /\ forcing[s] # Stopped /\ Through(s)
  /\ forcing' = [forcing EXCEPT ![s] = Stopped]
  /\ exit' = "completed"
  /\ UNCHANGED <<requestVars, hooked, hook, sinceStop>>

ForceExit(s) ==
  /\ exit = "no" /\ forcing[s] # Stopped /\ forcing[s] <= 0
  /\ forcing' = [forcing EXCEPT ![s] = Stopped]
  /\ exit' = "forced"
  /\ UNCHANGED <<requestVars, hooked, hook, sinceStop>>

-----------------------------------------------------------------------------
Sooner(t) == IF t = Stopped THEN Stopped ELSE t - 1
CanWait(t) == t # Stopped => t > -MaxDelay

\* Time passes, but not over a timer that is due, nor over a listener.
ServerTick ==
  /\ exit = "no"
  /\ \A r \in Request : ~Clearing(r) /\ \A m \in Middleware : CanWait(requestTimers[r][m])
  /\ \A s \in Reason : CanWait(forcing[s])
  /\ requestTimers' = [r \in Request |-> [m \in Middleware |-> Sooner(requestTimers[r][m])]]
  /\ forcing' = [s \in Reason |-> Sooner(forcing[s])]
  /\ sinceStop' = IF Stopping THEN sinceStop + 1 ELSE 0
  /\ UNCHANGED <<stage, sent, connection, requestTimeout, hooked, hook, exit, left, declined>>

ServerNext ==
  \/ \E r \in Request :
       \/ Arrive(r) \/ Parse(r) \/ Route(r) \/ HandlerAnswers(r) \/ Begin(r) \/ End(r)
       \/ (\E m \in Middleware : TimeOut(r, m)) \/ OnFinished(r) \/ Leave(r)
  \/ \E s \in Reason :
       Stop(s) \/ HookResolves(s) \/ HookRejects(s) \/ Complete(s) \/ ForceExit(s)
  \/ ServerTick

ServerSpec == ServerInit /\ [][ServerNext]_serverVars

-----------------------------------------------------------------------------
(* While a client waits for an answer a timer runs that will give one,      *)
(* unless a custom onTimeout has declined to; and only a timer that          *)
(* req.requestTimeout still holds, which the end of the response clears      *)
(* (requestTimeoutMiddleware.ts:45-72, 96-112).                              *)
AnswerIsTimed ==
  \A r \in Request :
    /\ \A m \in Middleware : requestTimers[r][m] # Stopped => m = requestTimeout[r]
    /\ connection[r] = "open" /\ sent[r] = "nothing" /\ r \notin declined =>
         requestTimers[r][requestTimeout[r]] # Stopped

(* A server that was told to stop is gone once forceShutdownTimeout is over, *)
(* whatever becomes of its connections and of onShutdown                     *)
(* (startServer.ts:88-106).                                                  *)
StopsInTime == exit = "no" => sinceStop <= ForceLimit + MaxDelay

(* When the shutdown is reported to be completed every request has its full  *)
(* response, unless its client left; and onShutdown is through, unless stop  *)
(* was called again with another reason, where one call may end the process  *)
(* while the onShutdown of the other is still running (startServer.ts:93-101).*)
CompletedLosesNothing ==
  exit = "completed" =>
    /\ \A r \in Request : stage[r] # "absent" => sent[r] = "finished" \/ r \in left
    /\ \A s \in Reason : hook[s] = "running" => \E u \in Reason \ {s} : hook[u] = "resolved"

=============================================================================
