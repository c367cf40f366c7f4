------------------------------ MODULE TimeProofs ----------------------------
(* What is in time: a debounced function is invoked, an answer is that of   *)
(* the last attempt, a request has a timer and a server stops, for any      *)
(* bounds on waits, attempts and limits, and any lateness of timers; and a  *)
(* date is moved, subtracted and enumerated by the calendar, for any years  *)
(* and any moves.                                                           *)
EXTENDS LocalDate, Debounce, Retry, BackendServer, WellFoundedInduction, TLAPS

-----------------------------------------------------------------------------
(* Debounce                                                                  *)

DebounceType ==
  /\ opt \in Options
  /\ sinceCall \in Age
  /\ sinceInvoke \in Age
  /\ lastArgs \in BOOLEAN
  /\ timers \in [Timer -> Int \cup {NoTimer}]
  /\ timerId \in 0..MaxTimers
  /\ waits \in Age

\* The current timer is running, not overdue, and due when the last call, and
\* the first one not invoked for, have waited long enough.
CurrentIsDue ==
  timerId # 0 =>
    /\ timers[timerId] \in Int
    /\ timers[timerId] >= -MaxLate
    /\ timers[timerId] + sinceCall <= opt.wait
    /\ opt.maxing /\ lastArgs => timers[timerId] + waits <= opt.maxWait

\* A call that was put off has a current timer, and came after func was
\* invoked last.
PutOffIsTimed ==
  /\ lastArgs => timerId # 0 /\ waits <= sinceInvoke
  /\ ~lastArgs => waits = 0

IInv == DebounceType /\ CurrentIsDue /\ PutOffIsTimed

-----------------------------------------------------------------------------
\* The bounds as numbers.
LEMMA Bounds ==
  /\ MaxWait \in Nat /\ MaxWait > 0 /\ MaxLate \in Nat /\ MaxTimers \in Nat /\ MaxTimers > 0
  /\ NoTimer \notin Int
  /\ Old \in Nat /\ Old = MaxWait + MaxLate + 1
  /\ Age = 0..Old /\ Timer = 1..MaxTimers
  /\ 0 \in Age /\ Old \in Age /\ 0 \in 0..MaxTimers
BY DebounceAssumption DEF Old, Age, Timer

LEMMA OptionsBounds ==
  ASSUME NEW o \in Options
  PROVE  /\ o.wait \in Nat /\ o.wait >= 1 /\ o.wait <= MaxWait
         /\ o.maxWait \in Nat /\ o.maxWait >= o.wait /\ o.maxWait <= MaxWait
         /\ o.leading \in BOOLEAN /\ o.trailing \in BOOLEAN /\ o.maxing \in BOOLEAN
BY Bounds DEF Options

\* A timer that was started is the current one, and has the ticks it was given.
LEMMA Started ==
  ASSUME NEW others \in [Timer -> Int \cup {NoTimer}], NEW ticks \in Int,
         StartTimer(others, ticks)
  PROVE  /\ timers' \in [Timer -> Int \cup {NoTimer}]
         /\ timerId' \in Timer /\ timerId' \in 0..MaxTimers /\ timerId' # 0
         /\ timers'[timerId'] = ticks
BY Bounds DEF StartTimer

LEMMA InitEstablishes == DebounceInit => IInv
<1> SUFFICES ASSUME DebounceInit
             PROVE  IInv
  OBVIOUS
<1>1. DebounceType
  BY Bounds DEF DebounceInit, DebounceType
<1>2. CurrentIsDue /\ PutOffIsTimed
  BY DEF DebounceInit, CurrentIsDue, PutOffIsTimed
<1> QED
  BY <1>1, <1>2 DEF IInv

LEMMA OlderIsAge ==
  ASSUME NEW age \in Age
  PROVE  Older(age) \in Age /\ Older(age) <= age + 1 /\ Older(age) >= age
BY Bounds DEF Older

LEMMA OlderKeepsOrder ==
  ASSUME NEW a \in Age, NEW b \in Age, a <= b
  PROVE  Older(a) <= Older(b)
BY Bounds DEF Older

-----------------------------------------------------------------------------
LEMMA DebouncedPreserves ==
  ASSUME IInv, Debounced
  PROVE  IInv'
<1> USE Bounds, OptionsBounds
<1> opt \in Options /\ opt' = opt /\ sinceCall' = 0
  BY DEF IInv, DebounceType, Debounced
<1> DEFINE wait == opt.wait
<1>0. wait \in Nat /\ wait >= 1 /\ wait <= MaxWait /\ opt.maxWait \in Nat /\ opt.maxWait >= wait
  OBVIOUS
<1>1. CASE LeadingEdge
  <2>1. timerId = 0 /\ lastArgs = FALSE /\ waits = 0
    BY <1>1 DEF LeadingEdge, IInv, PutOffIsTimed, DebounceType
  <2>2. StartTimer(timers, wait)
    BY <1>1 DEF LeadingEdge
  <2>3. /\ timers' \in [Timer -> Int \cup {NoTimer}]
        /\ timerId' \in 0..MaxTimers /\ timerId' # 0 /\ timers'[timerId'] = wait
    BY <2>2, <1>0, Started DEF IInv, DebounceType
  <2>4. sinceInvoke' = 0 /\ lastArgs' \in BOOLEAN /\ waits' = 0
    BY <1>1, <2>1 DEF LeadingEdge
  <2> QED
    BY <2>3, <2>4, <1>0 DEF IInv, DebounceType, CurrentIsDue, PutOffIsTimed
<1>2. CASE InvokeInLoop
  <2>1. StartTimer(timers, wait) /\ lastArgs' = FALSE /\ sinceInvoke' = 0 /\ waits' = 0
    BY <1>2 DEF InvokeInLoop, Invoke
  <2>2. /\ timers' \in [Timer -> Int \cup {NoTimer}]
        /\ timerId' \in 0..MaxTimers /\ timerId' # 0 /\ timers'[timerId'] = wait
    BY <2>1, <1>0, Started DEF IInv, DebounceType
  <2>3. DebounceType'
    BY <2>1, <2>2 DEF IInv, DebounceType
  <2>4. CurrentIsDue' /\ PutOffIsTimed'
    BY <2>1, <2>2, <1>0 DEF CurrentIsDue, PutOffIsTimed
  <2> QED
    BY <2>3, <2>4 DEF IInv
<1>3. CASE CallLater
  <2>1. lastArgs' = TRUE /\ sinceInvoke' = sinceInvoke /\ waits' = waits
    BY <1>3 DEF CallLater, PutOff
  <2>2. waits <= sinceInvoke /\ waits \in Age /\ sinceInvoke \in Age
    BY DEF IInv, DebounceType, PutOffIsTimed
  <2>3. CASE timerId = 0
    <3>1. StartTimer(timers, wait) /\ waits = 0
      BY <1>3, <2>3 DEF CallLater, IInv, PutOffIsTimed
    <3>2. /\ timers' \in [Timer -> Int \cup {NoTimer}]
          /\ timerId' \in 0..MaxTimers /\ timerId' # 0 /\ timers'[timerId'] = wait
      BY <3>1, <1>0, Started DEF IInv, DebounceType
    <3> QED
      BY <3>1, <3>2, <2>1, <2>2, <1>0 DEF IInv, DebounceType, CurrentIsDue, PutOffIsTimed
  <2>4. CASE timerId # 0
    <3>1. timers' = timers /\ timerId' = timerId
      BY <1>3, <2>4 DEF CallLater
    <3>2. /\ timers[timerId] \in Int /\ timers[timerId] >= -MaxLate
          /\ timers[timerId] + sinceCall <= wait /\ sinceCall \in Nat
      BY <2>4 DEF IInv, CurrentIsDue, DebounceType
    <3>3. timers[timerId] <= wait
      BY <3>2, <1>0
    <3>4. opt.maxing => timers[timerId] + waits <= opt.maxWait
      <4>1. CASE lastArgs
        BY <4>1, <2>4 DEF IInv, CurrentIsDue
      <4>2. CASE ~lastArgs
        <5>1. waits = 0
          BY <4>2 DEF IInv, PutOffIsTimed
        <5> QED
          BY <5>1, <3>2, <3>3, <1>0
      <4> QED
        BY <4>1, <4>2
    <3>5. CurrentIsDue'
      BY <3>1, <3>2, <3>3, <3>4, <2>1 DEF CurrentIsDue
    <3>6. PutOffIsTimed' /\ DebounceType'
      BY <3>1, <2>1, <2>2, <2>4 DEF PutOffIsTimed, DebounceType, IInv
    <3> QED
      BY <3>5, <3>6 DEF IInv
  <2> QED
    BY <2>3, <2>4
<1> QED
  BY <1>1, <1>2, <1>3 DEF Debounced

LEMMA TimerExpiredPreserves ==
  ASSUME IInv, NEW t \in Timer, TimerExpired(t)
  PROVE  IInv'
<1> USE Bounds, OptionsBounds
<1> DEFINE others == [timers EXCEPT ![t] = NoTimer]
<1>0. /\ opt \in Options /\ opt' = opt /\ sinceCall' = sinceCall
      /\ sinceCall \in Nat /\ sinceInvoke \in Nat /\ waits \in Nat
      /\ opt.wait \in Nat /\ opt.maxWait \in Nat
      /\ others \in [Timer -> Int \cup {NoTimer}]
  BY DEF IInv, DebounceType, TimerExpired
<1>1. CASE ShouldInvoke /\ TrailingEdge /\ timers' = others
  <2>1. timerId' = 0 /\ lastArgs' = FALSE /\ waits' = 0 /\ sinceInvoke' \in {0, sinceInvoke}
    BY <1>1 DEF TrailingEdge, Invoke
  <2>2. DebounceType'
    BY <1>1, <2>1, <1>0 DEF IInv, DebounceType
  <2>3. CurrentIsDue' /\ PutOffIsTimed'
    BY <2>1 DEF CurrentIsDue, PutOffIsTimed
  <2> QED
    BY <2>2, <2>3 DEF IInv
<1>2. CASE /\ ~ShouldInvoke
           /\ StartTimer(others, RemainingWait)
           /\ UNCHANGED <<lastArgs, sinceInvoke, waits>>
  <2>1. sinceCall < opt.wait /\ (opt.maxing => sinceInvoke < opt.maxWait)
    BY <1>2, <1>0 DEF ShouldInvoke
  <2>2. /\ RemainingWait \in Int /\ RemainingWait >= 0
        /\ RemainingWait + sinceCall <= opt.wait
        /\ opt.maxing => RemainingWait + sinceInvoke <= opt.maxWait
    BY <2>1, <1>0 DEF RemainingWait
  <2> HIDE DEF others
  <2>3. /\ timers' \in [Timer -> Int \cup {NoTimer}]
        /\ timerId' \in 0..MaxTimers /\ timerId' # 0 /\ timers'[timerId'] = RemainingWait
    BY <2>2, <1>2, <1>0, Started
  <2>4. lastArgs => waits <= sinceInvoke
    BY DEF IInv, PutOffIsTimed
  <2>5. CurrentIsDue'
    BY <1>2, <2>2, <2>3, <2>4, <1>0 DEF CurrentIsDue
  <2> QED
    BY <1>2, <2>3, <2>5, <1>0 DEF IInv, DebounceType, PutOffIsTimed
<1> QED
  BY <1>1, <1>2 DEF TimerExpired

LEMMA TickPreserves ==
  ASSUME IInv, Tick
  PROVE  IInv'
<1> USE Bounds
<1>1. /\ opt' = opt /\ lastArgs' = lastArgs /\ timerId' = timerId
      /\ sinceCall' = Older(sinceCall) /\ sinceInvoke' = Older(sinceInvoke)
      /\ sinceCall \in Age /\ sinceInvoke \in Age /\ waits \in Age
      /\ waits' = IF lastArgs THEN Older(waits) ELSE 0
      /\ opt \in Options /\ timerId \in 0..MaxTimers /\ lastArgs \in BOOLEAN
  BY DEF Tick, IInv, DebounceType
<1>2. timers' \in [Timer -> Int \cup {NoTimer}]
  BY DEF Tick, IInv, DebounceType
<1>3. /\ sinceCall' \in Age /\ sinceCall' <= sinceCall + 1
      /\ sinceInvoke' \in Age /\ waits' \in Age
      /\ lastArgs => waits' <= waits + 1
  <2>1. Older(waits) \in Age /\ Older(waits) <= waits + 1
    BY <1>1, OlderIsAge
  <2>2. sinceCall' \in Age /\ sinceCall' <= sinceCall + 1 /\ sinceInvoke' \in Age
    BY <1>1, OlderIsAge
  <2>3. CASE lastArgs
    BY <2>1, <2>2, <2>3, <1>1
  <2>4. CASE ~lastArgs
    BY <2>2, <2>4, <1>1
  <2> QED
    BY <2>3, <2>4
<1>4. DebounceType'
  BY <1>1, <1>2, <1>3 DEF DebounceType
<1>5. PutOffIsTimed'
  <2>1. CASE lastArgs
    <3>1. waits <= sinceInvoke /\ timerId # 0
      BY <2>1 DEF IInv, PutOffIsTimed
    <3> QED
      BY <3>1, <2>1, <1>1, OlderKeepsOrder DEF PutOffIsTimed
  <2>2. CASE ~lastArgs
    BY <2>2, <1>1 DEF PutOffIsTimed
  <2> QED
    BY <2>1, <2>2
<1>6. CurrentIsDue'
  <2> SUFFICES ASSUME timerId # 0
               PROVE  CurrentIsDue'
    BY <1>1 DEF CurrentIsDue
  <2>1. timerId \in Timer
    BY <1>1
  <2>2. /\ timers[timerId] \in Int /\ timers[timerId] + sinceCall <= opt.wait
        /\ opt.maxing /\ lastArgs => timers[timerId] + waits <= opt.maxWait
    BY DEF IInv, CurrentIsDue
  <2>3. timers[timerId] > -MaxLate /\ timers'[timerId'] = timers[timerId] - 1
    BY <2>1, <2>2, <1>1 DEF Tick
  <2>4. opt.wait \in Nat /\ opt.maxWait \in Nat
    BY <1>1, OptionsBounds
  <2>5. sinceCall \in Int /\ sinceCall' \in Int /\ waits \in Int /\ waits' \in Int
    BY <1>1, <1>3
  <2>6. timers'[timerId'] \in Int /\ timers'[timerId'] >= -MaxLate
    BY <2>2, <2>3
  <2>7. timers'[timerId'] + sinceCall' <= opt.wait
    BY <1>3, <2>2, <2>3, <2>4, <2>5
  <2>8. opt.maxing /\ lastArgs => timers'[timerId'] + waits' <= opt.maxWait
    BY <1>3, <2>2, <2>3, <2>4, <2>5
  <2> QED
    BY <1>1, <2>6, <2>7, <2>8 DEF CurrentIsDue
<1> QED
  BY <1>4, <1>5, <1>6 DEF IInv

\* flush() and cancel() leave no current timer and nothing put off.
LEMMA EndPreserves ==
  ASSUME IInv, Flush \/ Cancel
  PROVE  IInv'
<1> USE Bounds
<1>1. timerId' = 0 /\ lastArgs' = FALSE /\ waits' = 0 /\ opt' = opt
  BY DEF Flush, Cancel, TrailingEdge, Invoke
<1>2. sinceCall' \in Age /\ sinceInvoke' \in Age
  BY DEF Flush, Cancel, TrailingEdge, Invoke, IInv, DebounceType
<1>3. timers' \in [Timer -> Int \cup {NoTimer}]
  <2>1. CASE Flush
    BY <2>1 DEF Flush, IInv, DebounceType
  <2>2. CASE Cancel
    <3>1. timerId = 0 \/ timerId \in Timer
      BY DEF IInv, DebounceType
    <3> QED
      BY <2>2, <3>1 DEF Cancel, IInv, DebounceType
  <2> QED
    BY <2>1, <2>2
<1>4. DebounceType'
  BY <1>1, <1>2, <1>3 DEF IInv, DebounceType
<1>5. CurrentIsDue' /\ PutOffIsTimed'
  BY <1>1 DEF CurrentIsDue, PutOffIsTimed
<1> QED
  BY <1>4, <1>5 DEF IInv

LEMMA StepPreserves == IInv /\ [DebounceNext]_debounceVars => IInv'
<1> SUFFICES ASSUME IInv, [DebounceNext]_debounceVars
             PROVE  IInv'
  OBVIOUS
<1>1. CASE UNCHANGED debounceVars
  BY <1>1 DEF debounceVars, IInv, DebounceType, CurrentIsDue, PutOffIsTimed
<1>2. CASE DebounceNext
  BY <1>2, DebouncedPreserves, TimerExpiredPreserves, TickPreserves, EndPreserves DEF DebounceNext
<1> QED
  BY <1>1, <1>2

LEMMA InTime == IInv => InvokedInTime
<1> SUFFICES ASSUME IInv, lastArgs, opt.trailing
             PROVE  /\ sinceCall <= opt.wait + MaxLate
                    /\ opt.maxing => waits <= opt.maxWait + MaxLate
  BY DEF InvokedInTime
<1>1. timerId # 0
  BY DEF IInv, PutOffIsTimed
<1>2. /\ timers[timerId] \in Int /\ timers[timerId] >= -MaxLate
      /\ timers[timerId] + sinceCall <= opt.wait
      /\ opt.maxing => timers[timerId] + waits <= opt.maxWait
  BY <1>1 DEF IInv, CurrentIsDue
<1>3. sinceCall \in Int /\ waits \in Int /\ opt.wait \in Int /\ opt.maxWait \in Int
  BY Bounds, OptionsBounds DEF IInv, DebounceType
<1> QED
  BY <1>2, <1>3, Bounds

(* _debounce and _throttle never forget a call they have put off: func is   *)
(* invoked within wait of the last call, and within maxWait of the first,   *)
(* up to the lateness of one timer, whichever timers are left running.      *)
THEOREM AlwaysInvokedInTime == DebounceSpec => []InvokedInTime
<1>1. DebounceSpec => []IInv
  BY InitEstablishes, StepPreserves, PTL DEF DebounceSpec
<1> QED
  BY <1>1, InTime, PTL

-----------------------------------------------------------------------------
(* Retry                                                                     *)

RetryTypes ==
  /\ retry \in RetryOptions
  /\ rpc \in {"retrying", "trying", "resolved", "rejected"}
  /\ attempt \in 0..MaxAttempts
  /\ fn \in [Attempt -> {"none", "running", "resolved", "rejected"}]
  /\ expired \subseteq 1..attempt
  /\ attempt = 0 => rpc = "retrying"

\* The attempt that is awaited has neither settled nor timed out; the one
\* before a delay has failed, and was not the last.
Awaited ==
  /\ rpc = "trying" => fn[attempt] = "running" /\ attempt \notin expired
  /\ rpc = "retrying" /\ attempt # 0 =>
       attempt < retry.maxAttempts /\ (fn[attempt] = "rejected" \/ attempt \in expired)

RetryInv == RetryTypes /\ Awaited /\ AnswerIsOfLastAttempt

LEMMA RetryInitEstablishes == RetryInit => RetryInv
BY RetryAssumption DEF RetryInit, RetryInv, RetryTypes, Awaited, AnswerIsOfLastAttempt, Attempt

LEMMA RetryStepPreserves == RetryInv /\ [RetryNext]_retryVars => RetryInv'
<1> SUFFICES ASSUME RetryInv, [RetryNext]_retryVars
             PROVE  RetryInv'
  OBVIOUS
<1> USE RetryAssumption DEF RetryInv
<1>0. retry.maxAttempts \in 0..MaxAttempts
  <2>1. retry \in RetryOptions
    BY DEF RetryTypes
  <2>2. CASE retry \in [maxAttempts : 0..MaxAttempts, predicate : BOOLEAN, timeout : BOOLEAN,
                        onTimeout : {"none"}]
    BY <2>2
  <2>3. CASE retry \in [maxAttempts : {1}, predicate : {FALSE}, timeout : BOOLEAN,
                        onTimeout : {"none", "returns", "throws"}]
    BY <2>3
  <2> QED
    BY <2>1, <2>2, <2>3 DEF RetryOptions
<1>1. CASE Try
  <2>1. attempt + 1 \in Attempt /\ (attempt # 0 => attempt < retry.maxAttempts)
    BY <1>0, <1>1 DEF Try, RetryTypes, Awaited, Attempt
  <2>2. RetryTypes' /\ Awaited'
    BY <1>1, <2>1 DEF Try, RetryTypes, Awaited, Attempt
  <2>3. AnswerIsOfLastAttempt'
    BY <1>0, <1>1, <2>1 DEF Try, RetryTypes, Awaited, Attempt, AnswerIsOfLastAttempt
  <2> QED
    BY <2>2, <2>3
<1>2. CASE TimesOut
  <2>1. RetryTypes' /\ Awaited'
    BY <1>0, <1>2 DEF TimesOut, Failed, RetryTypes, Awaited, Attempt
  <2>2. AnswerIsOfLastAttempt'
    BY <1>0, <1>2 DEF TimesOut, Failed, RetryTypes, Awaited, Attempt, AnswerIsOfLastAttempt
  <2> QED
    BY <2>1, <2>2
<1>3. ASSUME NEW a \in Attempt, Resolves(a)
      PROVE  RetryInv'
  <2>1. RetryTypes' /\ Awaited'
    BY <1>3 DEF Resolves, IsAwaited, RetryTypes, Awaited, Attempt
  <2>2. AnswerIsOfLastAttempt'
    BY <1>3 DEF Resolves, IsAwaited, RetryTypes, Awaited, Attempt, AnswerIsOfLastAttempt
  <2> QED
    BY <2>1, <2>2
<1>4. ASSUME NEW a \in Attempt, Rejects(a)
      PROVE  RetryInv'
  <2>1. RetryTypes' /\ Awaited'
    BY <1>0, <1>4 DEF Rejects, IsAwaited, Failed, RetryTypes, Awaited, Attempt
  <2>2. AnswerIsOfLastAttempt'
    BY <1>0, <1>4 DEF Rejects, IsAwaited, Failed, RetryTypes, Awaited, Attempt,
       AnswerIsOfLastAttempt
  <2> QED
    BY <2>1, <2>2
<1>5. CASE UNCHANGED retryVars
  BY <1>5 DEF retryVars, RetryTypes, Awaited, AnswerIsOfLastAttempt, Attempt
<1> QED
  BY <1>1, <1>2, <1>3, <1>4, <1>5 DEF RetryNext

(* The answer of pRetry is that of its last attempt, for any bound on the   *)
(* attempts, whatever attempts that timed out do later.                     *)
THEOREM AlwaysOfLastAttempt == RetrySpec => []AnswerIsOfLastAttempt
<1>1. RetryInv => AnswerIsOfLastAttempt
  BY DEF RetryInv
<1> QED
  BY <1>1, RetryInitEstablishes, RetryStepPreserves, PTL DEF RetrySpec

-----------------------------------------------------------------------------
(* BackendServer                                                             *)

ServerTypes ==
  /\ sent \in [Request -> {"nothing", "headers", "finished"}]
  /\ stage \in [Request -> Stage]
  /\ connection \in [Request -> {"none", "open", "closed"}]
  /\ requestTimers \in [Request -> [Middleware -> Int \cup {Stopped}]]
  /\ requestTimeout \in [Request -> Middleware]
  /\ hook \in [Reason -> Hook]
  /\ forcing \in [Reason -> Int \cup {Stopped}]
  /\ sinceStop \in Nat

\* A connection is closed only after the full response, or by its client.
ClosedIsOver ==
  \A r \in Request :
    /\ connection[r] = "none" <=> stage[r] = "absent"
    /\ connection[r] = "closed" => sent[r] = "finished" \/ r \in left

\* A call of stop is under way with its timer and, if there is one, its
\* onShutdown.
HooksCalled ==
  /\ \A s \in Reason : hook[s] # "none" => hooked
  /\ exit = "no" => \A s \in Reason :
       hook[s] # "rejected" /\ (hooked /\ forcing[s] # Stopped => hook[s] # "none")

\* The timer of the first call of stop.
FirstIsForcing ==
  exit = "no" =>
    /\ \A s \in Reason : forcing[s] # Stopped => forcing[s] >= -MaxDelay
    /\ Stopping => \E s \in Reason : forcing[s] # Stopped /\ forcing[s] + sinceStop <= ForceLimit
    /\ ~Stopping => sinceStop = 0

ServerInv == ServerTypes /\ ClosedIsOver /\ HooksCalled /\ FirstIsForcing
             /\ AnswerIsTimed /\ CompletedLosesNothing

LEMMA ServerInitEstablishes == ServerInit => ServerInv
<1> USE BackendServerAssumption
<1> SUFFICES ASSUME ServerInit
             PROVE  ServerInv
  OBVIOUS
<1>1. ServerTypes
  BY DEF ServerInit, ServerTypes, Stage, Middleware, Hook
<1>2. ClosedIsOver /\ HooksCalled /\ FirstIsForcing /\ CompletedLosesNothing
  BY DEF ServerInit, ClosedIsOver, HooksCalled, FirstIsForcing, Stopping, CompletedLosesNothing
<1>3. AnswerIsTimed
  BY DEF ServerInit, AnswerIsTimed, Middleware
<1> QED
  BY <1>1, <1>2, <1>3 DEF ServerInv

\* The steps of a request, which leave stop alone and keep a connection open
\* but for its client.
LEMMA RequestStepKeeps ==
  ASSUME ServerInv, NEW r \in Request, exit = "no", UNCHANGED stopVars,
         ServerTypes', ClosedIsOver', AnswerIsTimed'
  PROVE  ServerInv'
BY DEF ServerInv, stopVars, HooksCalled, FirstIsForcing, Stopping, CompletedLosesNothing

LEMMA TimedStarts ==
  ASSUME ServerInv, NEW r \in Request, NEW m \in Middleware, NEW limit \in Int
  PROVE  /\ Timed(r, m, limit) \in [Middleware -> Int \cup {Stopped}]
         /\ Timed(r, m, limit)[m] = limit
         /\ \A n \in Middleware \ {m} : Timed(r, m, limit)[n] = Stopped
BY DEF ServerInv, ServerTypes, AnswerIsTimed, Timed, Middleware

LEMMA ArrivePreserves ==
  ASSUME ServerInv, NEW r \in Request, Arrive(r)
  PROVE  ServerInv'
<1> USE BackendServerAssumption
<1>1. PICK limit \in {0, RequestLimit} :
        requestTimers' = [requestTimers EXCEPT ![r] = Timed(r, "default", limit)]
  BY DEF Arrive
<1>2. limit \in Int /\ limit # Stopped /\ "default" \in Middleware
  BY <1>1 DEF Middleware
<1>3. /\ Timed(r, "default", limit) \in [Middleware -> Int \cup {Stopped}]
      /\ Timed(r, "default", limit)["default"] = limit
      /\ \A n \in Middleware \ {"default"} : Timed(r, "default", limit)[n] = Stopped
  BY <1>2, TimedStarts
<1>4. ServerTypes'
  BY <1>1, <1>2, <1>3 DEF Arrive, ServerInv, ServerTypes, Stage, stopVars
<1>5. ClosedIsOver'
  BY DEF Arrive, ServerInv, ServerTypes, ClosedIsOver
<1>6. AnswerIsTimed'
  BY <1>1, <1>2, <1>3 DEF Arrive, ServerInv, ServerTypes, AnswerIsTimed
<1> QED
  BY <1>4, <1>5, <1>6, RequestStepKeeps DEF Arrive

LEMMA RoutePreserves ==
  ASSUME ServerInv, NEW r \in Request, Route(r)
  PROVE  ServerInv'
<1> USE BackendServerAssumption
<1> DEFINE next == Timed(r, "custom", CustomLimit)
<1>1. CustomLimit \in Int /\ CustomLimit # Stopped /\ "custom" \in Middleware
  BY DEF Middleware
<1>2. /\ next \in [Middleware -> Int \cup {Stopped}]
      /\ next["custom"] = CustomLimit
      /\ \A n \in Middleware \ {"custom"} : next[n] = Stopped
  BY <1>1, TimedStarts
<1>3. /\ stage' = [stage EXCEPT ![r] = "handling"] /\ stage[r] = "routed" /\ exit = "no"
      /\ UNCHANGED <<sent, connection, left, declined, stopVars>>
  BY DEF Route
<1>4. ClosedIsOver'
  BY <1>3 DEF ServerInv, ServerTypes, ClosedIsOver
<1>5. CASE UNCHANGED <<requestTimers, requestTimeout>>
  <2>1. ServerTypes' /\ AnswerIsTimed'
    BY <1>3, <1>5 DEF ServerInv, ServerTypes, Stage, stopVars, AnswerIsTimed
  <2> QED
    BY <1>3, <1>4, <2>1, RequestStepKeeps
<1>6. CASE /\ requestTimers' = [requestTimers EXCEPT ![r] = next]
           /\ requestTimeout' = [requestTimeout EXCEPT ![r] = "custom"]
  <2> HIDE DEF next
  <2>1. ServerTypes'
    BY <1>1, <1>2, <1>3, <1>6 DEF ServerInv, ServerTypes, Stage, stopVars
  <2>2. AnswerIsTimed'
    BY <1>1, <1>2, <1>3, <1>6 DEF ServerInv, ServerTypes, AnswerIsTimed
  <2> QED
    BY <1>3, <1>4, <2>1, <2>2, RequestStepKeeps
<1> QED
  BY <1>5, <1>6 DEF Route

\* The handler and the parser change the response, and leave the timer.
LEMMA HandlerPreserves ==
  ASSUME ServerInv, NEW r \in Request,
         Parse(r) \/ HandlerAnswers(r) \/ Begin(r) \/ End(r)
  PROVE  ServerInv'
<1>1. ServerTypes'
  BY DEF Parse, HandlerAnswers, Begin, End, Answered, ServerInv, ServerTypes, Stage, stopVars
<1>2. ClosedIsOver'
  BY DEF Parse, HandlerAnswers, Begin, End, Answered, ServerInv, ServerTypes, ClosedIsOver
<1>3. AnswerIsTimed'
  BY DEF Parse, HandlerAnswers, Begin, End, Answered, ServerInv, ServerTypes, AnswerIsTimed
<1> QED
  BY <1>1, <1>2, <1>3, RequestStepKeeps DEF Parse, HandlerAnswers, Begin, End

LEMMA TimeOutPreserves ==
  ASSUME ServerInv, NEW r \in Request, NEW m \in Middleware, TimeOut(r, m)
  PROVE  ServerInv'
<1>1. ServerTypes'
  BY DEF TimeOut, Answered, ServerInv, ServerTypes, stopVars
<1>2. ClosedIsOver'
  BY DEF TimeOut, Answered, ServerInv, ServerTypes, ClosedIsOver
<1>3. AnswerIsTimed'
  BY DEF TimeOut, Answered, ServerInv, ServerTypes, AnswerIsTimed
<1> QED
  BY <1>1, <1>2, <1>3, RequestStepKeeps DEF TimeOut

LEMMA ClientPreserves ==
  ASSUME ServerInv, NEW r \in Request, OnFinished(r) \/ Leave(r)
  PROVE  ServerInv'
<1>1. ServerTypes'
  <2>1. requestTimeout[r] \in Middleware
        /\ [requestTimers[r] EXCEPT ![requestTimeout[r]] = Stopped]
             \in [Middleware -> Int \cup {Stopped}]
    BY DEF ServerInv, ServerTypes
  <2>2. CASE OnFinished(r)
    BY <2>1, <2>2 DEF OnFinished, ServerInv, ServerTypes, stopVars
  <2>3. CASE Leave(r)
    BY <2>3 DEF Leave, ServerInv, ServerTypes, stopVars
  <2> QED
    BY <2>2, <2>3
<1>2. ClosedIsOver'
  BY DEF OnFinished, Leave, ServerInv, ServerTypes, ClosedIsOver
<1>3. AnswerIsTimed'
  BY DEF OnFinished, Clearing, Leave, ServerInv, ServerTypes, AnswerIsTimed
<1> QED
  BY <1>1, <1>2, <1>3, RequestStepKeeps DEF OnFinished, Leave

LEMMA StopPreserves ==
  ASSUME ServerInv, NEW s \in Reason, Stop(s)
  PROVE  ServerInv'
<1> USE BackendServerAssumption
<1>1. ServerTypes'
  BY DEF Stop, WithTimeout, Idle, Hook, ServerInv, ServerTypes
<1>2. ClosedIsOver' /\ AnswerIsTimed'
  BY DEF Stop, Idle, ServerInv, ServerTypes, ClosedIsOver, AnswerIsTimed
<1>3. HooksCalled'
  BY DEF Stop, WithTimeout, ServerInv, ServerTypes, HooksCalled
<1>4. FirstIsForcing'
  <2>1. /\ forcing' = [forcing EXCEPT ![s] = ForceLimit] /\ sinceStop' = sinceStop
        /\ exit = "no" /\ forcing[s] = Stopped
    BY DEF Stop, WithTimeout
  <2>2. \A u \in Reason : forcing'[u] # Stopped => forcing'[u] >= -MaxDelay
    BY <2>1 DEF ServerInv, ServerTypes, FirstIsForcing
  <2>3. \E u \in Reason : forcing'[u] # Stopped /\ forcing'[u] + sinceStop' <= ForceLimit
    <3>1. CASE Stopping
      BY <2>1, <3>1 DEF ServerInv, ServerTypes, FirstIsForcing
    <3>2. CASE ~Stopping
      BY <2>1, <3>2 DEF ServerInv, ServerTypes, FirstIsForcing
    <3> QED
      BY <3>1, <3>2
  <2>4. Stopping'
    BY <2>1 DEF Stopping, ServerInv, ServerTypes
  <2> QED
    BY <2>2, <2>3, <2>4 DEF FirstIsForcing
<1>5. CompletedLosesNothing'
  BY DEF Stop, CompletedLosesNothing
<1> QED
  BY <1>1, <1>2, <1>3, <1>4, <1>5 DEF ServerInv

LEMMA HookPreserves ==
  ASSUME ServerInv, NEW s \in Reason, HookResolves(s) \/ HookRejects(s)
  PROVE  ServerInv'
<1>1. ServerTypes' /\ HooksCalled'
  BY DEF HookResolves, HookRejects, requestVars, Hook, ServerInv, ServerTypes, HooksCalled
<1>2. ClosedIsOver' /\ AnswerIsTimed'
  BY DEF HookResolves, HookRejects, requestVars, ServerInv, ClosedIsOver, AnswerIsTimed
<1>3. FirstIsForcing' /\ CompletedLosesNothing'
  BY DEF HookResolves, HookRejects, requestVars, ServerInv, FirstIsForcing, Stopping,
     CompletedLosesNothing
<1> QED
  BY <1>1, <1>2, <1>3 DEF ServerInv

LEMMA ExitPreserves ==
  ASSUME ServerInv, NEW s \in Reason, Complete(s) \/ ForceExit(s)
  PROVE  ServerInv'
<1>1. ServerTypes' /\ HooksCalled'
  BY DEF Complete, ForceExit, requestVars, ServerInv, ServerTypes, HooksCalled
<1>2. ClosedIsOver' /\ AnswerIsTimed'
  BY DEF Complete, ForceExit, requestVars, ServerInv, ClosedIsOver, AnswerIsTimed
<1>3. FirstIsForcing'
  BY DEF Complete, ForceExit, FirstIsForcing
<1>4. CASE ForceExit(s)
  BY <1>1, <1>2, <1>3, <1>4 DEF ForceExit, CompletedLosesNothing, ServerInv
<1>5. CASE Complete(s)
  <2>1. \A r \in Request : stage[r] # "absent" => sent[r] = "finished" \/ r \in left
    BY <1>5 DEF Complete, Through, ServerInv, ServerTypes, ClosedIsOver
  <2>2. \A u \in Reason : hook[u] = "running" => u # s /\ hook[s] = "resolved"
    BY <1>5 DEF Complete, Through, ServerInv, ServerTypes, Hook, HooksCalled
  <2>3. CompletedLosesNothing'
    BY <1>5, <2>1, <2>2 DEF Complete, requestVars, CompletedLosesNothing
  <2> QED
    BY <1>1, <1>2, <1>3, <2>3 DEF ServerInv
<1> QED
  BY <1>4, <1>5

LEMMA ServerTickPreserves == ServerInv /\ ServerTick => ServerInv'
<1> SUFFICES ASSUME ServerInv, ServerTick
             PROVE  ServerInv'
  OBVIOUS
<1> USE BackendServerAssumption
<1>1. /\ requestTimers' = [r \in Request |-> [m \in Middleware |-> Sooner(requestTimers[r][m])]]
      /\ forcing' = [s \in Reason |-> Sooner(forcing[s])]
      /\ sinceStop' = IF Stopping THEN sinceStop + 1 ELSE 0
      /\ \A s \in Reason : CanWait(forcing[s])
      /\ exit = "no"
      /\ UNCHANGED <<stage, sent, connection, requestTimeout, hooked, hook, exit, left, declined>>
  BY DEF ServerTick
<1>2. ASSUME NEW t \in Int \cup {Stopped}
      PROVE  /\ Sooner(t) \in Int \cup {Stopped}
             /\ Sooner(t) = Stopped <=> t = Stopped
             /\ t # Stopped => Sooner(t) = t - 1
  <2>1. CASE t = Stopped
    BY <2>1 DEF Sooner
  <2>2. CASE t # Stopped
    <3>1. t \in Int /\ Sooner(t) = t - 1
      BY <2>2 DEF Sooner
    <3>2. t - 1 \in Int
      BY <3>1
    <3>3. t - 1 # Stopped
      BY <3>2
    <3> QED
      BY <2>2, <3>1, <3>2, <3>3
  <2> QED
    BY <2>1, <2>2
<1>3. ServerTypes'
  <2>1. \A r \in Request, m \in Middleware : Sooner(requestTimers[r][m]) \in Int \cup {Stopped}
    BY <1>2 DEF ServerInv, ServerTypes
  <2>2. \A s \in Reason : Sooner(forcing[s]) \in Int \cup {Stopped}
    BY <1>2 DEF ServerInv, ServerTypes
  <2>3. sinceStop' \in Nat
    BY <1>1 DEF ServerInv, ServerTypes
  <2> QED
    BY <1>1, <2>1, <2>2, <2>3 DEF ServerInv, ServerTypes
<1>4. ClosedIsOver' /\ CompletedLosesNothing'
  BY <1>1 DEF ServerInv, ClosedIsOver, CompletedLosesNothing
<1>5. HooksCalled'
  BY <1>1, <1>2 DEF ServerInv, ServerTypes, HooksCalled
<1>6. AnswerIsTimed'
  <2>1. \A r \in Request, m \in Middleware :
          /\ requestTimers'[r][m] = Sooner(requestTimers[r][m])
          /\ requestTimers[r][m] \in Int \cup {Stopped}
    BY <1>1 DEF ServerInv, ServerTypes
  <2>2. \A r \in Request, m \in Middleware :
          requestTimers'[r][m] = Stopped <=> requestTimers[r][m] = Stopped
    BY <1>2, <2>1
  <2> QED
    BY <1>1, <2>2 DEF ServerInv, ServerTypes, AnswerIsTimed
<1>7. FirstIsForcing'
  <2>1. \A s \in Reason : forcing[s] \in Int \cup {Stopped} /\ forcing'[s] = Sooner(forcing[s])
    BY <1>1 DEF ServerInv, ServerTypes
  <2>2. Stopping' <=> Stopping
    BY <1>2, <2>1 DEF Stopping
  <2>3. \A s \in Reason : forcing'[s] # Stopped => forcing'[s] >= -MaxDelay
    <3> SUFFICES ASSUME NEW s \in Reason, forcing'[s] # Stopped
                 PROVE  forcing'[s] >= -MaxDelay
      OBVIOUS
    <3>1. forcing[s] # Stopped /\ forcing[s] \in Int /\ forcing'[s] = forcing[s] - 1
      BY <1>2, <2>1
    <3>2. forcing[s] > -MaxDelay
      BY <1>1, <3>1 DEF CanWait
    <3> QED
      BY <3>1, <3>2
  <2>4. ASSUME Stopping
        PROVE  \E s \in Reason : forcing'[s] # Stopped /\ forcing'[s] + sinceStop' <= ForceLimit
    <3>1. PICK s \in Reason : forcing[s] # Stopped /\ forcing[s] + sinceStop <= ForceLimit
      BY <1>1, <2>4 DEF ServerInv, FirstIsForcing
    <3>2. forcing'[s] = forcing[s] - 1 /\ forcing'[s] # Stopped /\ sinceStop' = sinceStop + 1
      BY <1>1, <1>2, <2>1, <2>4, <3>1
    <3> QED
      BY <2>1, <3>1, <3>2 DEF ServerInv, ServerTypes
  <2> QED
    BY <1>1, <2>2, <2>3, <2>4 DEF FirstIsForcing
<1> QED
  BY <1>3, <1>4, <1>5, <1>6, <1>7 DEF ServerInv

LEMMA ServerStepPreserves == ServerInv /\ [ServerNext]_serverVars => ServerInv'
<1> SUFFICES ASSUME ServerInv, [ServerNext]_serverVars
             PROVE  ServerInv'
  OBVIOUS
<1>1. ASSUME NEW r \in Request,
             \/ Arrive(r) \/ Parse(r) \/ Route(r) \/ HandlerAnswers(r) \/ Begin(r) \/ End(r)
             \/ (\E m \in Middleware : TimeOut(r, m)) \/ OnFinished(r) \/ Leave(r)
      PROVE  ServerInv'
  BY <1>1, ArrivePreserves, RoutePreserves, HandlerPreserves, TimeOutPreserves, ClientPreserves
<1>2. ASSUME NEW s \in Reason,
             Stop(s) \/ HookResolves(s) \/ HookRejects(s) \/ Complete(s) \/ ForceExit(s)
      PROVE  ServerInv'
  BY <1>2, StopPreserves, HookPreserves, ExitPreserves
<1>3. CASE UNCHANGED serverVars
  BY <1>3 DEF serverVars, ServerInv, ServerTypes, ClosedIsOver, HooksCalled, FirstIsForcing,
     Stopping, AnswerIsTimed, CompletedLosesNothing
<1> QED
  BY <1>1, <1>2, <1>3, ServerTickPreserves DEF ServerNext

LEMMA AlwaysServerInv == ServerSpec => []ServerInv
BY ServerInitEstablishes, ServerStepPreserves, PTL DEF ServerSpec

(* For any requests and limits: a waiting client has a timer running that   *)
(* will answer it, and every timer that runs can be cleared.                *)
THEOREM AlwaysAnswerIsTimed == ServerSpec => []AnswerIsTimed
BY AlwaysServerInv, PTL DEF ServerInv

(* A server that was told to stop is gone in time, however often and in     *)
(* whatever state it was told to.                                           *)
THEOREM AlwaysStopsInTime == ServerSpec => []StopsInTime
<1>1. ServerInv => StopsInTime
  <2> SUFFICES ASSUME ServerInv, exit = "no"
               PROVE  sinceStop <= ForceLimit + MaxDelay
    BY DEF StopsInTime
  <2>1. CASE Stopping
    <3>1. PICK s \in Reason : forcing[s] # Stopped /\ forcing[s] + sinceStop <= ForceLimit
      BY <2>1 DEF ServerInv, FirstIsForcing
    <3>2. forcing[s] \in Int /\ forcing[s] >= -MaxDelay
      BY <3>1 DEF ServerInv, ServerTypes, FirstIsForcing
    <3> QED
      BY <3>1, <3>2, BackendServerAssumption DEF ServerInv, ServerTypes
  <2>2. CASE ~Stopping
    BY <2>2, BackendServerAssumption DEF ServerInv, FirstIsForcing
  <2> QED
    BY <2>1, <2>2
<1> QED
  BY <1>1, AlwaysServerInv, PTL

(* A completed shutdown has cut off no response, nor an onShutdown but that *)
(* of another call of stop.                                                 *)
THEOREM AlwaysCompletedLosesNothing == ServerSpec => []CompletedLosesNothing
BY AlwaysServerInv, PTL DEF ServerInv

-----------------------------------------------------------------------------
(* Local dates: the calendar                                                 *)

\* The loops over months keep the months since year 0.
LEMMA MonthOfIs ==
  ASSUME NEW y \in Int, NEW m \in Int
  PROVE  /\ MonthOf(y, m)[1] \in Int /\ MonthOf(y, m)[2] \in 1..12
         /\ 12 * MonthOf(y, m)[1] + MonthOf(y, m)[2] = 12 * y + m
BY DEF MonthOf

\* The month after a month, and the one before it.
LEMMA MonthOfNear ==
  ASSUME NEW y \in Int, NEW m \in 1..12
  PROVE  /\ MonthOf(y, m + 1) = IF m = 12 THEN <<y + 1, 1>> ELSE <<y, m + 1>>
         /\ MonthOf(y, m - 1) = IF m = 1 THEN <<y - 1, 12>> ELSE <<y, m - 1>>
BY DEF MonthOf

\* A year is as long as the calendar says, leap or not.
LEMMA YearLength ==
  ASSUME NEW y \in Int
  PROVE  /\ YearStart(y) \in Int
         /\ YearStart(y + 1) = YearStart(y) + GetYearLength(y)
         /\ IsLeapYear(y) \in BOOLEAN
BY DEF YearStart, GetYearLength, IsLeapYear

\* Years come one after another.
LEMMA YearsGoOn ==
  ASSUME NEW y \in Int, NEW z \in Int, y <= z
  PROVE  YearStart(y) <= YearStart(z)
<1>1. (z-1) \div 4 >= (y-1) \div 4 /\ (z-1) \div 400 >= (y-1) \div 400
  OBVIOUS
<1>2. (z-1) \div 100 - (y-1) \div 100 <= z - y
  OBVIOUS
<1> QED BY <1>1, <1>2 DEF YearStart

\* No month is shorter than 28 days or longer than 31.
LEMMA MonthLength ==
  ASSUME NEW y \in Int, NEW m \in 1..12
  PROVE  GetMonthLength(y, m) \in 28..31
BY DEF GetMonthLength, MDAYS

\* A month starts where the one before it ends.
LEMMA MonthSteps ==
  ASSUME NEW y \in Int, NEW m \in 1..12
  PROVE  /\ MonthStart(y, m) \in Int
         /\ m < 12 => MonthStart(y, m + 1) = MonthStart(y, m) + GetMonthLength(y, m)
         /\ m = 12 => MonthStart(y + 1, 1) = MonthStart(y, m) + GetMonthLength(y, m)
BY YearLength DEF MonthStart, GetMonthLength, MDAYS, GetYearLength

\* A month lies in its year.
LEMMA MonthInYear ==
  ASSUME NEW y \in Int, NEW m \in 1..12
  PROVE  /\ YearStart(y) <= MonthStart(y, m)
         /\ MonthStart(y, m) + GetMonthLength(y, m) <= YearStart(y + 1)
         /\ MonthStart(y, 1) = YearStart(y)
BY YearLength DEF MonthStart, GetMonthLength, MDAYS, GetYearLength

\* One month comes after another.
LEMMA MonthsGoOn ==
  ASSUME NEW y \in Int, NEW m \in 1..12, NEW z \in Int, NEW n \in 1..12, 12 * y + m < 12 * z + n
  PROVE  MonthStart(y, m) + GetMonthLength(y, m) <= MonthStart(z, n)
<1>1. y <= z /\ (y = z => m < n)
  OBVIOUS
<1>2. CASE y = z
  <2>1. MonthStart(y, m + 1) <= MonthStart(y, n)
    BY <1>1, <1>2, YearLength DEF MonthStart, GetYearLength
  <2>2. m < 12
    BY <1>1, <1>2
  <2>3. MonthStart(y, m + 1) = MonthStart(y, m) + GetMonthLength(y, m)
    BY <2>2, MonthSteps
  <2> QED
    BY <1>2, <2>1, <2>3
<1>3. CASE y < z
  <2>1. YearStart(y + 1) <= YearStart(z)
    BY <1>3, YearsGoOn
  <2>2. MonthStart(y, m) + GetMonthLength(y, m) <= YearStart(y + 1) /\ YearStart(z) <= MonthStart(z, n)
    BY MonthInYear
  <2>3. MonthStart(y, m) \in Int /\ MonthStart(z, n) \in Int /\ GetMonthLength(y, m) \in Int
        /\ YearStart(y + 1) \in Int /\ YearStart(z) \in Int
    <3>1. MonthStart(y, m) \in Int /\ MonthStart(z, n) \in Int
      BY MonthSteps
    <3>2. GetMonthLength(y, m) \in 28..31
      BY MonthLength
    <3>3. YearStart(y + 1) \in Int /\ YearStart(z) \in Int
      BY YearLength
    <3> QED
      BY <3>1, <3>2, <3>3
  <2> QED
    BY <2>1, <2>2, <2>3
<1> QED
  BY <1>1, <1>2, <1>3

\* The dates that exist, of any year.
Proper == {o \in [year : Int, month : 1..12, day : 1..31] : o.day <= GetMonthLength(o.year, o.month)}

\* And their numbers.
LEMMA ProperDate ==
  ASSUME NEW y \in Int, NEW m \in 1..12, NEW d \in 1..GetMonthLength(y, m)
  PROVE  Date(y, m, d) \in Proper /\ DayNumber(Date(y, m, d)) = MonthStart(y, m) + d
BY MonthLength DEF Date, Proper, DayNumber

(* compare orders the dates as the calendar does, and two dates that are    *)
(* the same day of it are one (localDate.ts:210-219).                       *)
THEOREM NumbersInOrder ==
  ASSUME NEW a \in Proper, NEW b \in Proper
  PROVE  /\ DayNumber(a) \in Int
         /\ Compare(a, b) = Sign(DayNumber(a) - DayNumber(b))
         /\ DayNumber(a) = DayNumber(b) => a = b
<1>1. /\ a.year \in Int /\ a.month \in 1..12 /\ a.day \in 1..31 /\ a.day <= GetMonthLength(a.year, a.month)
      /\ b.year \in Int /\ b.month \in 1..12 /\ b.day \in 1..31 /\ b.day <= GetMonthLength(b.year, b.month)
      /\ a = [year |-> a.year, month |-> a.month, day |-> a.day]
      /\ b = [year |-> b.year, month |-> b.month, day |-> b.day]
  BY DEF Proper
<1>2. MonthStart(a.year, a.month) \in Int /\ MonthStart(b.year, b.month) \in Int
      /\ GetMonthLength(a.year, a.month) \in Int /\ GetMonthLength(b.year, b.month) \in Int
  BY <1>1, MonthSteps, MonthLength
<1>3. CASE 12 * a.year + a.month < 12 * b.year + b.month
  <2>1. DayNumber(a) < DayNumber(b)
    BY <1>1, <1>2, <1>3, MonthsGoOn DEF DayNumber
  <2>2. Compare(a, b) = -1
    BY <1>1, <1>3 DEF Compare, Sign
  <2> QED
    BY <1>1, <1>2, <2>1, <2>2 DEF Sign, DayNumber
<1>4. CASE 12 * b.year + b.month < 12 * a.year + a.month
  <2>1. DayNumber(b) < DayNumber(a)
    BY <1>1, <1>2, <1>4, MonthsGoOn DEF DayNumber
  <2>2. Compare(a, b) = 1
    BY <1>1, <1>4 DEF Compare, Sign
  <2> QED
    BY <1>1, <1>2, <2>1, <2>2 DEF Sign, DayNumber
<1>5. CASE a.year = b.year /\ a.month = b.month
  BY <1>1, <1>2, <1>5 DEF Compare, Sign, DayNumber
<1> QED
  BY <1>1, <1>3, <1>4, <1>5

\* What Carried makes of x, given what f makes of the rest.
CarriedBody(f, x) ==
  LET y == x[1] m == x[2] d == x[3]
      last == MonthOf(y, m - 1)
      next == MonthOf(y, m + 1) IN
  IF d < 1 THEN f[<<last[1], last[2], d + GetMonthLength(last[1], last[2])>>]
  ELSE IF d > GetMonthLength(y, m) THEN f[<<next[1], next[2], d - GetMonthLength(y, m)>>]
  ELSE Date(y, m, d)

\* The day that loops over months begin with, and the one they go on with.
LEMMA CarriedStep ==
  ASSUME NEW y \in Int, NEW m \in 1..12, NEW d \in Int,
         NEW last, last = MonthOf(y, m - 1), NEW next, next = MonthOf(y, m + 1)
  PROVE  /\ last[1] \in Int /\ last[2] \in 1..12 /\ next[1] \in Int /\ next[2] \in 1..12
         /\ MonthStart(last[1], last[2]) + GetMonthLength(last[1], last[2]) = MonthStart(y, m)
         /\ MonthStart(next[1], next[2]) = MonthStart(y, m) + GetMonthLength(y, m)
<1>1. last = IF m = 1 THEN <<y - 1, 12>> ELSE <<y, m - 1>>
  BY MonthOfNear
<1>2. next = IF m = 12 THEN <<y + 1, 1>> ELSE <<y, m + 1>>
  BY MonthOfNear
<1>3. m # 1 => m - 1 \in 1..12 /\ m - 1 < 12 /\ (m - 1) + 1 = m
  OBVIOUS
<1>4. (y - 1) + 1 = y /\ y - 1 \in Int /\ y + 1 \in Int
  OBVIOUS
<1>5. MonthStart(last[1], last[2]) + GetMonthLength(last[1], last[2]) = MonthStart(y, m)
  <2>1. CASE m = 1
    BY <1>1, <1>4, <2>1, MonthSteps
  <2>2. CASE m # 1
    <3>1. MonthStart(y, (m - 1) + 1) = MonthStart(y, m - 1) + GetMonthLength(y, m - 1)
      BY <1>3, <2>2, MonthSteps
    <3> QED
      BY <1>1, <1>3, <2>2, <3>1
  <2> QED
    BY <2>1, <2>2
<1>6. MonthStart(next[1], next[2]) = MonthStart(y, m) + GetMonthLength(y, m)
  <2>1. CASE m = 12
    BY <1>2, <2>1, MonthSteps
  <2>2. CASE m # 12
    <3>1. m < 12
      BY <2>2
    <3>2. MonthStart(y, m + 1) = MonthStart(y, m) + GetMonthLength(y, m)
      BY <3>1, MonthSteps
    <3> QED
      BY <1>2, <2>2, <3>2
  <2> QED
    BY <2>1, <2>2
<1> QED
  BY <1>1, <1>2, <1>3, <1>4, <1>5, <1>6

\* The date with a number.
Numbered(k) == CHOOSE o \in Proper : DayNumber(o) = k

\* The recursion of Carried has a solution: the date whose number is asked for.
LEMMA CarriedExists == Carried = [x \in Int \X (1..12) \X Int |-> CarriedBody(Carried, x)]
<1> DEFINE S == Int \X (1..12) \X Int
           number(x) == MonthStart(x[1], x[2]) + x[3]
           g == [x \in S |-> Numbered(number(x))]
<1>1. \A x \in S : g[x] = CarriedBody(g, x)
  <2>a. ASSUME NEW x \in S
        PROVE  \E y \in Int, m \in 1..12, d \in Int : x = <<y, m, d>>
    BY <2>a
  <2>b. SUFFICES ASSUME NEW y \in Int, NEW m \in 1..12, NEW d \in Int
                 PROVE  g[<<y, m, d>>] = CarriedBody(g, <<y, m, d>>)
    <3> HIDE DEF g
    <3> QED
      BY <2>a
  <2>1. PICK last, next : last = MonthOf(y, m - 1) /\ next = MonthOf(y, m + 1)
    OBVIOUS
  <2>2. /\ last[1] \in Int /\ last[2] \in 1..12 /\ next[1] \in Int /\ next[2] \in 1..12
        /\ MonthStart(last[1], last[2]) + GetMonthLength(last[1], last[2]) = MonthStart(y, m)
        /\ MonthStart(next[1], next[2]) = MonthStart(y, m) + GetMonthLength(y, m)
    BY <2>1, CarriedStep
  <2>3. /\ MonthStart(last[1], last[2]) \in Int /\ GetMonthLength(last[1], last[2]) \in Int
        /\ MonthStart(y, m) \in Int /\ GetMonthLength(y, m) \in Int
    <3>1. MonthStart(last[1], last[2]) \in Int /\ MonthStart(y, m) \in Int
      BY <2>2, MonthSteps
    <3>2. GetMonthLength(last[1], last[2]) \in 28..31 /\ GetMonthLength(y, m) \in 28..31
      BY <2>2, MonthLength
    <3> QED
      BY <3>1, <3>2
  <2>4. PICK back, on : /\ back = <<last[1], last[2], d + GetMonthLength(last[1], last[2])>>
                        /\ on = <<next[1], next[2], d - GetMonthLength(y, m)>>
    OBVIOUS
  <2>5. <<y, m, d>> \in S /\ back \in S /\ on \in S
    BY <2>2, <2>3, <2>4
  <2>6. number(<<y, m, d>>) = MonthStart(y, m) + d /\ number(back) = MonthStart(y, m) + d /\ number(on) = MonthStart(y, m) + d
    BY <2>2, <2>3, <2>4
  <2>7. g[back] = g[<<y, m, d>>] /\ g[on] = g[<<y, m, d>>]
    BY <2>5, <2>6
  <2>8. CarriedBody(g, <<y, m, d>>) = IF d < 1 THEN g[back] ELSE IF d > GetMonthLength(y, m) THEN g[on] ELSE Date(y, m, d)
    BY <2>1, <2>4 DEF CarriedBody
  <2>9. CASE d \in 1..GetMonthLength(y, m)
    <3>1. Date(y, m, d) \in Proper /\ DayNumber(Date(y, m, d)) = MonthStart(y, m) + d
      BY <2>9, ProperDate
    <3>2. \A o \in Proper : DayNumber(o) = MonthStart(y, m) + d => o = Date(y, m, d)
      BY <3>1, NumbersInOrder
    <3>3. Numbered(MonthStart(y, m) + d) = Date(y, m, d)
      BY <3>1, <3>2 DEF Numbered
    <3> QED
      BY <2>3, <2>5, <2>6, <2>8, <2>9, <3>3
  <2>10. CASE d < 1 \/ d > GetMonthLength(y, m)
    BY <2>3, <2>7, <2>8, <2>10
  <2> QED
    BY <2>3, <2>9, <2>10
<1> HIDE DEF g
<1>2. g = [x \in S |-> g[x]]
  BY DEF g
<1>3. g = [x \in S |-> CarriedBody(g, x)]
  BY <1>1, <1>2
<1>4. Carried = CHOOSE f : f = [x \in S |-> CarriedBody(f, x)]
  BY DEF Carried, CarriedBody
<1> QED
  BY <1>3, <1>4

\* A set of naturals that has an element has a least one.
LEMMA Least ==
  ASSUME NEW S \in SUBSET Nat, S # {}
  PROVE  \E m \in S : \A k \in S : m <= k
<1>1. PICK m \in S : \A k \in S : <<k, m>> \notin OpToRel(<, Nat)
  <2> HIDE DEF OpToRel
  <2>1. S \subseteq Nat
    OBVIOUS
  <2> QED
    BY <2>1, NatLessThanWellFounded, WFMin
<1>2. \A k \in S : <<k, m>> \in OpToRel(<, Nat) <=> k < m
  BY DEF OpToRel
<1>3. \A k \in S : ~(k < m)
  BY <1>1, <1>2
<1> QED
  BY <1>3

\* How far the loops over months have to go.
DaysLeft(y, m, d) == IF d < 1 THEN 1 - d ELSE IF d > GetMonthLength(y, m) THEN d ELSE 0

\* The loops over days end at a date that exists, and do not change its
\* number: were it otherwise somewhere, consider where the least is left to go.
LEMMA CarriedIsDate ==
  ASSUME NEW y \in Int, NEW m \in 1..12, NEW d \in Int
  PROVE  /\ Carried[<<y, m, d>>] \in Proper
         /\ DayNumber(Carried[<<y, m, d>>]) = MonthStart(y, m) + d
<1> DEFINE Good(yy, mm, dd) == /\ Carried[<<yy, mm, dd>>] \in Proper
                               /\ DayNumber(Carried[<<yy, mm, dd>>]) = MonthStart(yy, mm) + dd
           Bad == {k \in Nat : \E yy \in Int, mm \in 1..12, dd \in Int : DaysLeft(yy, mm, dd) = k /\ ~Good(yy, mm, dd)}
<1>1. ASSUME NEW yy \in Int, NEW mm \in 1..12, NEW dd \in Int
      PROVE  DaysLeft(yy, mm, dd) \in Nat
  <2>1. GetMonthLength(yy, mm) \in 28..31
    BY MonthLength
  <2> QED
    BY <2>1 DEF DaysLeft
<1> HIDE DEF Bad
<1>2. ASSUME NEW k \in Bad, \A j \in Bad : k <= j
      PROVE  FALSE
  <2>1. PICK yy \in Int, mm \in 1..12, dd \in Int : DaysLeft(yy, mm, dd) = k /\ ~Good(yy, mm, dd)
    BY DEF Bad
  <2>2. PICK last, next : last = MonthOf(yy, mm - 1) /\ next = MonthOf(yy, mm + 1)
    OBVIOUS
  <2>3. /\ last[1] \in Int /\ last[2] \in 1..12 /\ next[1] \in Int /\ next[2] \in 1..12
        /\ MonthStart(last[1], last[2]) + GetMonthLength(last[1], last[2]) = MonthStart(yy, mm)
        /\ MonthStart(next[1], next[2]) = MonthStart(yy, mm) + GetMonthLength(yy, mm)
    BY <2>2, CarriedStep
  <2>4. PICK len \in 28..31, lastLen \in 28..31, nextLen \in 28..31 :
           /\ len = GetMonthLength(yy, mm)
           /\ lastLen = GetMonthLength(last[1], last[2])
           /\ nextLen = GetMonthLength(next[1], next[2])
    BY <2>3, MonthLength
  <2>5. Carried[<<yy, mm, dd>>] = IF dd < 1 THEN Carried[<<last[1], last[2], dd + lastLen>>]
                                  ELSE IF dd > len THEN Carried[<<next[1], next[2], dd - len>>]
                                  ELSE Date(yy, mm, dd)
    <3>1. <<yy, mm, dd>> \in Int \X (1..12) \X Int
      OBVIOUS
    <3>2. Carried[<<yy, mm, dd>>] = CarriedBody(Carried, <<yy, mm, dd>>)
      BY <3>1, CarriedExists
    <3> QED
      BY <2>2, <2>4, <3>2 DEF CarriedBody
  <2>a. k \in Nat
    BY DEF Bad
  <2>6. k \in Nat /\ MonthStart(yy, mm) \in Int /\ MonthStart(last[1], last[2]) \in Int /\ MonthStart(next[1], next[2]) \in Int
    BY <2>3, <2>a, MonthSteps
  <2>7. CASE dd < 1
    <3>1. DaysLeft(last[1], last[2], dd + lastLen) < k
      BY <2>1, <2>4, <2>7 DEF DaysLeft
    <3>2. dd + lastLen \in Int
      OBVIOUS
    <3>3. DaysLeft(last[1], last[2], dd + lastLen) \in Nat
      BY <1>1, <2>3, <3>2
    <3>4. DaysLeft(last[1], last[2], dd + lastLen) \notin Bad
      BY <1>2, <2>6, <3>1, <3>3
    <3>5. Good(last[1], last[2], dd + lastLen)
      BY <2>3, <3>2, <3>3, <3>4 DEF Bad
    <3> QED
      BY <2>1, <2>3, <2>4, <2>5, <2>6, <2>7, <3>5
  <2>8. CASE dd > len
    <3>1. DaysLeft(next[1], next[2], dd - len) < k
      BY <2>1, <2>4, <2>8 DEF DaysLeft
    <3>2. dd - len \in Int
      OBVIOUS
    <3>3. DaysLeft(next[1], next[2], dd - len) \in Nat
      BY <1>1, <2>3, <3>2
    <3>4. DaysLeft(next[1], next[2], dd - len) \notin Bad
      BY <1>2, <2>6, <3>1, <3>3
    <3>5. Good(next[1], next[2], dd - len)
      BY <2>3, <3>2, <3>3, <3>4 DEF Bad
    <3> QED
      BY <2>1, <2>3, <2>4, <2>5, <2>6, <2>8, <3>5
  <2>9. CASE dd \in 1..len
    <3>1. Date(yy, mm, dd) \in Proper /\ DayNumber(Date(yy, mm, dd)) = MonthStart(yy, mm) + dd
      BY <2>4, <2>9, ProperDate
    <3> QED
      BY <2>1, <2>5, <2>9, <3>1
  <2> QED
    BY <2>4, <2>7, <2>8, <2>9
<1>3. Bad = {}
  <2>1. Bad \in SUBSET Nat
    BY DEF Bad
  <2> QED
    BY <1>2, <2>1, Least
<1> QED
  BY <1>1, <1>3 DEF Bad

\* A day that is cut at the end of its month exists.
LEMMA ClippedIsDate ==
  ASSUME NEW y \in Int, NEW m \in 1..12, NEW d \in Nat \ {0}
  PROVE  Clipped(y, m, d) \in Proper
<1>1. GetMonthLength(y, m) \in 28..31
  BY MonthLength
<1> QED
  BY <1>1, ProperDate DEF Clipped

\* plus, from a date to a date.
LEMMA PlusIsDate ==
  ASSUME NEW a \in Proper, NEW n \in Int, NEW u \in Unit
  PROVE  /\ Plus(a, n, u) \in Proper
         /\ u = "day"  => DayNumber(Plus(a, n, u)) = DayNumber(a) + n
         /\ u = "week" => DayNumber(Plus(a, n, u)) = DayNumber(a) + 7 * n
<1>1. a.year \in Int /\ a.month \in 1..12 /\ a.day \in 1..31 /\ MonthStart(a.year, a.month) \in Int
  BY MonthSteps DEF Proper
<1>2. CASE u = "day"
  BY <1>1, <1>2, CarriedIsDate DEF Plus, DayNumber
<1>3. CASE u = "week"
  <2>1. a.day + 7 * n \in Int
    BY <1>1
  <2> QED
    BY <1>1, <1>3, <2>1, CarriedIsDate DEF Plus, DayNumber
<1>4. CASE u = "month"
  <2>1. PICK ym : ym = MonthOf(a.year, a.month + n)
    OBVIOUS
  <2>2. a.month + n \in Int
    BY <1>1
  <2>3. ym[1] \in Int /\ ym[2] \in 1..12
    BY <1>1, <2>1, <2>2, MonthOfIs
  <2> QED
    BY <1>1, <1>4, <2>1, <2>3, ClippedIsDate DEF Plus, PlusMonths
<1>5. CASE u = "year"
  <2>1. a.year + n \in Int /\ a.day \in Nat \ {0}
    BY <1>1
  <2> QED
    BY <1>1, <1>5, <2>1, ClippedIsDate DEF Plus, PlusYears
<1> QED
  BY <1>2, <1>3, <1>4, <1>5 DEF Unit

\* The walk is one of dates, each the outcome of the plus to the one before.
WalkInv ==
  /\ date \in Dates /\ before \in Dates
  /\ num \in Int /\ unit \in Unit
  /\ PlusIsByCalendar

\* The walk goes over dates that exist.
LEMMA DatesAreProper == Dates \subseteq Proper
<1> SUFFICES ASSUME NEW o \in Dates
             PROVE  o \in Proper
  OBVIOUS
<1>1. o \in [year : Int, month : 1..12, day : 1..31] /\ o.day \in 1..GetMonthLength(o.year, o.month)
  <2>1. o \in [year : Years, month : 1..12, day : 1..31] /\ IsDateObjectValid(o)
    BY DEF Dates
  <2>2. o.year \in Int
    <3>1. o.year \in Years
      BY <2>1
    <3>2. \A y \in Years : y \in Int
      BY LocalDateAssumption
    <3> QED
      BY <3>1, <3>2
  <2> QED
    BY <2>1, <2>2 DEF IsDateObjectValid
<1>2. GetMonthLength(o.year, o.month) \in 28..31
  BY <1>1, MonthLength
<1> QED
  BY <1>1, <1>2 DEF Proper

\* Every step of the walk leads to such a date.
LEMMA AlwaysWalkInv == LocalDateSpec => []WalkInv
<1>1. LocalDateInit => WalkInv
  <2> SUFFICES ASSUME LocalDateInit
               PROVE  WalkInv
    OBVIOUS
  <2>1. date \in Dates /\ before = date /\ num = 0 /\ unit = "day" /\ DayNumber(date) \in Int
    BY DatesAreProper, NumbersInOrder DEF LocalDateInit
  <2> QED
    BY <2>1 DEF WalkInv, PlusIsByCalendar, Dates, Unit
<1>2. WalkInv /\ [Move]_dateVars => WalkInv'
  <2> SUFFICES ASSUME WalkInv, [Move]_dateVars
               PROVE  WalkInv'
    OBVIOUS
  <2>1. CASE UNCHANGED dateVars
    BY <2>1 DEF dateVars, WalkInv, PlusIsByCalendar
  <2>2. CASE Move
    <3>0. PICK to, n, u : /\ n \in Int /\ u \in Unit
                          /\ to = Plus(date, n, u) /\ to.year \in Years
                          /\ date' = to /\ before' = date /\ num' = n /\ unit' = u
      BY <2>2, LocalDateAssumption DEF Move
    <3>1. /\ n \in Int /\ u \in Unit
          /\ to = Plus(date, n, u) /\ to.year \in Years
          /\ date' = to /\ before' = date /\ num' = n /\ unit' = u
      BY <3>0
    <3>2. to \in Proper /\ (u = "day" => DayNumber(to) = DayNumber(date) + n)
                        /\ (u = "week" => DayNumber(to) = DayNumber(date) + 7 * n)
      BY <3>1, DatesAreProper, PlusIsDate DEF WalkInv
    <3>3. to.year \in Nat \ {0} /\ to.month \in 1..12 /\ to.day \in 1..GetMonthLength(to.year, to.month)
      <4>1. to.month \in 1..12 /\ to.day \in 1..31 /\ to.day <= GetMonthLength(to.year, to.month) /\ to.year \in Int
        BY <3>2 DEF Proper
      <4>2. GetMonthLength(to.year, to.month) \in 28..31
        BY <4>1, MonthLength
      <4> QED
        BY <3>1, <4>1, <4>2, LocalDateAssumption
    <3>4. IsDateObjectValid(to)
      BY <3>3 DEF IsDateObjectValid
    <3>5. to \in Dates
      BY <3>1, <3>2, <3>4 DEF Dates, Proper
    <3> QED
      BY <3>1, <3>2, <3>4, <3>5 DEF WalkInv, PlusIsByCalendar
  <2> QED
    BY <2>1, <2>2
<1> QED
  BY <1>1, <1>2, PTL DEF LocalDateSpec

(* plus in days or weeks moves by that many days of the calendar, and every *)
(* plus ends at a date that exists.                                         *)
THEOREM AlwaysByCalendar == LocalDateSpec => []PlusIsByCalendar
<1>1. WalkInv => PlusIsByCalendar
  BY DEF WalkInv
<1> QED
  BY <1>1, AlwaysWalkInv, PTL

\* A sum that grows from m on as S does.
LEMMA SumIs ==
  ASSUME NEW m \in Int, NEW n \in Int, m <= n, NEW S, \A k \in m..n : S[k] \in Int,
         NEW F, \A k \in m..n : F[k] = IF k = m THEN 0 ELSE F[k - 1] + (S[k] - S[k - 1])
  PROVE  F[n] = S[n] - S[m]
<1> DEFINE Bad == {j \in Nat : m + j <= n /\ F[m + j] # S[m + j] - S[m]}
<1>1. Bad \in SUBSET Nat /\ m \in m..n
  OBVIOUS
<1>2. ASSUME NEW j \in Bad, \A i \in Bad : j <= i
      PROVE  FALSE
  <2>1. PICK k \in m..n : k = m + j /\ F[k] # S[k] - S[m] /\ j \in Nat
    OBVIOUS
  <2>2. k # m
    BY <1>1, <2>1
  <2>3. k - 1 \in m..n /\ k - 1 = m + (j - 1) /\ j - 1 \in Nat
    BY <2>1, <2>2
  <2>4. j - 1 \notin Bad
    <3> HIDE DEF Bad
    <3> QED
      BY <1>2, <2>1
  <2>5. F[k - 1] = S[k - 1] - S[m]
    BY <2>3, <2>4
  <2>6. S[k - 1] \in Int /\ S[k] \in Int /\ S[m] \in Int
    BY <1>1, <2>3
  <2>7. F[k] = F[k - 1] + (S[k] - S[k - 1])
    BY <2>2
  <2> QED
    BY <2>1, <2>5, <2>6, <2>7
<1>3. Bad = {}
  <2> HIDE DEF Bad
  <2> QED
    BY <1>1, <1>2, Least
<1>4. n - m \in Nat /\ n = m + (n - m)
  OBVIOUS
<1>5. n - m \notin Bad
  BY <1>3
<1> QED
  BY <1>4, <1>5

\* The loop over years counts their days.
LEMMA DaysOfYearsIs ==
  ASSUME NEW y \in Int, NEW z \in Int, y <= z
  PROVE  DaysOfYears(y, z) = YearStart(z) - YearStart(y)
<1> DEFINE S == [k \in y..z |-> YearStart(k)]
           body(f) == [k \in y..z |-> IF k = y THEN 0 ELSE f[k - 1] + GetYearLength(k - 1)]
           g == [k \in y..z |-> S[k] - S[y]]
           F == CHOOSE f : f = body(f)
<1>1. y \in y..z /\ \A k \in y..z : S[k] = YearStart(k) /\ S[k] \in Int
  BY YearLength
<1>2. ASSUME NEW k \in y..z, k # y
      PROVE  GetYearLength(k - 1) = S[k] - S[k - 1] /\ k - 1 \in y..z
  <2>1. k - 1 \in Int /\ k - 1 \in y..z /\ (k - 1) + 1 = k
    BY <1>2
  <2>2. YearStart((k - 1) + 1) = YearStart(k - 1) + GetYearLength(k - 1)
    BY <2>1, YearLength
  <2>3. GetYearLength(k - 1) \in Int
    BY DEF GetYearLength
  <2> QED
    BY <1>1, <2>1, <2>2, <2>3
<1> HIDE DEF S
<1>3. g = body(g)
  BY <1>1, <1>2
<1>4. F = body(F)
  <2> HIDE DEF body, g
  <2> QED
    BY <1>3
<1>5. DaysOfYears(y, z) = F[z]
  BY DEF DaysOfYears
<1> HIDE DEF F
<1>6. \A k \in y..z : F[k] = IF k = y THEN 0 ELSE F[k - 1] + (S[k] - S[k - 1])
  BY <1>2, <1>4
<1>7. F[z] = S[z] - S[y]
  BY <1>1, <1>6, SumIs
<1> QED
  BY <1>1, <1>5, <1>7

\* The loop over months counts their days.
LEMMA DaysOfMonthsIs ==
  ASSUME NEW y \in Int, NEW m \in 1..12, NEW n \in 1..12, m <= n
  PROVE  DaysOfMonths(y, m, n) = MonthStart(y, n) - MonthStart(y, m)
<1> DEFINE S == [k \in m..n |-> MonthStart(y, k)]
           body(f) == [k \in m..n |-> IF k = m THEN 0 ELSE f[k - 1] + GetMonthLength(y, k - 1)]
           g == [k \in m..n |-> S[k] - S[m]]
           F == CHOOSE f : f = body(f)
<1>1. m \in m..n /\ \A k \in m..n : S[k] = MonthStart(y, k) /\ S[k] \in Int
  <2>1. ASSUME NEW k \in m..n
        PROVE  MonthStart(y, k) \in Int
    <3>1. k \in 1..12
      OBVIOUS
    <3> QED
      BY <3>1, MonthSteps
  <2> QED
    BY <2>1
<1>2. ASSUME NEW k \in m..n, k # m
      PROVE  GetMonthLength(y, k - 1) = S[k] - S[k - 1] /\ k - 1 \in m..n
  <2>1. k - 1 \in 1..12 /\ k - 1 \in m..n /\ (k - 1) + 1 = k /\ k - 1 < 12
    BY <1>2
  <2>2. MonthStart(y, (k - 1) + 1) = MonthStart(y, k - 1) + GetMonthLength(y, k - 1)
    BY <2>1, MonthSteps
  <2>3. GetMonthLength(y, k - 1) \in 28..31
    BY <2>1, MonthLength
  <2> QED
    BY <1>1, <2>1, <2>2, <2>3
<1> HIDE DEF S
<1>3. g = body(g)
  BY <1>1, <1>2
<1>4. F = body(F)
  <2> HIDE DEF body, g
  <2> QED
    BY <1>3
<1>5. DaysOfMonths(y, m, n) = F[n]
  BY DEF DaysOfMonths
<1> HIDE DEF F
<1>6. \A k \in m..n : F[k] = IF k = m THEN 0 ELSE F[k - 1] + (S[k] - S[k - 1])
  BY <1>2, <1>4
<1>7. F[n] = S[n] - S[m]
  BY <1>1, <1>6, SumIs
<1> QED
  BY <1>1, <1>5, <1>7

\* diff in days is the difference of the numbers, whatever leap days lie between.
LEMMA DaysBetweenIs ==
  ASSUME NEW a \in Proper, NEW b \in Proper, b.year <= a.year
  PROVE  DaysBetween(a, b) = DayNumber(a) - DayNumber(b)
<1>1. PICK y \in Int, m \in 1..12, d \in 1..31, z \in Int, n \in 1..12, e \in 1..31 :
         y = a.year /\ m = a.month /\ d = a.day /\ z = b.year /\ n = b.month /\ e = b.day
  BY DEF Proper
<1>2. PICK o \in 0..1 : o = IF n >= 3 THEN 1 ELSE 0
  OBVIOUS
<1>3. DaysOfYears(z + o, y + o) = YearStart(y + o) - YearStart(z + o)
  BY <1>1, DaysOfYearsIs
<1>4. IF n < m THEN DaysOfMonths(y, n, m) = MonthStart(y, m) - MonthStart(y, n)
               ELSE DaysOfMonths(y, m, n) = MonthStart(y, n) - MonthStart(y, m)
  BY DaysOfMonthsIs
<1>5. /\ MonthStart(y, m) \in Int /\ MonthStart(y, n) \in Int /\ MonthStart(z, n) \in Int
  BY MonthSteps
<1>6. YearStart(y + o) \in Int /\ YearStart(z + o) \in Int
  BY YearLength
<1>7. DaysBetween(a, b) = d - e + (YearStart(y + o) - YearStart(z + o)) + (MonthStart(y, m) - MonthStart(y, n))
  BY <1>1, <1>2, <1>3, <1>4, <1>5, <1>6 DEF DaysBetween
<1>8. YearStart(y + o) - YearStart(z + o) = MonthStart(y, n) - MonthStart(z, n)
  <2>1. /\ YearStart(y) \in Int /\ YearStart(z) \in Int /\ YearStart(y + 1) \in Int /\ YearStart(z + 1) \in Int
    BY YearLength
  <2>2. y + 0 = y /\ z + 0 = z
    OBVIOUS
  <2> QED
    BY <1>2, <2>1, <2>2 DEF MonthStart
<1> QED
  BY <1>1, <1>5, <1>6, <1>7, <1>8 DEF DayNumber

\* compare, in months since year 0.
LEMMA ComparesMonths ==
  ASSUME NEW a \in Proper, NEW b \in Proper
  PROVE  /\ 12 * a.year + a.month < 12 * b.year + b.month => Compare(a, b) = -1
         /\ 12 * a.year + a.month > 12 * b.year + b.month => Compare(a, b) = 1
         /\ 12 * a.year + a.month = 12 * b.year + b.month =>
              a.year = b.year /\ a.month = b.month /\ Compare(a, b) = Sign(a.day - b.day)
         /\ Compare(a, b) \in {-1, 0, 1}
<1>1. PICK y \in Int, m \in 1..12, d \in 1..31, z \in Int, n \in 1..12, e \in 1..31 :
         y = a.year /\ m = a.month /\ d = a.day /\ z = b.year /\ n = b.month /\ e = b.day
  BY DEF Proper
<1>2. Compare(a, b) = IF y # z THEN Sign(y - z) ELSE IF m # n THEN Sign(m - n) ELSE Sign(d - e)
  BY <1>1 DEF Compare
<1> QED
  BY <1>1, <1>2 DEF Sign

\* plus in months, in numbers.
LEMMA PlusMonthsIs ==
  ASSUME NEW a \in Proper, NEW k \in Int, NEW y \in Int, NEW m \in 1..12,
         12 * y + m = 12 * a.year + a.month + k
  PROVE  Plus(a, k, "month") = Date(y, m, IF a.day > GetMonthLength(y, m) THEN GetMonthLength(y, m) ELSE a.day)
<1>1. a.year \in Int /\ a.month + k \in Int /\ a.month \in Int
  BY DEF Proper
<1>2. MonthOf(a.year, a.month + k) = <<y, m>>
  <2>1. PICK z \in Int, n \in Int, h \in Int : z = a.year /\ n = a.month + k /\ h = 12 * y + m
    BY <1>1
  <2>2. 12 * z + n = h
    BY <1>1, <2>1
  <2>3. MonthOf(z, n) = <<y, m>>
    BY <2>1, <2>2 DEF MonthOf
  <2> QED
    BY <2>1, <2>3
<1> QED
  BY <1>2 DEF Plus, PlusMonths, Clipped

\* Every such number is that of a month.
LEMMA EveryMonth ==
  ASSUME NEW k \in Int
  PROVE  \E y \in Int, m \in 1..12 : 12 * y + m = k
<1>1. 12 * ((k - 1) \div 12) + (((k - 1) % 12) + 1) = k /\ ((k - 1) % 12) + 1 \in 1..12 /\ (k - 1) \div 12 \in Int
  OBVIOUS
<1> QED
  BY <1>1

\* Months after the months of big, and before them.
LEMMA PlusMonthsCompares ==
  ASSUME NEW small \in Proper, NEW big \in Proper, NEW k \in Int,
         NEW D, D = 12 * big.year + big.month - (12 * small.year + small.month)
  PROVE  /\ D \in Int
         /\ k < D => Compare(Plus(small, k, "month"), big) = -1
         /\ k > D => Compare(Plus(small, k, "month"), big) = 1
         /\ k = D => Compare(Plus(small, k, "month"), big) =
              Sign((IF small.day > GetMonthLength(big.year, big.month)
                    THEN GetMonthLength(big.year, big.month) ELSE small.day) - big.day)
<1>1. /\ small.year \in Int /\ small.month \in 1..12 /\ small.day \in 1..31
      /\ big.year \in Int /\ big.month \in 1..12 /\ big.day \in 1..31
  BY DEF Proper
<1>2. PICK y \in Int, m \in 1..12 : 12 * y + m = 12 * small.year + small.month + k
  <2>1. 12 * small.year + small.month + k \in Int
    BY <1>1
  <2> QED
    BY <2>1, EveryMonth
<1>3. PICK d : d = IF small.day > GetMonthLength(y, m) THEN GetMonthLength(y, m) ELSE small.day
  OBVIOUS
<1>4. Plus(small, k, "month") = Date(y, m, d)
  BY <1>2, <1>3, PlusMonthsIs
<1>5. Date(y, m, d) \in Proper
  <2>1. GetMonthLength(y, m) \in 28..31
    BY MonthLength
  <2> QED
    BY <1>1, <1>3, <2>1, ProperDate
<1>6. Date(y, m, d).year = y /\ Date(y, m, d).month = m /\ Date(y, m, d).day = d
  BY DEF Date
<1>7. D \in Int
  BY <1>1
<1>8. k < D => 12 * y + m < 12 * big.year + big.month
  BY <1>1, <1>2
<1>9. k > D => 12 * y + m > 12 * big.year + big.month
  BY <1>1, <1>2
<1>10. k = D => 12 * y + m = 12 * big.year + big.month
  BY <1>1, <1>2
<1>11. k = D => y = big.year /\ m = big.month /\ Compare(Date(y, m, d), big) = Sign(d - big.day)
  BY <1>5, <1>6, <1>10, ComparesMonths
<1>12. k = D => d = IF small.day > GetMonthLength(big.year, big.month)
                    THEN GetMonthLength(big.year, big.month) ELSE small.day
  BY <1>3, <1>11
<1>13. k < D => Compare(Date(y, m, d), big) = -1
  BY <1>5, <1>6, <1>8, ComparesMonths
<1>14. k > D => Compare(Date(y, m, d), big) = 1
  BY <1>5, <1>6, <1>9, ComparesMonths
<1> QED
  BY <1>4, <1>7, <1>11, <1>12, <1>13, <1>14

\* diff in months counts the full ones.
LEMMA MonthsBetweenIs ==
  ASSUME NEW small \in Proper, NEW big \in Proper, Compare(big, small) \in {0, 1}
  PROVE  /\ MonthsBetween(big, small) \in Nat
         /\ Compare(big, small) = 0 => MonthsBetween(big, small) = 0
         /\ FullUnits(small, big, MonthsBetween(big, small), "month")
<1>1. PICK y \in Int, m \in 1..12, d \in 1..31, z \in Int, n \in 1..12, e \in 1..31, len \in 28..31 :
         /\ y = big.year /\ m = big.month /\ d = big.day
         /\ z = small.year /\ n = small.month /\ e = small.day
         /\ len = GetMonthLength(big.year, big.month) /\ d <= len
  BY MonthLength DEF Proper
<1>2. PICK D \in Int, D1 \in {0, 1} : D = 12 * y + m - (12 * z + n) /\ D1 = IF e > d /\ (d # len \/ e < len) THEN 1 ELSE 0
  OBVIOUS
<1>3. MonthsBetween(big, small) = D - D1
  BY <1>1, <1>2 DEF MonthsBetween, IsLastOfMonth
<1>4. 12 * y + m >= 12 * z + n
  BY <1>1, ComparesMonths
<1>5. D = 0 => Sign(d - e) \in {0, 1} /\ Compare(big, small) = Sign(d - e)
  BY <1>1, <1>2, ComparesMonths
<1>6. D - D1 \in Nat
  BY <1>2, <1>4, <1>5 DEF Sign
<1>7. Compare(big, small) = 0 => D - D1 = 0
  <2>1. Compare(big, small) = 0 => D = 0
    BY <1>1, <1>2, <1>4, ComparesMonths
  <2> QED
    BY <1>2, <1>5, <2>1 DEF Sign
<1>8. ASSUME NEW k \in Int
      PROVE  /\ k < D => Compare(Plus(small, k, "month"), big) = -1
             /\ k > D => Compare(Plus(small, k, "month"), big) = 1
             /\ k = D => Compare(Plus(small, k, "month"), big) = Sign((IF e > len THEN len ELSE e) - d)
  BY <1>1, <1>2, PlusMonthsCompares
<1>9. Compare(Plus(small, D - D1, "month"), big) <= 0
  <2>1. CASE D1 = 1
    BY <1>8, <2>1
  <2>2. CASE D1 = 0
    BY <1>1, <1>2, <1>8, <2>2 DEF Sign
  <2> QED
    BY <2>1, <2>2
<1>10. Compare(Plus(small, D - D1 + 1, "month"), big) = 1
  <2>1. CASE D1 = 0
    BY <1>8, <2>1
  <2>2. CASE D1 = 1
    <3>1. D - D1 + 1 = D
      BY <2>2
    <3> QED
      BY <1>1, <1>2, <1>8, <2>2, <3>1 DEF Sign
  <2> QED
    BY <2>1, <2>2
<1> QED
  BY <1>3, <1>6, <1>7, <1>9, <1>10 DEF FullUnits

\* plus in years, in numbers.
LEMMA PlusYearsCompares ==
  ASSUME NEW small \in Proper, NEW big \in Proper, NEW k \in Int,
         NEW D, D = big.year - small.year
  PROVE  /\ k < D => Compare(Plus(small, k, "year"), big) = -1
         /\ k > D => Compare(Plus(small, k, "year"), big) = 1
         /\ k = D => Compare(Plus(small, k, "year"), big) =
              IF small.month < big.month THEN -1 ELSE IF small.month > big.month THEN 1
              ELSE Sign((IF small.day > GetMonthLength(big.year, big.month)
                         THEN GetMonthLength(big.year, big.month) ELSE small.day) - big.day)
<1>1. /\ small.year \in Int /\ small.month \in 1..12 /\ small.day \in 1..31
      /\ big.year \in Int /\ big.month \in 1..12 /\ big.day \in 1..31
  BY DEF Proper
<1>2. PICK y \in Int, m \in 1..12 : y = small.year + k /\ m = small.month
  BY <1>1
<1>3. PICK d : d = IF small.day > GetMonthLength(y, m) THEN GetMonthLength(y, m) ELSE small.day
  OBVIOUS
<1>4. Plus(small, k, "year") = Date(y, m, d)
  BY <1>2, <1>3 DEF Plus, PlusYears, Clipped
<1>5. Compare(Date(y, m, d), big) = IF y # big.year THEN Sign(y - big.year)
                                    ELSE IF m # big.month THEN Sign(m - big.month) ELSE Sign(d - big.day)
  BY DEF Date, Compare
<1>6. y - big.year = k - D
  BY <1>1, <1>2
<1> QED
  BY <1>1, <1>2, <1>3, <1>4, <1>5, <1>6 DEF Sign

\* diff in years counts the full ones.
LEMMA YearsBetweenIs ==
  ASSUME NEW small \in Proper, NEW big \in Proper, Compare(big, small) \in {0, 1}
  PROVE  /\ YearsBetween(big, small) \in Nat
         /\ Compare(big, small) = 0 => YearsBetween(big, small) = 0
         /\ FullUnits(small, big, YearsBetween(big, small), "year")
<1>1. PICK y \in Int, m \in 1..12, d \in 1..31, z \in Int, n \in 1..12, e \in 1..31, len \in 28..31, len2 \in 28..31 :
         /\ y = big.year /\ m = big.month /\ d = big.day
         /\ z = small.year /\ n = small.month /\ e = small.day
         /\ len = GetMonthLength(y, m) /\ d <= len
         /\ len2 = GetMonthLength(z, n) /\ e <= len2
  BY MonthLength DEF Proper
<1>2. m = n => len2 <= len + 1
  BY <1>1 DEF GetMonthLength
<1>3. PICK D \in Int, D1 \in {0, 1} :
         /\ D = y - z
         /\ D1 = IF m < n \/ (m = n /\ d < e /\ ~(d = len /\ e = len2)) THEN 1 ELSE 0
  OBVIOUS
<1>4. YearsBetween(big, small) = D - D1
  BY <1>1, <1>3 DEF YearsBetween, IsLastOfMonth
<1>5. Compare(big, small) = IF y # z THEN Sign(y - z) ELSE IF m # n THEN Sign(m - n) ELSE Sign(d - e)
  BY <1>1 DEF Compare
<1>6. D - D1 \in Nat
  BY <1>3, <1>5 DEF Sign
<1>7. Compare(big, small) = 0 => D - D1 = 0
  BY <1>3, <1>5 DEF Sign
<1>8. ASSUME NEW k \in Int
      PROVE  /\ k < D => Compare(Plus(small, k, "year"), big) = -1
             /\ k > D => Compare(Plus(small, k, "year"), big) = 1
             /\ k = D => Compare(Plus(small, k, "year"), big) =
                  IF n < m THEN -1 ELSE IF n > m THEN 1 ELSE Sign((IF e > len THEN len ELSE e) - d)
  BY <1>1, <1>3, PlusYearsCompares
<1>9. Compare(Plus(small, D - D1, "year"), big) <= 0
  <2>1. CASE D1 = 1
    BY <1>8, <2>1
  <2>2. CASE D1 = 0
    BY <1>1, <1>3, <1>8, <2>2 DEF Sign
  <2> QED
    BY <2>1, <2>2
<1>10. Compare(Plus(small, D - D1 + 1, "year"), big) = 1
  <2>1. CASE D1 = 0
    BY <1>8, <2>1
  <2>2. CASE D1 = 1
    <3>1. D - D1 + 1 = D
      BY <2>2
    <3> QED
      BY <1>1, <1>2, <1>3, <1>8, <2>2, <3>1 DEF Sign
  <2> QED
    BY <2>1, <2>2
<1> QED
  BY <1>4, <1>6, <1>7, <1>9, <1>10 DEF FullUnits

\* diff, from the later date and from the earlier one.
LEMMA DiffIs ==
  ASSUME NEW small \in Proper, NEW big \in Proper, Compare(big, small) \in {0, 1}, NEW u \in Unit
  PROVE  /\ FullUnits(small, big, Diff(big, small, u), u)
         /\ Diff(small, big, u) = -Diff(big, small, u)
<1> DEFINE between == CASE u = "day"   -> DaysBetween(big, small)
                        [] u = "week"  -> DaysBetween(big, small) \div 7
                        [] u = "month" -> MonthsBetween(big, small)
                        [] u = "year"  -> YearsBetween(big, small)
<1>1. /\ DayNumber(big) \in Int /\ DayNumber(small) \in Int
      /\ Compare(big, small) = Sign(DayNumber(big) - DayNumber(small))
      /\ Compare(small, big) = Sign(DayNumber(small) - DayNumber(big))
      /\ DayNumber(big) = DayNumber(small) => big = small
  BY NumbersInOrder
<1>2. small.year <= big.year
  BY DEF Compare, Sign, Proper
<1>3. DaysBetween(big, small) = DayNumber(big) - DayNumber(small)
  BY <1>2, DaysBetweenIs
<1>4. DayNumber(big) - DayNumber(small) \in Nat
  BY <1>1 DEF Sign
<1>5. PICK days \in Nat : days = DayNumber(big) - DayNumber(small)
  BY <1>4
<1>6. between \in Nat /\ FullUnits(small, big, between, u) /\ (Compare(big, small) = 0 => between = 0)
  <2>1. CASE u = "day"
    BY <1>1, <1>3, <1>5, <2>1 DEF FullUnits, Sign
  <2>2. CASE u = "week"
    <3>1. days \div 7 \in Nat /\ 7 * (days \div 7) <= days /\ days < 7 * (days \div 7 + 1)
      OBVIOUS
    <3>2. Compare(big, small) = 0 => days = 0
      BY <1>1, <1>5 DEF Sign
    <3> QED
      BY <1>3, <1>5, <2>2, <3>1, <3>2 DEF FullUnits
  <2>3. CASE u = "month"
    BY <2>3, MonthsBetweenIs
  <2>4. CASE u = "year"
    BY <2>4, YearsBetweenIs
  <2> QED
    BY <2>1, <2>2, <2>3, <2>4 DEF Unit
<1> HIDE DEF between
<1>7. CASE Compare(big, small) = 0
  <2>1. big = small /\ Compare(small, big) = 0
    BY <1>1, <1>7 DEF Sign
  <2>2. Diff(big, small, u) = 0 * between /\ Diff(small, big, u) = 0 * between
    BY <1>7, <2>1 DEF Diff, between
  <2>3. between = 0
    BY <1>6, <1>7
  <2>4. PICK x \in Int : x = Diff(big, small, u) /\ x = Diff(small, big, u) /\ x = between
    BY <1>6, <2>2, <2>3
  <2>5. -x = 0 - x
    OBVIOUS
  <2>6. 0 - x = x
    BY <2>3, <2>4
  <2> QED
    BY <1>6, <2>4, <2>5, <2>6
<1>8. CASE Compare(big, small) = 1
  <2>1. Compare(small, big) = -1
    BY <1>1, <1>8 DEF Sign
  <2>2. Diff(big, small, u) = 1 * between /\ Diff(small, big, u) = (-1) * between
    BY <1>8, <2>1 DEF Diff, between
  <2> QED
    BY <1>6, <2>2
<1> QED
  BY <1>7, <1>8

-----------------------------------------------------------------------------
\* The first days of months, that ranges in months and years go through.
FirstDays == [year : Int, month : 1..12, day : {1}]

\* Where one is in such a range.
Ordinal(a, u) == IF u = "month" THEN 12 * a.year + a.month ELSE a.year

\* They exist.
LEMMA FirstDaysAreProper ==
  ASSUME NEW a \in FirstDays
  PROVE  a \in Proper /\ a.year \in Int /\ a.month \in 1..12 /\ a.day = 1 /\ a = Date(a.year, a.month, 1)
<1>1. a.year \in Int /\ a.month \in 1..12 /\ a.day = 1 /\ a = [year |-> a.year, month |-> a.month, day |-> 1]
  BY DEF FirstDays
<1>2. GetMonthLength(a.year, a.month) \in 28..31
  BY <1>1, MonthLength
<1> QED
  BY <1>1, <1>2 DEF Proper, Date

\* And are made by Date.
LEMMA FirstDate ==
  ASSUME NEW y \in Int, NEW m \in 1..12
  PROVE  Date(y, m, 1) \in FirstDays /\ Date(y, m, 1).year = y /\ Date(y, m, 1).month = m
BY DEF FirstDays, Date

\* A step of k months or years from a first day.
LEMMA FirstDayMoves ==
  ASSUME NEW a \in FirstDays, NEW k \in Int, NEW u \in {"month", "year"}
  PROVE  /\ Plus(a, k, u) \in FirstDays
         /\ Ordinal(a, u) \in Int
         /\ Ordinal(Plus(a, k, u), u) = Ordinal(a, u) + k
         /\ u = "year" => Plus(a, k, u).month = a.month
<1>1. a \in Proper /\ a.year \in Int /\ a.month \in 1..12 /\ a.day = 1
  BY FirstDaysAreProper
<1>2. CASE u = "month"
  <2>1. PICK y \in Int, m \in 1..12 : 12 * y + m = 12 * a.year + a.month + k
    <3>1. 12 * a.year + a.month + k \in Int
      BY <1>1
    <3> QED
      BY <3>1, EveryMonth
  <2>2. GetMonthLength(y, m) \in 28..31
    BY MonthLength
  <2>3. Plus(a, k, "month") = Date(y, m, 1)
    BY <1>1, <2>1, <2>2, PlusMonthsIs
  <2>4. Date(y, m, 1) \in FirstDays /\ Date(y, m, 1).year = y /\ Date(y, m, 1).month = m
    BY FirstDate
  <2> QED
    BY <1>1, <1>2, <2>1, <2>3, <2>4 DEF Ordinal
<1>3. CASE u = "year"
  <2>1. PICK y \in Int, m \in 1..12 : y = a.year + k /\ m = a.month
    BY <1>1
  <2>2. GetMonthLength(y, m) \in 28..31
    BY MonthLength
  <2>3. Plus(a, k, "year") = Date(y, m, 1)
    BY <1>1, <2>1, <2>2 DEF Plus, PlusYears, Clipped
  <2> QED
    BY <1>1, <1>3, <2>1, <2>3, FirstDate DEF Ordinal
<1> QED
  BY <1>2, <1>3

\* Two such steps are one.
LEMMA FirstDayMovesOn ==
  ASSUME NEW a \in FirstDays, NEW k \in Int, NEW u \in {"month", "year"}
  PROVE  Plus(Plus(a, 1, u), k, u) = Plus(a, k + 1, u) /\ Plus(a, 0, u) = a
<1>1. ASSUME NEW b \in FirstDays, NEW c \in FirstDays, Ordinal(b, u) = Ordinal(c, u), u = "year" => b.month = c.month
      PROVE  b = c
  <2>1. b.year \in Int /\ b.month \in 1..12 /\ c.year \in Int /\ c.month \in 1..12
        /\ b = Date(b.year, b.month, 1) /\ c = Date(c.year, c.month, 1)
    BY FirstDaysAreProper
  <2>2. b.year = c.year /\ b.month = c.month
    BY <1>1, <2>1 DEF Ordinal
  <2> QED
    BY <2>1, <2>2
<1>2. PICK p \in FirstDays : p = Plus(a, 1, u)
  <2>1. 1 \in Int
    OBVIOUS
  <2> QED
    BY <2>1, FirstDayMoves
<1>3. PICK b \in FirstDays, c \in FirstDays, d \in FirstDays :
         b = Plus(p, k, u) /\ c = Plus(a, k + 1, u) /\ d = Plus(a, 0, u)
  <2>1. k + 1 \in Int /\ 0 \in Int
    OBVIOUS
  <2> QED
    BY <2>1, FirstDayMoves
<1>4. /\ Ordinal(a, u) \in Int
      /\ Ordinal(p, u) = Ordinal(a, u) + 1
      /\ Ordinal(d, u) = Ordinal(a, u) + 0
      /\ Ordinal(b, u) = Ordinal(p, u) + k
      /\ Ordinal(c, u) = Ordinal(a, u) + (k + 1)
      /\ u = "year" => p.month = a.month /\ b.month = p.month /\ d.month = a.month /\ c.month = a.month
  <2>1. /\ 1 \in Int /\ 0 \in Int /\ k + 1 \in Int
    OBVIOUS
  <2>2. ASSUME NEW x \in FirstDays, NEW h \in Int
        PROVE  /\ Ordinal(x, u) \in Int /\ Ordinal(Plus(x, h, u), u) = Ordinal(x, u) + h
               /\ u = "year" => Plus(x, h, u).month = x.month
    BY FirstDayMoves
  <2>3. Ordinal(a, u) \in Int /\ Ordinal(p, u) = Ordinal(a, u) + 1 /\ (u = "year" => p.month = a.month)
    BY <1>2, <2>1, <2>2
  <2>4. Ordinal(d, u) = Ordinal(a, u) + 0 /\ (u = "year" => d.month = a.month)
    BY <1>3, <2>1, <2>2
  <2>5. Ordinal(b, u) = Ordinal(p, u) + k /\ (u = "year" => b.month = p.month)
    BY <1>3, <2>2
  <2>6. Ordinal(c, u) = Ordinal(a, u) + (k + 1) /\ (u = "year" => c.month = a.month)
    BY <1>3, <2>1, <2>2
  <2> QED
    BY <2>3, <2>4, <2>5, <2>6
<1>6. b = c
  BY <1>1, <1>4
<1>7. d = a
  BY <1>1, <1>4
<1> QED
  BY <1>2, <1>3, <1>6, <1>7

(* A range in months or years has as many elements as diff counts between   *)
(* the starts of its ends, however many (localDate.ts:779-829).             *)
THEOREM RangeCounts ==
  ASSUME NEW small \in Proper, NEW big \in Proper, NEW u \in {"month", "year"}, Compare(big, small) \in {0, 1}
  PROVE  Len(RangeOf(small, big, TRUE, FALSE, 1, u)) = Diff(StartOf(big, u), StartOf(small, u), u)
<1>1. PICK first \in FirstDays, max \in FirstDays :
         /\ first = StartOf(small, u) /\ max = StartOf(big, u)
         /\ u = "year" => first.month = 1 /\ max.month = 1
         /\ Ordinal(first, u) = Ordinal(small, u) /\ Ordinal(max, u) = Ordinal(big, u)
  <2>1. small.year \in Int /\ small.month \in 1..12 /\ big.year \in Int /\ big.month \in 1..12
    BY DEF Proper
  <2> QED
    BY <2>1, FirstDate DEF StartOf, Ordinal
<1>2. Ordinal(max, u) \in Int /\ Ordinal(first, u) \in Int /\ Ordinal(first, u) <= Ordinal(max, u)
  <2>1. Ordinal(max, u) \in Int /\ Ordinal(first, u) \in Int
    BY FirstDaysAreProper DEF Ordinal
  <2>2. Ordinal(small, u) <= Ordinal(big, u)
    BY DEF Compare, Sign, Ordinal, Proper
  <2> QED
    BY <1>1, <2>1, <2>2
<1>3. Diff(max, first, u) = Ordinal(max, u) - Ordinal(first, u)
  <2>1. max.year \in Int /\ max.month \in 1..12 /\ max.day = 1 /\ first.year \in Int /\ first.month \in 1..12 /\ first.day = 1
    BY FirstDaysAreProper
  <2>2. MonthsBetween(max, first) = 12 * max.year + max.month - (12 * first.year + first.month)
    BY <2>1 DEF MonthsBetween
  <2>3. u = "year" => YearsBetween(max, first) = max.year - first.year
    BY <1>1, <2>1 DEF YearsBetween
  <2>4. Compare(max, first) = IF Ordinal(max, u) = Ordinal(first, u) THEN 0 ELSE 1
    BY <1>1, <1>2, <2>1 DEF Compare, Sign, Ordinal
  <2>5. CASE Ordinal(max, u) = Ordinal(first, u)
    <3>1. max = first
      BY <1>1, <2>1, <2>5, FirstDaysAreProper DEF Ordinal
    <3>2. Diff(max, first, u) = 0 * (IF u = "month" THEN MonthsBetween(first, max) ELSE YearsBetween(first, max))
      BY <2>4, <2>5, <3>1 DEF Diff
    <3>3. MonthsBetween(first, max) = 0 /\ (u = "year" => YearsBetween(first, max) = 0)
      BY <2>1, <2>2, <2>3, <3>1
    <3> QED
      BY <1>2, <2>5, <3>2, <3>3
  <2>6. CASE Ordinal(max, u) # Ordinal(first, u)
    <3>1. Diff(max, first, u) = 1 * (IF u = "month" THEN MonthsBetween(max, first) ELSE YearsBetween(max, first))
      BY <2>4, <2>6 DEF Diff
    <3> QED
      BY <2>1, <2>2, <2>3, <3>1 DEF Ordinal
  <2> QED
    BY <2>5, <2>6
<1> DEFINE ahead(a) == IF Ordinal(a, u) < Ordinal(max, u) THEN Ordinal(max, u) - Ordinal(a, u) ELSE 0
           body(f) == [at \in FirstDays |->
                         IF IsBefore(at, max, FALSE) THEN <<at>> \o f[Plus(at, 1, u)] ELSE <<>>]
           g == [a \in FirstDays |-> [k \in 1..ahead(a) |-> Plus(a, k - 1, u)]]
           F == CHOOSE f : f = body(f)
<1>4. ASSUME NEW a \in FirstDays
      PROVE  /\ ahead(a) \in Nat
             /\ IsBefore(a, max, FALSE) <=> ahead(a) # 0
             /\ ahead(a) # 0 => ahead(Plus(a, 1, u)) = ahead(a) - 1
  <2>1. Ordinal(a, u) \in Int /\ Ordinal(Plus(a, 1, u), u) = Ordinal(a, u) + 1
    <3>1. 1 \in Int
      OBVIOUS
    <3> QED
      BY <3>1, FirstDayMoves
  <2>2. a.year \in Int /\ a.month \in 1..12 /\ a.day = 1 /\ max.year \in Int /\ max.month \in 1..12 /\ max.day = 1
    BY FirstDaysAreProper
  <2>3. IsBefore(a, max, FALSE) <=> Ordinal(a, u) < Ordinal(max, u)
    BY <1>1, <2>2 DEF IsBefore, Compare, Sign, Ordinal
  <2>4. ahead(a) \in Nat /\ (ahead(a) # 0 <=> Ordinal(a, u) < Ordinal(max, u))
    BY <1>2, <2>1
  <2>5. ahead(a) # 0 => ahead(Plus(a, 1, u)) = ahead(a) - 1
    BY <1>2, <2>1
  <2> QED
    BY <2>3, <2>4, <2>5
<1> HIDE DEF ahead
<1>5. ASSUME NEW a \in FirstDays
      PROVE  g[a] = IF IsBefore(a, max, FALSE) THEN <<a>> \o g[Plus(a, 1, u)] ELSE <<>>
  <2>1. CASE ahead(a) = 0
    <3>1. g[a] = <<>>
      BY <2>1
    <3> QED
      BY <1>4, <2>1, <3>1
  <2>2. CASE ahead(a) # 0
    <3>1. PICK p \in FirstDays, n \in Nat : p = Plus(a, 1, u) /\ ahead(a) = n + 1 /\ ahead(p) = n
      <4>1. PICK l \in Nat : l = ahead(a)
        BY <1>4
      <4>2. l - 1 \in Nat /\ l = (l - 1) + 1 /\ 1 \in Int
        BY <2>2, <4>1
      <4>3. Plus(a, 1, u) \in FirstDays
        BY <4>2, FirstDayMoves
      <4>4. ahead(Plus(a, 1, u)) = l - 1
        BY <1>4, <2>2, <4>1
      <4> QED
        BY <4>1, <4>2, <4>3, <4>4
    <3>2. g[p] = [k \in 1..n |-> Plus(p, k - 1, u)] /\ g[a] = [k \in 1..(n + 1) |-> Plus(a, k - 1, u)]
      BY <3>1
    <3>3. ASSUME NEW k \in 1..n
          PROVE  Plus(p, k - 1, u) = Plus(a, k, u)
      <4>1. k - 1 \in Int /\ (k - 1) + 1 = k
        OBVIOUS
      <4> QED
        BY <3>1, <4>1, FirstDayMovesOn
    <3>4. g[p] = [k \in 1..n |-> Plus(a, k, u)]
      BY <3>2, <3>3
    <3>5. Plus(a, 0, u) = a
      BY FirstDayMovesOn
    <3>6. g[a] \in Seq(FirstDays) /\ g[p] \in Seq(FirstDays) /\ Len(g[a]) = n + 1 /\ Len(g[p]) = n
      <4>1. ASSUME NEW k \in 1..n
            PROVE  Plus(a, k, u) \in FirstDays
        <5>1. k \in Int
          OBVIOUS
        <5> QED
          BY <5>1, FirstDayMoves
      <4>2. ASSUME NEW k \in 1..(n + 1)
            PROVE  Plus(a, k - 1, u) \in FirstDays
        <5>1. k - 1 \in Int
          OBVIOUS
        <5> QED
          BY <5>1, FirstDayMoves
      <4>3. ASSUME NEW l \in Nat, NEW e \in [1..l -> FirstDays]
            PROVE  e \in Seq(FirstDays) /\ Len(e) = l
        OBVIOUS
      <4> HIDE DEF g
      <4>4. g[a] \in [1..(n + 1) -> FirstDays] /\ g[p] \in [1..n -> FirstDays]
        BY <3>2, <3>4, <4>1, <4>2
      <4>5. n + 1 \in Nat
        OBVIOUS
      <4> QED
        BY <4>3, <4>4, <4>5
    <3>7. g[a][1] = a /\ \A k \in 1..n : g[a][k + 1] = g[p][k]
      <4> HIDE DEF g
      <4>1. g[a][1] = Plus(a, 1 - 1, u) /\ 1 - 1 = 0
        BY <3>2
      <4>2. ASSUME NEW k \in 1..n
            PROVE  g[a][k + 1] = g[p][k]
        <5>1. k + 1 \in 1..(n + 1) /\ (k + 1) - 1 = k
          OBVIOUS
        <5> QED
          BY <3>2, <3>4, <5>1
      <4> QED
        BY <3>5, <4>1, <4>2
    <3>8. g[a] = <<a>> \o g[p]
      <4> HIDE DEF g
      <4>1. PICK s \in Seq(FirstDays), r \in Seq(FirstDays) : s = g[a] /\ r = g[p]
        BY <3>6
      <4>2. Len(s) = n + 1 /\ Len(r) = n /\ s[1] = a /\ \A k \in 1..n : s[k + 1] = r[k]
        BY <3>6, <3>7, <4>1
      <4>3. <<a>> \o r \in Seq(FirstDays) /\ Len(<<a>> \o r) = n + 1 /\ (<<a>> \o r)[1] = a
            /\ \A k \in 1..n : (<<a>> \o r)[k + 1] = r[k]
        BY <4>2
      <4> QED
        BY <4>1, <4>2, <4>3
    <3> QED
      BY <1>4, <2>2, <3>1, <3>8
  <2> QED
    BY <2>1, <2>2
<1>6. F = body(F)
  <2>1. g = [a \in FirstDays |-> g[a]]
    OBVIOUS
  <2> HIDE DEF g
  <2>2. g = body(g)
    BY <1>5, <2>1
  <2> HIDE DEF body
  <2> QED
    BY <2>2
<1> HIDE DEF g
<1>7. RangeOf(small, big, TRUE, FALSE, 1, u) = F[first]
  <2>1. FirstDays = [year : Int, month : 1..12, day : IF u = "day" THEN 1..31 ELSE {1}]
    BY DEF FirstDays
  <2> QED
    BY <1>1, <2>1 DEF RangeOf
<1> HIDE DEF F
<1>8. \A a \in FirstDays : F[a] = IF ahead(a) # 0 THEN <<a>> \o F[Plus(a, 1, u)] ELSE <<>>
  BY <1>4, <1>6
<1> DEFINE Good(a) == F[a] \in Seq(FirstDays) /\ Len(F[a]) = ahead(a)
           Bad == {k \in Nat : \E a \in FirstDays : ahead(a) = k /\ ~Good(a)}
<1> HIDE DEF Bad
<1>9. ASSUME NEW k \in Bad, \A j \in Bad : k <= j
      PROVE  FALSE
  <2>1. PICK a \in FirstDays : ahead(a) = k /\ ~Good(a) /\ k \in Nat
    BY DEF Bad
  <2>2. CASE k = 0
    <3>1. F[a] = <<>>
      BY <1>8, <2>1, <2>2
    <3>2. <<>> \in Seq(FirstDays) /\ Len(<<>>) = 0
      OBVIOUS
    <3> QED
      BY <2>1, <2>2, <3>1, <3>2
  <2>3. CASE k # 0
    <3>1. PICK p \in FirstDays : p = Plus(a, 1, u)
      <4>1. 1 \in Int
        OBVIOUS
      <4> QED
        BY <4>1, FirstDayMoves
    <3>2. ahead(p) = k - 1 /\ k - 1 \in Nat
      BY <1>4, <2>1, <2>3, <3>1
    <3>3. k - 1 \notin Bad
      <4>1. k - 1 < k /\ k - 1 \in Int /\ k \in Int
        BY <2>1
      <4> QED
        BY <1>9, <4>1
    <3>4. Good(p)
      BY <3>2, <3>3 DEF Bad
    <3>5. F[a] = <<a>> \o F[p]
      BY <1>8, <2>1, <2>3, <3>1
    <3>6. PICK s \in Seq(FirstDays) : s = F[p] /\ Len(s) = k - 1
      BY <3>2, <3>4
    <3>7. <<a>> \o s \in Seq(FirstDays) /\ Len(<<a>> \o s) = 1 + Len(s)
      OBVIOUS
    <3> QED
      BY <2>1, <3>5, <3>6, <3>7
  <2> QED
    BY <2>2, <2>3
<1>10. Bad = {}
  <2>1. Bad \in SUBSET Nat
    BY DEF Bad
  <2> QED
    BY <1>9, <2>1, Least
<1>11. Len(F[first]) = ahead(first)
  BY <1>4, <1>10 DEF Bad
<1>12. ahead(first) = Ordinal(max, u) - Ordinal(first, u)
  BY <1>2 DEF ahead
<1> QED
  BY <1>1, <1>3, <1>7, <1>11, <1>12

(* Days and weeks that are added are taken off again by as many, and days   *)
(* are what diff finds between, backwards and forwards (localDate.ts:233,   *)
(* 329-402).                                                                *)
THEOREM ThereAndBack ==
  ASSUME NEW a \in Proper, NEW n \in Int
  PROVE  /\ \A u \in {"day", "week"} : Plus(Plus(a, n, u), -n, u) = a
         /\ Diff(Plus(a, n, "day"), a, "day") = n
<1>1. -n \in Int /\ DayNumber(a) \in Int /\ {"day", "week"} \subseteq Unit
  BY NumbersInOrder DEF Unit
<1>2. ASSUME NEW u \in {"day", "week"}
      PROVE  Plus(Plus(a, n, u), -n, u) = a
  <2>1. PICK b \in Proper : b = Plus(a, n, u)
    BY <1>1, PlusIsDate
  <2>2. PICK c \in Proper : c = Plus(b, -n, u)
    BY <1>1, PlusIsDate
  <2>3. /\ u = "day"  => DayNumber(b) = DayNumber(a) + n /\ DayNumber(c) = DayNumber(b) + (-n)
        /\ u = "week" => DayNumber(b) = DayNumber(a) + 7 * n /\ DayNumber(c) = DayNumber(b) + 7 * (-n)
    BY <1>1, <2>1, <2>2, PlusIsDate
  <2>4. DayNumber(c) = DayNumber(a)
    BY <1>1, <2>3
  <2> QED
    BY <2>1, <2>2, <2>4, NumbersInOrder
<1>3. PICK b \in Proper : b = Plus(a, n, "day") /\ DayNumber(b) = DayNumber(a) + n
  BY <1>1, PlusIsDate
<1>4. /\ Compare(b, a) = Sign(DayNumber(b) - DayNumber(a))
      /\ Compare(a, b) = Sign(DayNumber(a) - DayNumber(b))
  BY NumbersInOrder
<1>5. CASE n >= 0
  <2>1. Compare(b, a) \in {0, 1}
    BY <1>1, <1>3, <1>4, <1>5 DEF Sign
  <2>2. FullUnits(a, b, Diff(b, a, "day"), "day")
    BY <1>1, <2>1, DiffIs
  <2>3. Diff(b, a, "day") = DayNumber(b) - DayNumber(a)
    BY <2>2 DEF FullUnits
  <2> QED
    BY <1>1, <1>2, <1>3, <2>3
<1>6. CASE n < 0
  <2>1. Compare(a, b) \in {0, 1}
    BY <1>1, <1>3, <1>4, <1>6 DEF Sign
  <2>2. FullUnits(b, a, Diff(a, b, "day"), "day") /\ Diff(b, a, "day") = -Diff(a, b, "day")
    BY <1>1, <2>1, DiffIs
  <2>3. Diff(a, b, "day") = DayNumber(a) - DayNumber(b)
    BY <2>2 DEF FullUnits
  <2> QED
    BY <1>1, <1>2, <1>3, <2>2, <2>3
<1> QED
  BY <1>5, <1>6

(* diff counts the full units between two dates, backwards as forwards, and *)
(* as many as a range has elements.                                         *)
THEOREM AlwaysFullUnits == LocalDateSpec => []DiffCountsFullUnits
<1>1. WalkInv => DiffCountsFullUnits
  <2> SUFFICES ASSUME WalkInv
               PROVE  DiffCountsFullUnits
    OBVIOUS
  <2> DEFINE later == IF Compare(date, before) = 1 THEN date ELSE before
             earlier == IF later = date THEN before ELSE date
  <2>1. date \in Proper /\ before \in Proper
    BY DatesAreProper DEF WalkInv
  <2>2. /\ Compare(date, before) = Sign(DayNumber(date) - DayNumber(before))
        /\ Compare(before, date) = Sign(DayNumber(before) - DayNumber(date))
        /\ DayNumber(date) \in Int /\ DayNumber(before) \in Int
        /\ Compare(before, before) = Sign(DayNumber(before) - DayNumber(before))
    BY <2>1, NumbersInOrder
  <2>3. later \in Proper /\ earlier \in Proper /\ Compare(later, earlier) \in {0, 1}
    <3>1. CASE Compare(date, before) = 1
      BY <2>1, <3>1
    <3>2. CASE Compare(date, before) # 1
      <4>1. Compare(before, date) \in {0, 1} /\ Compare(before, before) = 0
        BY <2>2, <3>2 DEF Sign
      <4> QED
        BY <2>1, <3>2, <4>1
    <3> QED
      BY <3>1, <3>2
  <2> HIDE DEF later, earlier
  <2>4. ASSUME NEW u \in Unit
        PROVE  LET n == Diff(later, earlier, u) IN
                 /\ FullUnits(earlier, later, n, u)
                 /\ Diff(earlier, later, u) = -n
                 /\ u \in {"month", "year"} /\ n <= 100 =>
                      Len(RangeOf(earlier, later, TRUE, FALSE, 1, u)) =
                        Diff(StartOf(later, u), StartOf(earlier, u), u)
    BY <2>3, DiffIs, RangeCounts
  <2> QED
    BY <2>4 DEF DiffCountsFullUnits, later, earlier
<1>2. LocalDateSpec => []WalkInv
  BY AlwaysWalkInv
<1> QED
  BY <1>1, <1>2, PTL
=============================================================================
