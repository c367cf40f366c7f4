------------------------------ MODULE Debounce ------------------------------
(***************************************************************************)
(* js-lib/src/decorators/debounce.ts: _debounce and _throttle, a function    *)
(* whose calls are put off, with the timers of setTimeout.  Time goes in     *)
(* ticks; instants are kept as their ages, up to Old, from where on nothing  *)
(* tells them apart, nor from an instant that is undefined.  A timer fires   *)
(* at most MaxLate ticks late.  One that is not timerId any more goes on     *)
(* running.  The clock does not go back.                                     *)
(***************************************************************************)
EXTENDS Integers, FiniteSets

CONSTANTS MaxWait,   \* bound on wait and maxWait
          MaxLate,   \* bound on the lateness of a timer
          MaxTimers, \* bound on the timers at a time
          NoTimer    \* a timer that is not running

ASSUME DebounceAssumption ==
  /\ MaxWait \in Nat \ {0} /\ MaxLate \in Nat /\ MaxTimers \in Nat \ {0}
  /\ NoTimer \notin Int

Old == MaxWait + MaxLate + 1

VARIABLES opt,        \* wait, leading, trailing, maxing, maxWait
          sinceCall,  \* the age of lastCallTime
          sinceInvoke, \* the age of lastInvokeTime
          lastArgs,   \* there is a call that func has not been invoked for
          timers,     \* for each timer: the ticks left until it is due
          timerId,    \* the current one, or 0
          waits       \* history: the age of the first call not invoked for

debounceVars == <<opt, sinceCall, sinceInvoke, lastArgs, timers, timerId, waits>>

Timer == 1..MaxTimers
Age == 0..Old

\* wait is positive: with setTimeout(f, 0) there is nothing to put off.
Options == {o \in [wait : 1..MaxWait, leading : BOOLEAN, trailing : BOOLEAN,
                   maxing : BOOLEAN, maxWait : 1..MaxWait] :
              IF o.maxing THEN o.maxWait >= o.wait ELSE o.maxWait = o.wait}

DebounceInit ==
  /\ opt \in Options
  /\ sinceCall = Old
  /\ sinceInvoke = Old
  /\ lastArgs = FALSE
  /\ timers = [t \in Timer |-> NoTimer]
  /\ timerId = 0
  /\ waits = 0

-----------------------------------------------------------------------------
Older(age) == IF age = Old THEN Old ELSE age + 1

Free == {t \in Timer : timers[t] = NoTimer}

\* startTimer(timerExpired, ticks), which becomes the current one.
StartTimer(others, ticks) ==
  \E t \in Timer :
    /\ others[t] = NoTimer
    /\ \A u \in Timer : others[u] = NoTimer => t <= u
    /\ timers' = [others EXCEPT ![t] = ticks]
    /\ timerId' = t

\* func is invoked.
Invoke == /\ lastArgs' = FALSE
          /\ sinceInvoke' = 0
          /\ waits' = 0

ShouldInvoke ==
  \/ sinceCall >= opt.wait
  \/ opt.maxing /\ sinceInvoke >= opt.maxWait

\* Mutant: maxWait plays no part in the time that is left.
RemainingWait_NoMax == opt.wait - sinceCall
RemainingWait ==
  LET quiet == opt.wait - sinceCall
      longest == opt.maxWait - sinceInvoke IN
  IF opt.maxing /\ longest < quiet THEN longest ELSE quiet

TrailingEdge ==
  /\ timerId' = 0
  /\ IF opt.trailing /\ lastArgs THEN Invoke
     ELSE lastArgs' = FALSE /\ waits' = 0 /\ UNCHANGED sinceInvoke

\* The call is put off: func has not been invoked for it.
PutOff == /\ lastArgs' = TRUE
          /\ UNCHANGED <<sinceInvoke, waits>>

\* debounced() where func is to be invoked and no timer is current.
LeadingEdge ==
  /\ ShouldInvoke /\ timerId = 0
  /\ sinceInvoke' = 0
  /\ lastArgs' = ~opt.leading
  /\ waits' = IF opt.leading THEN 0 ELSE waits
  /\ StartTimer(timers, opt.wait)

\* In a tight loop: the current timer is replaced, and goes on running.
InvokeInLoop ==
  /\ ShouldInvoke /\ timerId # 0 /\ opt.maxing
  /\ Invoke
  /\ StartTimer(timers, opt.wait)

CallLater ==
  /\ ~ShouldInvoke \/ (timerId # 0 /\ ~opt.maxing)
  /\ PutOff
  /\ IF timerId = 0 THEN StartTimer(timers, opt.wait) ELSE UNCHANGED <<timers, timerId>>

Debounced ==
  /\ Free # {}
  /\ sinceCall' = 0
  /\ LeadingEdge \/ InvokeInLoop \/ CallLater
  /\ UNCHANGED opt

\* timerExpired, of any timer that is due.
TimerExpired(t) ==
  LET others == [timers EXCEPT ![t] = NoTimer] IN
  /\ timers[t] # NoTimer
  /\ timers[t] <= 0
  /\ \/ /\ ShouldInvoke
        /\ TrailingEdge
        /\ timers' = others
     \/ /\ ~ShouldInvoke
        /\ StartTimer(others, RemainingWait)
        /\ UNCHANGED <<lastArgs, sinceInvoke, waits>>
  /\ UNCHANGED <<opt, sinceCall>>

Flush ==
  /\ timerId # 0
  /\ TrailingEdge
  /\ UNCHANGED <<opt, sinceCall, timers>>

Cancel ==
  /\ timers' = IF timerId = 0 THEN timers ELSE [timers EXCEPT ![timerId] = NoTimer]
  /\ sinceInvoke' = Old
  /\ sinceCall' = Old
  /\ lastArgs' = FALSE
  /\ waits' = 0
  /\ timerId' = 0
  /\ UNCHANGED opt

\* A tick, as long as no timer is overdue.
Tick ==
  /\ \A t \in Timer : timers[t] # NoTimer => timers[t] > -MaxLate
  /\ sinceCall' = Older(sinceCall)
  /\ sinceInvoke' = Older(sinceInvoke)
  /\ waits' = IF lastArgs THEN Older(waits) ELSE 0
  /\ timers' = [t \in Timer |-> IF timers[t] = NoTimer THEN NoTimer ELSE timers[t] - 1]
  /\ UNCHANGED <<opt, lastArgs, timerId>>

DebounceNext == Debounced \/ (\E t \in Timer : TimerExpired(t)) \/ Flush \/ Cancel \/ Tick

DebounceSpec == DebounceInit /\ [][DebounceNext]_debounceVars

-----------------------------------------------------------------------------
(* A call that was put off is not forgotten, whatever timers were left      *)
(* running by maxWait, flush() and cancel(): func is invoked for it once    *)
(* wait has passed without a call, and after maxWait in any case, up to     *)
(* the lateness of one timer (debounce.ts:81-163).                          *)
InvokedInTime ==
  lastArgs /\ opt.trailing =>
    /\ sinceCall <= opt.wait + MaxLate
    /\ opt.maxing => waits <= opt.maxWait + MaxLate
=============================================================================
