-------------------------------- MODULE Retry -------------------------------
(***************************************************************************)
(* js-lib/src/promise: one call of pRetry, or of pTimeout alone, around a    *)
(* function.  A function that has timed out goes on running, beside the      *)
(* attempts after it, and settles whenever it likes, or never.               *)
(***************************************************************************)
EXTENDS Integers

CONSTANT MaxAttempts  \* bound on opt.maxAttempts

ASSUME RetryAssumption == MaxAttempts \in Nat \ {0}

VARIABLES retry,    \* who is called, with which options
          rpc,      \* where pRetry is
          attempt,
          fn,       \* the promise of the function, for each attempt
          expired,  \* history: attempts that have timed out
          answer    \* where the outcome comes from: an attempt, 0 for onTimeout

retryVars == <<retry, rpc, attempt, fn, expired, answer>>

Attempt == 1..MaxAttempts

\* With maxAttempts of 0 there still is one attempt.  pTimeout alone, which has
\* onTimeout, makes one as well.
RetryOptions ==
  [maxAttempts : 0..MaxAttempts, predicate : BOOLEAN, timeout : BOOLEAN, onTimeout : {"none"}]
  \cup [maxAttempts : {1}, predicate : {FALSE}, timeout : BOOLEAN,
        onTimeout : {"none", "returns", "throws"}]

RetryInit ==
  /\ retry \in RetryOptions
  /\ rpc = "retrying"
  /\ attempt = 0
  /\ fn = [a \in Attempt |-> "none"]
  /\ expired = {}
  /\ answer = -1

-----------------------------------------------------------------------------
\* An attempt, at once or after the delay: the function is called, the timer
\* of pTimeout set.
Try ==
  /\ rpc = "retrying"
  /\ rpc' = "trying"
  /\ attempt' = attempt + 1
  /\ fn' = [fn EXCEPT ![attempt + 1] = "running"]
  /\ UNCHANGED <<retry, expired, answer>>

\* The attempt has failed: give up, or go on after a delay.
Failed ==
  \/ /\ attempt >= retry.maxAttempts \/ retry.predicate
     /\ rpc' = "rejected" /\ answer' = attempt
  \/ /\ attempt < retry.maxAttempts
     /\ rpc' = "retrying" /\ UNCHANGED answer

\* Mutant: any attempt settles the promise, as if they had one for all.
IsAwaited_Any(a) == rpc = "trying"
\* A promise that has settled ignores what comes later.
IsAwaited(a) == rpc = "trying" /\ a = attempt

Resolves(a) ==
  /\ fn[a] = "running"
  /\ fn' = [fn EXCEPT ![a] = "resolved"]
  /\ IF IsAwaited(a) THEN rpc' = "resolved" /\ answer' = a ELSE UNCHANGED <<rpc, answer>>
  /\ UNCHANGED <<retry, attempt, expired>>

Rejects(a) ==
  /\ fn[a] = "running"
  /\ fn' = [fn EXCEPT ![a] = "rejected"]
  /\ IF IsAwaited(a) THEN Failed ELSE UNCHANGED <<rpc, answer>>
  /\ UNCHANGED <<retry, attempt, expired>>

\* The timer of pTimeout fires before its function has settled.
TimesOut ==
  /\ rpc = "trying" /\ retry.timeout
  /\ expired' = expired \cup {attempt}
  /\ IF retry.onTimeout = "returns" THEN rpc' = "resolved" /\ answer' = 0 ELSE Failed
  /\ UNCHANGED <<retry, attempt, fn>>

RetryNext ==
  \/ Try \/ TimesOut
  \/ \E a \in Attempt : Resolves(a) \/ Rejects(a)

RetrySpec == RetryInit /\ [][RetryNext]_retryVars

-----------------------------------------------------------------------------
(* The answer is that of the last attempt, which has resolved or failed in  *)
(* its time, or timed out; none was made after one that had succeeded in    *)
(* its time.  pRetry gives up only after maxAttempts, or if its predicate    *)
(* says so; whatever attempts that timed out do later (pRetry.ts:123-174,   *)
(* pTimeout.ts:69-107).                                                     *)
AnswerIsOfLastAttempt ==
  /\ \A a \in Attempt : a < attempt => fn[a] = "rejected" \/ a \in expired
  /\ rpc = "resolved" =>
       IF answer = 0 THEN retry.onTimeout = "returns" /\ attempt \in expired
       ELSE answer = attempt /\ fn[attempt] = "resolved" /\ attempt \notin expired
  /\ rpc = "rejected" =>
       /\ answer = attempt /\ (fn[attempt] = "rejected" \/ attempt \in expired)
       /\ attempt >= retry.maxAttempts \/ retry.predicate
  /\ attempt > 1 => attempt <= retry.maxAttempts
=============================================================================
