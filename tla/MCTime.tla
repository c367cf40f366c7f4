-------------------------------- MODULE MCTime ------------------------------
(* What depends on time: dates, functions that are put off, timeouts with   *)
(* retries, and the timers of a server.  The four share nothing, so each    *)
(* behaviour is one of one of them: focus.                                  *)
(* The dates are every day of years around leap days, one that is left out, *)
(* in 1900, and one that is not, in 2000, moved across the ends of months   *)
(* and of years and from one century into the other.                        *)
EXTENDS LocalDate, Debounce, Retry, BackendServer, TLC

CONSTANTS r1, r2, SIGINT, SIGTERM

VARIABLE focus

MCYears == (1896..1904) \cup (1999..2001)
MCMoves == ({-1, 1, 28, 31, -60, 366, -1461} \X {"day"})
           \cup ({-1, 5, 53} \X {"week"})
           \cup ({-13, -1, 1, 11, 48, 1200} \X {"month"})
           \cup ({-1, 1, 4, 100} \X {"year"})
MCRequest == {r1, r2}
MCReason == {SIGINT, SIGTERM}

Init ==
  /\ focus \in {"dates", "debounce", "retry", "server"}
  /\ IF focus = "dates" THEN LocalDateInit
     ELSE date = Date(2000, 1, 1) /\ before = date /\ num = 0 /\ unit = "day"
  /\ DebounceInit /\ RetryInit /\ ServerInit
  /\ focus # "debounce" =>
       opt = [wait |-> 1, leading |-> FALSE, trailing |-> TRUE, maxing |-> FALSE, maxWait |-> 1]
  /\ focus # "retry" => retry.maxAttempts = 0 /\ ~retry.timeout /\ ~retry.predicate
  /\ focus # "server" => hooked

Next ==
  /\ UNCHANGED focus
  /\ \/ focus = "dates" /\ Move /\ UNCHANGED <<debounceVars, retryVars, serverVars>>
     \/ focus = "debounce" /\ DebounceNext /\ UNCHANGED <<dateVars, retryVars, serverVars>>
     \/ focus = "retry" /\ RetryNext /\ UNCHANGED <<dateVars, debounceVars, serverVars>>
     \/ focus = "server" /\ ServerNext /\ UNCHANGED <<dateVars, debounceVars, retryVars>>

Spec == Init /\ [][Next]_<<focus, dateVars, debounceVars, retryVars, serverVars>>

Symmetric == Permutations(MCRequest) \cup Permutations(MCReason)
=============================================================================
