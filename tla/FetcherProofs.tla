---------------------------- MODULE FetcherProofs ----------------------------
(* A call of the fetcher does not repeat what it may not, does not give up  *)
(* without a reason, and tells one story of how it ended: for any requests  *)
(* and any bound on their retries.                                          *)
EXTENDS Fetcher, TLAPS

\* pc is at an await of the try under way, or after it failed.
Trying == pc \in {"fetching", "body", "errBody"}
Told == pc \in {"beforeRetry", "delay", "after", "done"}

Counts ==
  /\ retryAttempt <= req.count
  /\ tries \in {retryAttempt, retryAttempt + 1}
  /\ pc \in {"fetching", "body", "errBody", "beforeRetry"} => tries = retryAttempt + 1
  /\ pc = "delay" => tries = retryAttempt
  /\ pc = "start" => tries = 0 /\ retryAttempt = 0 /\ ~retryStopped
  /\ Trying \/ Told => tries # 0
  /\ body <= tries
  /\ pc = "beforeRetry" => req.hook

\* What is awaited is a part of the answer to the last try.
Awaits ==
  /\ pc \in {"body", "errBody"} => statusOf[tries] \in Status /\ fetchResponse = statusOf[tries]
  /\ pc = "body" => /\ req.throwHttpErrors => fetchResponse = "2xx"
                    /\ req.responseType # "void"
  /\ pc = "errBody" => req.throwHttpErrors /\ fetchResponse # "2xx"

\* A download that was given up on is of an earlier try, or of this one
\* once its body has been awaited.
Downloads ==
  \A k \in late : /\ k <= tries /\ (pc \in {"fetching", "body", "errBody"} => k # tries)
                  /\ pc # "start"
                  /\ req.throwHttpErrors => statusOf[k] = "2xx"

\* The outcome, from the moment there is one.
Story ==
  Told =>
    /\ ok => err = "none" /\ fetchResponse = "2xx"
    /\ fetchResponse \in {statusOf[tries], "none"}
    /\ fetchResponse = "none" => err # "none" /\ statusOf[tries] \in Failure
    /\ req.throwHttpErrors /\ ok => err = "none"
    /\ req.throwHttpErrors /\ ~ok => err = "HttpRequestError"
    /\ err = "HttpRequestError" /\ cause.of # "response" => cause.try = tries
    /\ ok /\ Reads /\ body # 0 /\ req.throwHttpErrors => statusOf[body] = "2xx"
    /\ pc \in {"beforeRetry", "delay"} => ~ok

\* Why it goes on, and why it does not.
Reasons ==
  ~req.hook =>
    /\ \A k \in Try : k < tries => Repeatable(k)
    /\ pc = "delay" => Repeatable(tries)
    /\ ~lateHit => /\ Trying \/ pc = "delay" => ~retryStopped
                   /\ Ended /\ err # "none" => \/ retryAttempt = req.count
                                               \/ ~Repeatable(tries)
                                               \/ ~Reads /\ ~req.throwHttpErrors

IInv == TypeOK /\ Counts /\ Awaits /\ Downloads /\ Story /\ Reasons

-----------------------------------------------------------------------------
\* Of the request only its count is a number.
LEMMA RequestTypes ==
  ASSUME TypeOK
  PROVE  /\ MaxCount \in Nat /\ req.count \in Nat /\ req.count <= MaxCount
         /\ tries \in Nat /\ retryAttempt \in Nat /\ body \in Nat /\ tries <= MaxCount + 1
         /\ \A k \in Nat : k \in Try <=> 1 <= k /\ k <= MaxCount + 1
         /\ req.responseType \in ResponseType
<1>1. MaxCount \in Nat /\ req \in Request
  BY FetcherAssumption DEF TypeOK
<1>2. req.count \in 0..MaxCount /\ req.responseType \in ResponseType
  BY <1>1 DEF Request
<1> QED
  BY <1>1, <1>2 DEF TypeOK, Try

\* The answers and failures are told apart.
LEMMA Kinds ==
  /\ Status \cap Failure = {} /\ "none" \notin Status \cup Failure
  /\ "body" \notin Status \cup Failure
  /\ "2xx" \in Status
  /\ \A f \in Failure : f = "redirect" \/ f = "network"
  /\ "redirect" \in Failure /\ "redirect" \notin Status
BY DEF Status, Failure

\* What is left of the last try when it has failed.
LEMMA NotOkGives ==
  ASSUME TypeOK, NEW status \in Status \cup {"none"}, NEW e \in Failure \cup {"none", "body"},
         NEW b \in 0..tries, retryAttempt <= req.count, retryAttempt + 1 = tries,
         NotOk(status, e, b)
  PROVE  /\ fetchResponse' = status /\ ok' = FALSE /\ err' = "HttpRequestError" /\ body' = b
         /\ cause' \in [of : Failure \cup {"none", "body", "response", "default"},
                        try : 0..(MaxCount + 1)]
         /\ cause'.of # "response" => cause'.try = tries
         /\ cause'.of = "redirect" <=> e = "redirect"
         /\ retryStopped' \in BOOLEAN /\ (retryStopped => retryStopped')
         /\ pc' \in {"beforeRetry", "after", "delay"}
         /\ retryAttempt' \in 0..MaxCount /\ retryAttempt' <= req.count
         /\ pc' = "delay" => /\ retryAttempt' = tries /\ ~retryStopped'
                             /\ ShouldRetry(status, cause')
         /\ pc' # "delay" => retryAttempt' = retryAttempt
         /\ pc' = "beforeRetry" => req.hook
         /\ pc' = "after" /\ ~retryStopped =>
              retryAttempt = req.count \/ ~ShouldRetry(status, cause')
<1> DEFINE why == CASE e # "none" -> [of |-> e, try |-> tries]
                    [] e = "none" /\ b # 0 -> [of |-> "response", try |-> b]
                    [] OTHER -> [of |-> "default", try |-> tries]
           stopped == Stopped(retryStopped, ShouldRetry(status, why))
           stop == stopped \/ OutOfRetries
<1>1. /\ fetchResponse' = status /\ ok' = FALSE /\ err' = "HttpRequestError" /\ body' = b
      /\ cause' = why /\ ProcessRetry(status, why)
  BY DEF NotOk, Wrapped
<1>2. /\ why \in [of : Failure \cup {"none", "body", "response", "default"},
                  try : 0..(MaxCount + 1)]
      /\ why.of # "response" => why.try = tries
      /\ why.of = "redirect" <=> e = "redirect"
  <2>0. tries \in 0..(MaxCount + 1) /\ b \in 0..(MaxCount + 1)
    BY RequestTypes
  <2>1. CASE e # "none"
    <3>1. why = [of |-> e, try |-> tries]
      BY <2>1
    <3> QED
      BY <2>0, <2>1, <3>1
  <2>2. CASE e = "none" /\ b # 0
    <3>1. why = [of |-> "response", try |-> b]
      BY <2>2
    <3> QED
      BY <2>0, <2>2, <3>1
  <2>3. CASE e = "none" /\ b = 0
    <3>1. why = [of |-> "default", try |-> tries]
      BY <2>3
    <3> QED
      BY <2>0, <2>3, <3>1
  <2> QED
    BY <2>1, <2>2, <2>3
<1> HIDE DEF why
<1>3. \/ req.hook /\ pc' = "beforeRetry" /\ retryStopped' = stopped /\ retryAttempt' = retryAttempt
      \/ /\ retryStopped' = stop
         /\ retryAttempt' = IF stop THEN retryAttempt ELSE retryAttempt + 1
         /\ pc' = IF stop THEN "after" ELSE "delay"
  BY <1>1 DEF ProcessRetry, Decide
<1>4. stopped <=> retryStopped \/ ~ShouldRetry(status, why)
  BY DEF Stopped
<1>5. OutOfRetries <=> retryAttempt = req.count
  BY RequestTypes DEF OutOfRetries
<1>6. stopped \in BOOLEAN /\ stop \in BOOLEAN
  BY DEF Stopped, TypeOK
<1> HIDE DEF stopped
<1>7. retryStopped' \in BOOLEAN /\ (retryStopped => retryStopped')
  BY <1>3, <1>4, <1>6
<1>8. CASE req.hook /\ pc' = "beforeRetry" /\ retryStopped' = stopped /\ retryAttempt' = retryAttempt
  BY <1>1, <1>2, <1>7, <1>8, RequestTypes
<1>9. CASE stop /\ pc' = "after" /\ retryAttempt' = retryAttempt
  BY <1>1, <1>2, <1>4, <1>5, <1>7, <1>9, RequestTypes
<1>10. CASE ~stop /\ retryStopped' = stop /\ pc' = "delay" /\ retryAttempt' = retryAttempt + 1
  <2>1. ~stopped /\ ~OutOfRetries /\ ~retryStopped'
    BY <1>6, <1>10
  <2>2. ShouldRetry(status, why) /\ ~retryStopped /\ retryAttempt # req.count
    BY <1>4, <1>5, <2>1
  <2>3. retryAttempt' \in 0..MaxCount /\ retryAttempt' <= req.count /\ retryAttempt' = tries
    BY <1>10, <2>2, RequestTypes
  <2> QED
    BY <1>1, <1>2, <1>10, <2>1, <2>2, <2>3
<1> QED
  BY <1>3, <1>8, <1>9, <1>10

(* A try that fails: what is known of it when NotOk is reached.             *)
LEMMA NotOkPreserves ==
  ASSUME IInv, Trying,
         NEW status \in Status \cup {"none"}, NEW e \in Failure \cup {"none", "body"},
         NEW b \in 0..tries, NotOk(status, e, b),
         UNCHANGED <<req, tries, lateHit>>,
         statusOf' \in [Try -> Status \cup Failure \cup {"none"}],
         \A k \in Try : k # tries => statusOf'[k] = statusOf[k],
         late' = late \/ (late' = late \cup {tries} /\ (req.throwHttpErrors => statusOf'[tries] = "2xx")),
         (status \in Status /\ status = statusOf'[tries]) \/ (status = "none" /\ statusOf'[tries] \in Failure),
         e = "redirect" <=> statusOf'[tries] = "redirect" /\ req.throwHttpErrors
  PROVE  IInv'
<1> USE DEF IInv
<1>1. /\ MaxCount \in Nat /\ req.count \in Nat /\ req.count <= MaxCount
      /\ tries \in Nat /\ retryAttempt \in Nat /\ body \in Nat /\ tries <= MaxCount + 1
      /\ tries \in Try /\ tries = retryAttempt + 1 /\ retryAttempt <= req.count
  <2>1. tries # 0 /\ tries = retryAttempt + 1 /\ retryAttempt <= req.count
    BY DEF Counts, Trying
  <2> QED
    BY <2>1, RequestTypes
<1>2. /\ fetchResponse' = status /\ ok' = FALSE /\ err' = "HttpRequestError" /\ body' = b
      /\ cause' \in [of : Failure \cup {"none", "body", "response", "default"},
                     try : 0..(MaxCount + 1)]
      /\ cause'.of # "response" => cause'.try = tries
      /\ cause'.of = "redirect" <=> e = "redirect"
      /\ retryStopped' \in BOOLEAN /\ (retryStopped => retryStopped')
      /\ pc' \in {"beforeRetry", "after", "delay"}
      /\ retryAttempt' \in 0..MaxCount /\ retryAttempt' <= req.count
      /\ pc' = "delay" => /\ retryAttempt' = tries /\ ~retryStopped'
                          /\ ShouldRetry(status, cause')
      /\ pc' # "delay" => retryAttempt' = retryAttempt
      /\ pc' = "beforeRetry" => req.hook
      /\ pc' = "after" /\ ~retryStopped =>
           retryAttempt = req.count \/ ~ShouldRetry(status, cause')
  BY <1>1, NotOkGives
<1>3. TypeOK'
  <2>1. late' \subseteq Try
    BY <1>1 DEF TypeOK
  <2>2. pc' \in Control /\ err' \in Failure \cup {"none", "HttpRequestError"}
    BY <1>2 DEF Control
  <2>3. body' \in 0..(MaxCount + 1)
    BY <1>1, <1>2
  <2>4. fetchResponse' \in Status \cup {"none"} /\ ok' \in BOOLEAN
    BY <1>2
  <2> QED
    BY <1>2, <2>1, <2>2, <2>3, <2>4 DEF TypeOK
<1>4. Counts'
  <2>1. /\ retryAttempt' <= req.count /\ tries' = tries /\ req' = req
        /\ body' <= tries /\ tries # 0
    BY <1>1, <1>2
  <2>2. pc' = "delay" => tries = retryAttempt'
    BY <1>2
  <2>3. pc' # "delay" => tries = retryAttempt' + 1
    BY <1>1, <1>2
  <2>4. pc' \notin {"start", "fetching", "body", "errBody"} /\ (pc' = "beforeRetry" => req.hook)
    BY <1>2
  <2> QED
    BY <2>1, <2>2, <2>3, <2>4 DEF Counts, Trying, Told
<1>5. Awaits'
  <2>1. pc' # "body" /\ pc' # "errBody"
    BY <1>2
  <2> QED
    BY <2>1 DEF Awaits
<1>6. Downloads'
  <2> SUFFICES ASSUME NEW k \in late'
               PROVE  k <= tries /\ (req.throwHttpErrors => statusOf'[k] = "2xx")
    BY <1>2 DEF Downloads
  <2>1. CASE k = tries /\ (req.throwHttpErrors => statusOf'[tries] = "2xx")
    BY <1>1, <2>1
  <2>2. CASE k \in late
    <3>1. k \in Try /\ k # tries /\ k <= tries
      BY <2>2 DEF Downloads, Trying, TypeOK
    <3> QED
      BY <2>2, <3>1 DEF Downloads
  <2> QED
    BY <2>1, <2>2
<1>7. Story'
  <2>1. /\ ~ok' /\ err' = "HttpRequestError" /\ tries' = tries
        /\ fetchResponse' \in {statusOf'[tries], "none"}
        /\ fetchResponse' = "none" => statusOf'[tries] \in Failure
    BY <1>2, Kinds
  <2>2. cause'.of # "response" => cause'.try = tries
    BY <1>2
  <2> QED
    BY <2>1, <2>2 DEF Story
<1>8. Reasons'
  <2> SUFFICES ASSUME ~req.hook
               PROVE  /\ \A k \in Try : k < tries => Repeatable(k)'
                      /\ pc' = "delay" => Repeatable(tries)'
                      /\ ~lateHit => /\ pc' = "delay" => ~retryStopped'
                                     /\ pc' = "after" => retryAttempt' = req.count
                                                         \/ ~Repeatable(tries)'
    BY <1>2 DEF Reasons, Trying, Ended, Repeatable, Reads
  <2>1. \A k \in Try : k < tries => Repeatable(k)'
    <3>1. \A k \in Try : k < tries => statusOf'[k] = statusOf[k]
      BY <1>1
    <3> QED
      BY <3>1 DEF Reasons, Repeatable
  <2>2. ShouldRetry(status, cause') <=> Repeatable(tries)'
    <3>1. statusOf'[tries] \in Failure => statusOf'[tries] \notin Status
      BY Kinds
    <3>2. /\ status = "5xx" <=> statusOf'[tries] = "5xx"
          /\ status = "4xx" <=> statusOf'[tries] = "4xx"
          /\ status = "3xx" <=> statusOf'[tries] = "3xx"
      BY <3>1 DEF Status
    <3>3. cause'.of = "redirect" <=> statusOf'[tries] = "redirect" /\ req.throwHttpErrors
      BY <1>2
    <3> QED
      BY <3>2, <3>3 DEF ShouldRetry, Repeatable
  <2>3. ~lateHit => ~retryStopped
    BY DEF Reasons
  <2> QED
    BY <1>2, <2>1, <2>2, <2>3
<1> QED
  BY <1>3, <1>4, <1>5, <1>6, <1>7, <1>8

\* A try whose answer is taken.
LEMMA TakenPreserves ==
  ASSUME IInv, pc \in {"fetching", "body"},
         NEW s \in Status \cup {"none"}, NEW e \in Failure \cup {"none"}, NEW b \in 0..tries,
         Taken(s, e, b),
         UNCHANGED <<req, tries, late, lateHit>>,
         statusOf' \in [Try -> Status \cup Failure \cup {"none"}],
         \A k \in Try : k # tries => statusOf'[k] = statusOf[k],
         \A k \in late : k # tries,
         \/ s \in Status /\ s = statusOf'[tries] /\ e = "none"
         \/ s = "none" /\ statusOf'[tries] \in Failure /\ e # "none" /\ ~Reads,
         s = "2xx" \/ ~req.throwHttpErrors,
         Reads /\ b # 0 => b = tries
  PROVE  IInv'
<1> USE DEF IInv
<1>1. /\ MaxCount \in Nat /\ req.count \in Nat /\ req.count <= MaxCount
      /\ tries \in Nat /\ retryAttempt \in Nat /\ tries <= MaxCount + 1
      /\ tries \in Try /\ tries = retryAttempt + 1 /\ retryAttempt <= req.count
  <2>1. tries # 0 /\ tries = retryAttempt + 1 /\ retryAttempt <= req.count
    BY DEF Counts, Trying
  <2> QED
    BY <2>1, RequestTypes
<1>2. /\ fetchResponse' = s /\ ok' = (s = "2xx") /\ err' = e /\ body' = b
      /\ retryStopped' = TRUE /\ pc' = "after" /\ UNCHANGED <<retryAttempt, cause>>
  BY DEF Taken
<1>3. TypeOK'
  <2>1. body' \in 0..(MaxCount + 1)
    BY <1>1, <1>2
  <2>2. pc' \in Control /\ err' \in Failure \cup {"none", "HttpRequestError"}
    BY <1>2 DEF Control
  <2>3. fetchResponse' \in Status \cup {"none"} /\ ok' \in BOOLEAN /\ retryStopped' \in BOOLEAN
    BY <1>2
  <2> QED
    BY <1>2, <2>1, <2>2, <2>3 DEF TypeOK
<1>4. Counts'
  <2>1. retryAttempt' <= req.count /\ tries' = retryAttempt' + 1 /\ body' <= tries' /\ tries' # 0
    BY <1>1, <1>2
  <2> QED
    BY <1>2, <2>1 DEF Counts
<1>5. Awaits'
  BY <1>2 DEF Awaits
<1>6. Downloads'
  <2> SUFFICES ASSUME NEW k \in late
               PROVE  k <= tries /\ (req.throwHttpErrors => statusOf'[k] = "2xx")
    BY <1>2 DEF Downloads
  <2>1. k \in Try /\ k # tries
    BY DEF TypeOK
  <2> QED
    BY <2>1 DEF Downloads
<1>7. Story'
  <2>1. /\ fetchResponse' \in {statusOf'[tries], "none"}
        /\ fetchResponse' = "none" => err' # "none" /\ statusOf'[tries] \in Failure
        /\ ok' => fetchResponse' = "2xx" /\ err' = "none" /\ statusOf'[tries] = "2xx"
        /\ err' # "HttpRequestError" /\ (req.throwHttpErrors => ok')
    BY <1>2, Kinds DEF Failure
  <2>2. tries' = tries /\ (Reads /\ body' # 0 => body' = tries) /\ Reads' = Reads
    BY <1>2 DEF Reads
  <2> QED
    BY <1>2, <2>1, <2>2 DEF Story
<1>8. Reasons'
  <2>1. ~req.hook => \A k \in Try : k < tries => Repeatable(k)'
    <3>1. \A k \in Try : k < tries => statusOf'[k] = statusOf[k]
      BY <1>1
    <3> QED
      BY <3>1 DEF Reasons, Repeatable
  <2>2. err' # "none" => ~Reads' /\ ~req.throwHttpErrors
    BY <1>2, Kinds DEF Reads
  <2> QED
    BY <1>2, <2>1, <2>2 DEF Reasons, Trying
<1> QED
  BY <1>3, <1>4, <1>5, <1>6, <1>7, <1>8

\* A body is waited for.
LEMMA AwaitPreserves ==
  ASSUME IInv, pc = "fetching", NEW s \in Status, NEW where \in {"body", "errBody"},
         Await(where, s),
         UNCHANGED <<req, tries, late, lateHit>>,
         statusOf' = [statusOf EXCEPT ![tries] = s],
         where = "body" => (s = "2xx" \/ ~req.throwHttpErrors) /\ req.responseType # "void",
         where = "errBody" => req.throwHttpErrors /\ s # "2xx"
  PROVE  IInv'
<1> USE DEF IInv
<1>1. /\ tries \in Nat /\ tries \in Try /\ tries = retryAttempt + 1 /\ retryAttempt \in Nat
  <2>1. tries # 0 /\ tries = retryAttempt + 1
    BY DEF Counts, Trying
  <2> QED
    BY <2>1, RequestTypes
<1>2. /\ fetchResponse' = s /\ ok' = (s = "2xx") /\ err' = "none" /\ pc' = where
      /\ UNCHANGED <<retryAttempt, retryStopped, cause, body>>
  BY DEF Await
<1>3. statusOf'[tries] = s /\ \A k \in Try : k # tries => statusOf'[k] = statusOf[k]
  BY <1>1 DEF TypeOK
<1>4. TypeOK'
  <2>1. statusOf' \in [Try -> Status \cup Failure \cup {"none"}]
    BY DEF TypeOK
  <2>2. pc' \in Control
    BY <1>2 DEF Control
  <2> QED
    BY <1>2, <2>1, <2>2 DEF TypeOK
<1>5. Counts'
  BY <1>2 DEF Counts, Trying, Told
<1>6. Awaits'
  BY <1>2, <1>3 DEF Awaits
<1>7. Downloads'
  <2> SUFFICES ASSUME NEW k \in late
               PROVE  k <= tries /\ k # tries /\ (req.throwHttpErrors => statusOf'[k] = "2xx")
    BY <1>2 DEF Downloads
  <2> QED
    BY <1>3 DEF Downloads, TypeOK
<1>8. Story'
  BY <1>2 DEF Story, Told
<1>9. Reasons'
  <2>1. ~req.hook => \A k \in Try : k < tries => Repeatable(k)'
    <3>1. \A k \in Try : k < tries => statusOf'[k] = statusOf[k]
      BY <1>1, <1>3
    <3> QED
      BY <3>1 DEF Reasons, Repeatable
  <2> QED
    BY <1>2, <2>1 DEF Reasons, Trying, Ended
<1> QED
  BY <1>4, <1>5, <1>6, <1>7, <1>8, <1>9

\* The next try, of a call or after a delay.
LEMMA StartTryPreserves ==
  ASSUME IInv, pc \in {"start", "delay"}, ~retryStopped, StartTry
  PROVE  IInv'
<1> USE DEF IInv
<1>1. /\ pc' = "fetching" /\ tries' = tries + 1
      /\ UNCHANGED <<req, retryAttempt, retryStopped, fetchResponse, ok, err, body,
                     cause, late, statusOf, lateHit>>
  BY DEF StartTry
<1>2. /\ MaxCount \in Nat /\ req.count \in Nat /\ req.count <= MaxCount
      /\ tries \in Nat /\ retryAttempt \in Nat /\ tries = retryAttempt
      /\ retryAttempt <= req.count /\ body \in Nat /\ body <= tries
  BY RequestTypes DEF Counts
<1>3. TypeOK'
  <2>1. tries' \in 0..(MaxCount + 1) /\ pc' \in Control
    BY <1>1, <1>2 DEF Control
  <2> QED
    BY <1>1, <2>1 DEF TypeOK
<1>4. Counts'
  <2>1. tries' = retryAttempt' + 1 /\ retryAttempt' <= req.count /\ body' <= tries' /\ tries' # 0
    BY <1>1, <1>2
  <2> QED
    BY <1>1, <2>1 DEF Counts
<1>5. Awaits' /\ Story'
  BY <1>1 DEF Awaits, Story, Told
<1>6. Downloads'
  <2> SUFFICES ASSUME NEW k \in late
               PROVE  k <= tries' /\ k # tries' /\ (req.throwHttpErrors => statusOf[k] = "2xx")
    BY <1>1 DEF Downloads
  <2>1. k \in Nat /\ k <= tries /\ (req.throwHttpErrors => statusOf[k] = "2xx")
    BY RequestTypes DEF Downloads, TypeOK, Try
  <2> QED
    BY <1>1, <1>2, <2>1
<1>7. Reasons'
  <2> SUFFICES ASSUME ~req.hook
               PROVE  \A k \in Try : k < tries' => Repeatable(k)'
    BY <1>1 DEF Reasons, Ended
  <2>1. \A k \in Try : k < tries => Repeatable(k)
    BY DEF Reasons
  <2>2. pc = "start" => tries \notin Try
    BY <1>2, RequestTypes DEF Counts
  <2>3. pc = "delay" => Repeatable(tries)
    BY DEF Reasons
  <2>4. \A k \in Try : k < tries' => k < tries \/ k = tries
    BY <1>1, <1>2, RequestTypes DEF Try
  <2>5. \A k \in Try : Repeatable(k)' = Repeatable(k)
    BY <1>1 DEF Repeatable
  <2> QED
    BY <2>1, <2>2, <2>3, <2>4, <2>5
<1> QED
  BY <1>3, <1>4, <1>5, <1>6, <1>7


\* What holds while fetchFn is awaited.
LEMMA Fetching ==
  ASSUME IInv, pc = "fetching"
  PROVE  /\ tries \in Try /\ body \in 0..tries /\ 0 \in 0..tries /\ tries \in 0..tries
         /\ tries # 0 /\ \A k \in late : k # tries
<1>1. tries # 0 /\ body <= tries /\ \A k \in late : k # tries
  BY DEF IInv, Counts, Downloads, Trying
<1> QED
  BY <1>1, RequestTypes DEF IInv

LEMMA AnswerTakenPreserves ==
  ASSUME IInv, NEW s \in Status, AnswerTaken(s)
  PROVE  IInv'
<1>1. /\ pc = "fetching" /\ (s = "2xx" \/ ~req.throwHttpErrors)
      /\ statusOf' = [statusOf EXCEPT ![tries] = s]
      /\ UNCHANGED <<req, tries, late, lateHit>>
  BY DEF AnswerTaken
<1>2. /\ tries \in Try /\ body \in 0..tries /\ 0 \in 0..tries /\ tries \in 0..tries
      /\ tries # 0 /\ \A k \in late : k # tries
  BY <1>1, Fetching
<1>3. /\ statusOf' \in [Try -> Status \cup Failure \cup {"none"}] /\ statusOf'[tries] = s
      /\ \A k \in Try : k # tries => statusOf'[k] = statusOf[k]
  BY <1>1, <1>2 DEF IInv, TypeOK
<1>4. ASSUME NEW b \in 0..tries, Taken(s, "none", b), Reads /\ b # 0 => b = tries
      PROVE  IInv'
  BY <1>1, <1>2, <1>3, <1>4, TakenPreserves
<1>5. CASE req.responseType = "void" /\ Taken(s, "none", body)
  BY <1>2, <1>4, <1>5 DEF Reads
<1>6. CASE Taken(s, "none", tries)
  BY <1>2, <1>4, <1>6
<1>7. CASE NotOk(s, "body", 0)
  <2>1. Trying
    BY <1>1 DEF Trying
  <2>2. "body" \in Failure \cup {"none", "body"} /\ "body" # "redirect" /\ s # "redirect"
    BY Kinds
  <2> QED
    BY <1>1, <1>2, <1>3, <1>7, <2>1, <2>2, NotOkPreserves
<1>8. CASE req.responseType \in {"json", "text"} /\ Await("body", s)
  BY <1>1, <1>8, AwaitPreserves
<1>9. CASE Taken(s, "none", NoBody)
  <2>1. NoBody \in {tries, 0}
    BY DEF NoBody
  <2> QED
    BY <1>2, <1>4, <1>9, <2>1
<1> QED
  BY <1>5, <1>6, <1>7, <1>8, <1>9 DEF AnswerTaken

LEMMA AnswerNotOkPreserves ==
  ASSUME IInv, NEW s \in Status, AnswerNotOk(s)
  PROVE  IInv'
<1>1. /\ pc = "fetching" /\ s # "2xx" /\ req.throwHttpErrors
      /\ statusOf' = [statusOf EXCEPT ![tries] = s]
      /\ UNCHANGED <<req, tries, late, lateHit>>
  BY DEF AnswerNotOk
<1>2. /\ tries \in Try /\ body \in 0..tries
  BY <1>1, Fetching
<1>3. /\ statusOf' \in [Try -> Status \cup Failure \cup {"none"}] /\ statusOf'[tries] = s
      /\ \A k \in Try : k # tries => statusOf'[k] = statusOf[k]
  BY <1>1, <1>2 DEF IInv, TypeOK
<1>4. CASE Await("errBody", s)
  BY <1>1, <1>4, AwaitPreserves
<1>5. CASE NotOk(s, "none", body)
  <2>1. Trying
    BY <1>1 DEF Trying
  <2>2. "none" # "redirect" /\ s # "redirect"
    BY Kinds
  <2> QED
    BY <1>1, <1>2, <1>3, <1>5, <2>1, <2>2, NotOkPreserves
<1> QED
  BY <1>4, <1>5 DEF AnswerNotOk

LEMMA FailPreserves ==
  ASSUME IInv, pc = "fetching", NEW f \in Failure, Fail(f)
  PROVE  IInv'
<1>1. /\ statusOf' = [statusOf EXCEPT ![tries] = f]
      /\ UNCHANGED <<req, tries, late, lateHit>>
  BY DEF Fail
<1>2. /\ tries \in Try /\ body \in 0..tries /\ \A k \in late : k # tries
  BY Fetching
<1>3. /\ statusOf' \in [Try -> Status \cup Failure \cup {"none"}] /\ statusOf'[tries] = f
      /\ \A k \in Try : k # tries => statusOf'[k] = statusOf[k]
  BY <1>1, <1>2 DEF IInv, TypeOK
<1>4. Trying
  BY DEF Trying
<1>5. CASE req.throwHttpErrors /\ NotOk("none", f, body)
  BY <1>1, <1>2, <1>3, <1>4, <1>5, NotOkPreserves
<1>6. CASE ~req.throwHttpErrors /\ NotOk("none", "body", body)
  <2>1. "body" # "redirect"
    OBVIOUS
  <2> QED
    BY <1>1, <1>2, <1>3, <1>4, <1>6, <2>1, NotOkPreserves
<1>7. CASE ~req.throwHttpErrors /\ req.responseType = "void" /\ Taken("none", f, body)
  <2>1. ~Reads /\ f # "none"
    BY <1>7, Kinds DEF Reads
  <2> QED
    BY <1>1, <1>2, <1>3, <1>7, <2>1, TakenPreserves
<1> QED
  BY <1>5, <1>6, <1>7 DEF Fail

\* The steps that end the wait for a body.
LEMMA BodyPreserves ==
  ASSUME IInv, BodyArrives \/ BodyBreaks \/ BodyTimeout
  PROVE  IInv'
<1>1. /\ pc = "body" /\ UNCHANGED <<req, tries, statusOf, lateHit>>
      /\ late' = late \/ (late' = late \cup {tries})
  BY DEF BodyArrives, BodyBreaks, BodyTimeout
<1>2. /\ tries \in Try /\ body \in 0..tries /\ 0 \in 0..tries /\ tries \in 0..tries
      /\ tries # 0 /\ \A k \in late : k # tries
  <2>1. tries # 0 /\ body <= tries /\ \A k \in late : k # tries
    BY <1>1 DEF IInv, Counts, Downloads, Trying
  <2> QED
    BY <2>1, RequestTypes DEF IInv
<1>3. /\ fetchResponse \in Status /\ fetchResponse = statusOf'[tries]
      /\ req.throwHttpErrors => fetchResponse = "2xx"
  BY <1>1 DEF IInv, Awaits
<1>4. statusOf' \in [Try -> Status \cup Failure \cup {"none"}] /\ Trying
  BY <1>1 DEF IInv, TypeOK, Trying
<1>5. ASSUME NEW b \in {0, tries}, late' = late, Taken(fetchResponse, "none", b)
      PROVE  IInv'
  <2>1. b \in 0..tries /\ (Reads /\ b # 0 => b = tries)
    BY <1>2
  <2> QED
    BY <1>1, <1>2, <1>3, <1>4, <1>5, <2>1, TakenPreserves
<1>6. ASSUME NEW b \in 0..tries, NotOk(fetchResponse, "body", b)
      PROVE  IInv'
  <2>1. "body" # "redirect" /\ fetchResponse # "redirect"
    BY <1>3, Kinds
  <2>2. req.throwHttpErrors => statusOf'[tries] = "2xx"
    BY <1>3
  <2> QED
    BY <1>1, <1>2, <1>3, <1>4, <1>6, <2>1, <2>2, NotOkPreserves
<1> QED
  BY <1>2, <1>5, <1>6 DEF BodyArrives, BodyBreaks, BodyTimeout

LEMMA ErrBodyPreserves ==
  ASSUME IInv, ErrBodyArrives
  PROVE  IInv'
<1>1. pc = "errBody" /\ UNCHANGED <<req, tries, late, statusOf, lateHit>>
  BY DEF ErrBodyArrives
<1>2. PICK b \in {tries, 0, body} : NotOk(fetchResponse, "none", b)
  BY DEF ErrBodyArrives
<1>3. b \in 0..tries
  <2>1. body <= tries
    BY DEF IInv, Counts
  <2> QED
    BY <2>1, RequestTypes DEF IInv
<1>4. /\ fetchResponse \in Status /\ fetchResponse = statusOf'[tries]
      /\ statusOf' \in [Try -> Status \cup Failure \cup {"none"}] /\ Trying
  BY <1>1 DEF IInv, Awaits, TypeOK, Trying
<1>5. "none" # "redirect" /\ fetchResponse # "redirect"
  BY <1>4, Kinds
<1> QED
  BY <1>1, <1>2, <1>3, <1>4, <1>5, NotOkPreserves

\* A download that was given up on comes to its end.
LEMMA LateBodyPreserves ==
  ASSUME IInv, NEW k \in Try, LateBody(k)
  PROVE  IInv'
<1> USE DEF IInv
<1>1. /\ k \in late /\ late' = late \ {k}
      /\ UNCHANGED <<req, pc, tries, retryAttempt, fetchResponse, ok, err, cause, statusOf>>
  BY DEF LateBody
<1>2. \/ body' \in {k, 0} /\ retryStopped' = TRUE /\ lateHit' = (lateHit \/ ~retryStopped)
      \/ body' \in {k, body} /\ retryStopped' = retryStopped /\ lateHit' = lateHit
  BY DEF LateBody
<1>3. /\ k \in Nat /\ 0 <= k /\ k <= tries /\ pc # "start"
      /\ req.throwHttpErrors => statusOf[k] = "2xx"
  BY <1>1, RequestTypes DEF Downloads, Try
<1>4. body' \in Nat /\ body' <= tries /\ body' \in 0..(MaxCount + 1)
  <2>1. body <= tries
    BY DEF Counts
  <2> QED
    BY <1>2, <1>3, <2>1, RequestTypes
<1>5. retryStopped' \in BOOLEAN /\ lateHit' \in BOOLEAN
  BY <1>2 DEF TypeOK
<1>6. TypeOK'
  BY <1>1, <1>4, <1>5 DEF TypeOK
<1>7. Counts'
  BY <1>1, <1>3, <1>4 DEF Counts, Trying, Told
<1>8. Awaits' /\ Downloads'
  BY <1>1 DEF Awaits, Downloads
<1>9. Story'
  <2>1. Told /\ ok /\ Reads /\ body' # 0 /\ req.throwHttpErrors => statusOf[body'] = "2xx"
    BY <1>2, <1>3 DEF Story
  <2> QED
    BY <1>1, <2>1 DEF Story, Told, Reads
<1>10. Reasons'
  <2>1. /\ ~lateHit' => ~lateHit
        /\ ~lateHit' => (retryStopped' <=> retryStopped)
    <3>0. lateHit \in BOOLEAN /\ retryStopped \in BOOLEAN
      BY DEF TypeOK
    <3>1. CASE retryStopped' = TRUE /\ lateHit' = (lateHit \/ ~retryStopped)
      BY <3>0, <3>1
    <3>2. CASE retryStopped' = retryStopped /\ lateHit' = lateHit
      BY <3>2
    <3> QED
      BY <1>2, <3>1, <3>2
  <2>2. \A h \in Try : Repeatable(h)' = Repeatable(h)
    BY <1>1 DEF Repeatable
  <2>3. Repeatable(tries)' = Repeatable(tries) /\ Reads' = Reads
    BY <1>1 DEF Repeatable, Reads
  <2> QED
    BY <1>1, <2>1, <2>2, <2>3 DEF Reasons, Trying, Ended
<1> QED
  BY <1>6, <1>7, <1>8, <1>9, <1>10

LEMMA BeforeRetryPreserves ==
  ASSUME IInv, BeforeRetry
  PROVE  IInv'
<1> USE DEF IInv
<1>1. /\ pc = "beforeRetry"
      /\ UNCHANGED <<req, tries, fetchResponse, ok, err, body, cause, late, statusOf, lateHit>>
  BY DEF BeforeRetry
<1>2. PICK stopped \in BOOLEAN : Decide(stopped)
  BY DEF BeforeRetry
<1>3. /\ MaxCount \in Nat /\ req.count \in Nat /\ req.count <= MaxCount /\ retryAttempt \in Nat
      /\ tries = retryAttempt + 1 /\ retryAttempt <= req.count /\ req.hook /\ body <= tries
      /\ tries # 0
  BY <1>1, RequestTypes DEF Counts, Told
<1>4. \/ retryStopped' = TRUE /\ retryAttempt' = retryAttempt /\ pc' = "after"
      \/ /\ retryStopped' = FALSE /\ retryAttempt' = retryAttempt + 1 /\ pc' = "delay"
         /\ retryAttempt < req.count
  <2>1. OutOfRetries <=> ~(retryAttempt < req.count)
    BY <1>3 DEF OutOfRetries
  <2> DEFINE stop == stopped \/ OutOfRetries
  <2>2. /\ retryStopped' = stop /\ retryAttempt' = IF stop THEN retryAttempt ELSE retryAttempt + 1
        /\ pc' = IF stop THEN "after" ELSE "delay"
    BY <1>2 DEF Decide
  <2>3. CASE stop
    BY <2>2, <2>3
  <2>4. CASE ~stop
    BY <2>1, <2>2, <2>4
  <2> QED
    BY <2>3, <2>4
<1>5. TypeOK'
  <2>1. retryAttempt' \in 0..MaxCount
    BY <1>3, <1>4
  <2>2. retryStopped' \in BOOLEAN /\ pc' \in Control
    BY <1>4 DEF Control
  <2> QED
    BY <1>1, <2>1, <2>2 DEF TypeOK
<1>6. Counts'
  <2>1. /\ retryAttempt' <= req.count /\ tries' = tries /\ body' <= tries
        /\ pc' = "delay" => tries = retryAttempt'
        /\ pc' # "delay" => tries = retryAttempt' + 1
    BY <1>1, <1>3, <1>4
  <2> QED
    BY <1>1, <1>3, <1>4, <2>1 DEF Counts
<1>7. Awaits' /\ Downloads'
  BY <1>1, <1>4 DEF Awaits, Downloads
<1>8. Story'
  BY <1>1, <1>4 DEF Story, Told, Reads
<1>9. Reasons'
  BY <1>1, <1>3 DEF Reasons
<1> QED
  BY <1>5, <1>6, <1>7, <1>8, <1>9

\* The steps that change nothing but where the call is.
LEMMA MovePreserves ==
  ASSUME IInv, UNCHANGED <<req, tries, retryAttempt, retryStopped, fetchResponse, ok, err,
                           body, cause, late, statusOf, lateHit>>,
         \/ pc' = pc
         \/ pc = "delay" /\ retryStopped /\ pc' = "after"
         \/ pc = "after" /\ pc' = "done"
         \/ pc \in {"start", "beforeRetry", "after"} /\ req.hook /\ pc' = "threw"
  PROVE  IInv'
<1> USE DEF IInv
<1>1. TypeOK'
  BY DEF TypeOK, Control
<1>2. Counts'
  BY DEF Counts, Trying, Told
<1>3. Awaits' /\ Downloads'
  BY DEF Awaits, Downloads
<1>4. Story'
  BY DEF Story, Told, Reads
<1>5. Reasons'
  <2>1. \A k : Repeatable(k)' = Repeatable(k)
    BY DEF Repeatable
  <2> QED
    BY <2>1 DEF Reasons, Trying, Ended, Reads
<1> QED
  BY <1>1, <1>2, <1>3, <1>4, <1>5

LEMMA InitEstablishes == Init => IInv
<1> SUFFICES ASSUME Init
             PROVE  IInv
  OBVIOUS
<1>1. MaxCount \in Nat /\ req.count \in Nat
  <2>1. MaxCount \in Nat /\ req \in Request
    BY FetcherAssumption DEF Init
  <2>2. req.count \in 0..MaxCount
    BY <2>1 DEF Request
  <2> QED
    BY <2>1, <2>2
<1>2. 0 \in 0..MaxCount /\ 0 \in 0..(MaxCount + 1) /\ "start" \in Control
  BY <1>1 DEF Control
<1>3. TypeOK
  BY <1>2 DEF Init, TypeOK
<1>4. Counts /\ Awaits /\ Downloads /\ Story /\ Reasons
  BY <1>1 DEF Init, Counts, Awaits, Downloads, Story, Reasons, Trying, Told, Ended, Try
<1> QED
  BY <1>3, <1>4 DEF IInv

LEMMA StepPreserves == IInv /\ [Next]_vars => IInv'
<1> SUFFICES ASSUME IInv, [Next]_vars
             PROVE  IInv'
  OBVIOUS
<1>1. CASE UNCHANGED vars
  BY <1>1, MovePreserves DEF vars
<1>2. CASE Call
  <2>1. pc = "start" /\ ~retryStopped /\ StartTry
    BY <1>2 DEF Call, IInv, Counts
  <2> QED
    BY <2>1, StartTryPreserves
<1>3. CASE RequestTimeout \/ \E f \in Failure : FetchFails(f)
  <2>1. "network" \in Failure
    BY DEF Failure
  <2> QED
    BY <1>3, <2>1, FailPreserves DEF RequestTimeout, FetchFails
<1>4. CASE BodyArrives \/ BodyBreaks \/ BodyTimeout
  BY <1>4, BodyPreserves
<1>5. CASE \E s \in Status : AnswerTaken(s) \/ AnswerNotOk(s)
  BY <1>5, AnswerTakenPreserves, AnswerNotOkPreserves
<1>6. CASE \E k \in Try : LateBody(k)
  BY <1>6, LateBodyPreserves
<1>7. CASE ErrBodyArrives \/ BeforeRetry
  BY <1>7, ErrBodyPreserves, BeforeRetryPreserves
<1>8. CASE DelayOver
  <2>1. CASE pc = "delay" /\ ~retryStopped /\ StartTry
    BY <2>1, StartTryPreserves
  <2>2. CASE pc = "delay" /\ ~(~retryStopped /\ StartTry)
    <3>1. /\ retryStopped /\ pc' = "after"
          /\ UNCHANGED <<req, tries, retryAttempt, retryStopped, fetchResponse, ok, err,
                         body, cause, late, statusOf, lateHit>>
      BY <1>8, <2>2 DEF DelayOver
    <3>2. pc = "delay" /\ retryStopped /\ pc' = "after"
      BY <2>2, <3>1
    <3> QED
      BY <3>1, <3>2, MovePreserves
  <2> QED
    BY <1>8, <2>1, <2>2 DEF DelayOver
<1>9. CASE Return
  BY <1>9, MovePreserves DEF Return
<1>10. CASE HookThrows
  BY <1>10, MovePreserves DEF HookThrows
<1> QED
  BY <1>1, <1>2, <1>3, <1>4, <1>5, <1>6, <1>7, <1>8, <1>9, <1>10 DEF Next

(* The invariant that the properties below are parts or consequences of.    *)
LEMMA AlwaysIInv == Spec => []IInv
BY InitEstablishes, StepPreserves, PTL DEF Spec

-----------------------------------------------------------------------------
(* The retry status, the outcome and what is left to be read have the types *)
(* that fetcher.ts gives them.                                              *)
THEOREM AlwaysTypeOK == Spec => []TypeOK
<1>1. IInv => TypeOK
  BY DEF IInv
<1> QED
  BY <1>1, AlwaysIInv, PTL

(* No request is sent too often, for any bound on retries and any requests  *)
(* (fetcher.ts:567-616, 659-681).                                           *)
THEOREM AlwaysNoUnwantedRepeat == Spec => []NoUnwantedRepeat
<1>1. IInv => NoUnwantedRepeat
  <2> SUFFICES ASSUME IInv
               PROVE  NoUnwantedRepeat
    OBVIOUS
  <2>1. tries <= req.count + 1
    BY RequestTypes DEF IInv, Counts
  <2> QED
    BY <2>1 DEF IInv, Reasons, NoUnwantedRepeat
<1> QED
  BY <1>1, AlwaysIInv, PTL

(* An error is given to the caller only when a retry is not allowed for     *)
(* (fetcher.ts:336, 567-616).                                               *)
THEOREM AlwaysGivesUpOnlyWithReason == Spec => []GivesUpOnlyWithReason
<1>1. IInv => GivesUpOnlyWithReason
  BY DEF IInv, Reasons, GivesUpOnlyWithReason
<1> QED
  BY <1>1, AlwaysIInv, PTL

(* ok, err and fetchResponse tell one story, of the last try                *)
(* (fetcher.ts:369-388, 402-414, 543).                                      *)
THEOREM AlwaysOutcomeConsistent == Spec => []OutcomeConsistent
<1>1. IInv => OutcomeConsistent
  BY DEF IInv, Story, Told, Ended, OutcomeConsistent
<1> QED
  BY <1>1, AlwaysIInv, PTL

(* The body of a good answer never is that of an error response             *)
(* (fetcher.ts:440-471, 510).                                               *)
THEOREM AlwaysOkBodyIsNoErrorBody == Spec => []OkBodyIsNoErrorBody
<1>1. IInv => OkBodyIsNoErrorBody
  BY DEF IInv, Story, Told, Ended, OkBodyIsNoErrorBody
<1> QED
  BY <1>1, AlwaysIInv, PTL


\* Without a hook a step that follows the stop leaves it.
LEMMA StepStaysStopped ==
  ASSUME IInv, [Next]_vars, retryStopped, ~req.hook
  PROVE  retryStopped' /\ tries' = tries
<1> USE DEF IInv
<1>1. \A stopped, may : stopped => Stopped(stopped, may)
  BY DEF Stopped
<1>2. ASSUME NEW status, NEW e, NEW b, NotOk(status, e, b)
      PROVE  retryStopped'
  <2> DEFINE why == CASE e # "none" -> [of |-> e, try |-> tries]
                      [] e = "none" /\ b # 0 -> [of |-> "response", try |-> b]
                      [] OTHER -> [of |-> "default", try |-> tries]
             stopped == Stopped(retryStopped, ShouldRetry(status, why))
  <2>1. ProcessRetry(status, why)
    BY <1>2 DEF NotOk
  <2>2. stopped
    BY <1>1
  <2>3. retryStopped' = stopped \/ retryStopped' = (stopped \/ OutOfRetries)
    BY <2>1 DEF ProcessRetry, Decide
  <2> HIDE DEF stopped
  <2> QED
    BY <2>2, <2>3
<1>3. ASSUME NEW s, NEW e, NEW b, Taken(s, e, b)
      PROVE  retryStopped'
  BY <1>3 DEF Taken
<1>4. ASSUME NEW where, NEW s, Await(where, s)
      PROVE  retryStopped'
  BY <1>4 DEF Await
<1>5. CASE Call
  BY <1>5 DEF Call, Counts
<1>6. CASE DelayOver
  BY <1>6 DEF DelayOver
<1>7. CASE BeforeRetry
  BY <1>7 DEF BeforeRetry, Counts
<1>8. CASE UNCHANGED vars \/ Return \/ HookThrows
  BY <1>8 DEF vars, Return, HookThrows
<1>9. CASE \E k \in Try : LateBody(k)
  BY <1>9 DEF LateBody
<1>10. CASE \E s \in Status : AnswerTaken(s) \/ AnswerNotOk(s)
  BY <1>2, <1>3, <1>4, <1>10 DEF AnswerTaken, AnswerNotOk
<1>11. CASE RequestTimeout \/ \E f \in Failure : FetchFails(f)
  <2>1. PICK f : Fail(f)
    BY <1>11 DEF RequestTimeout, FetchFails
  <2> QED
    BY <1>2, <1>3, <2>1 DEF Fail
<1>12. CASE BodyArrives \/ BodyBreaks \/ BodyTimeout \/ ErrBodyArrives
  BY <1>2, <1>3, <1>12 DEF BodyArrives, BodyBreaks, BodyTimeout, ErrBodyArrives
<1> QED
  BY <1>5, <1>6, <1>7, <1>8, <1>9, <1>10, <1>11, <1>12 DEF Next

(* Once the retries are stopped, and no hook can clear that, no request is  *)
(* sent any more (fetcher.ts:336, 473, 570-607).                            *)
THEOREM AlwaysStoppedSendsNothing == Spec => StoppedSendsNothing
<1>1. IInv /\ [Next]_vars => [retryStopped /\ ~req.hook => retryStopped' /\ tries' = tries]_vars
  BY StepStaysStopped
<1> QED
  BY <1>1, AlwaysIInv, PTL DEF Spec, StoppedSendsNothing
=============================================================================
