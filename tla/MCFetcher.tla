----------------------------- MODULE MCFetcher -----------------------------
(* One call of doFetch with up to three tries.  The retry options are the   *)
(* defaults and their opposites; POST, with and without retryPost, goes     *)
(* with the defaults.                                                       *)
EXTENDS Fetcher

MCRequests ==
  {r \in Request : /\ r.retryPost => r.post
                   /\ r.post => ~r.retry4xx /\ r.responseType = "json"
                   /\ r.retry3xx = r.retry4xx
                   /\ r.retry5xx = ~r.retry4xx
                   /\ r.count # 1}
=============================================================================
