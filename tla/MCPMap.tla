------------------------------- MODULE MCPMap -------------------------------
(* One call of pMap on one to four items with a concurrency of 0 to 5: all  *)
(* of pMap1, pMapAll and the general case with two and three slots.         *)
EXTENDS PMap
=============================================================================
