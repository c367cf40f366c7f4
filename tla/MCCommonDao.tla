----------------------------- MODULE MCCommonDao ----------------------------
(* Two clients of up to two calls each on one row that exists or not: a     *)
(* patch and anything else overlap at every await, in a transaction of the  *)
(* client, of the call or in none.  Clients are interchangeable, and no     *)
(* property is a liveness one, so symmetry is sound.                        *)
EXTENDS CommonDao, TLC

CONSTANTS c1, c2, a

MCClient == {c1, c2}
Symmetric == Permutations(MCClient)
MCId == {a}
MCMade(kind, opts, saveMethod) == [kind |-> kind, id |-> a, opts |-> opts, saveMethod |-> saveMethod]
MCCall ==
  {MCMade(k, {}, "unset") : k \in {"getById", "optimistic", "txPatch", "delete", "patchByIds", "increment"}}
  \cup {MCMade("create", o, "unset") : o \in {{}, {"ensureUniqueId"}, {"ensureUniqueId", "asDBM"}}}
  \cup {MCMade("patchById", o, "unset") : o \in SUBSET {"createIfMissing"}}
  \cup {MCMade("delete", {"allowMutability"}, "unset"), MCMade("create", {"asDBM"}, "update")}
=============================================================================
