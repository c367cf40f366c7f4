---------------------------- MODULE MCInMemoryDB ----------------------------
(* Two transactions of up to two operations and one direct operation on two *)
(* rows, an operation taking one row or both: two commits overlap, fail in  *)
(* the middle of a batch and put their copies back in either order.         *)
EXTENDS InMemoryDB

CONSTANTS t1, t2, w1, a, b

MCTx == {t1, t2}
MCDirect == {w1}
MCId == {a, b}
MCTxOps == {[type |-> "upsert", ids |-> <<a>>],
            [type |-> "insert", ids |-> <<a, b>>],
            [type |-> "update", ids |-> <<b>>],
            [type |-> "delete", ids |-> <<a>>]}
MCDirectOps == {[type |-> "upsert", ids |-> <<b>>],
                [type |-> "insert", ids |-> <<a, b>>],
                [type |-> "patch", ids |-> <<a, b>>],
                [type |-> "delete", ids |-> <<b>>]}
=============================================================================
