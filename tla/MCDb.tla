-------------------------------- MODULE MCDb --------------------------------
(* Instances of Db for TLC. Keys ka and kb share chain 1, kc is alone in     *)
(* chain 2; all have one length, so any store can reuse any deleted record   *)
(* whose data had the right length.                                          *)
EXTENDS DbKv, TLC

CONSTANTS p1, p2, ka, kb, kc, short, long

Hash2 == ka :> 1 @@ kb :> 1 @@ kc :> 2
KeyLen1 == ka :> 1 @@ kb :> 1 @@ kc :> 1
DatLen2 == short :> 2 @@ long :> 3

R(op, k, d) == [op |-> op, key |-> k, data |-> d]

\* two processes that delete, replace, store and fetch over both chains
OpsWork ==
  p1 :> {R("delete", ka, Blank), R("delete", kb, Blank), R("replace", ka, long),
         R("store", kc, short), R("insert", kb, short)}
  @@ p2 :> {R("delete", ka, Blank), R("store", kc, long), R("store", kc, short),
            R("insert", kb, short), R("fetch", kb, Blank)}
\* the same, and a scan on the handle that also makes other calls
Cursors == {R("nextrec", Blank, Blank), R("rewind", Blank, Blank)}
CrashWork == [p \in Procs |-> IF p = p2 THEN OpsWork[p] \cup Cursors ELSE OpsWork[p]]
TwoOps == p1 :> 2 @@ p2 :> 2
OpsPreloads == {<<>>, <<<<kb, short>>, <<ka, short>>, <<kc, long>>>>}
=============================================================================
