------------------------------ MODULE MCDbScan ------------------------------
(* Instances of DbScan: p1 scans while p2 deletes, stores and replaces;      *)
(* in the second workload p1 mixes the scan with its own calls.              *)
EXTENDS DbScan, TLC

CONSTANTS p1, p2, ka, kb, kc, short, long

Hash2 == ka :> 1 @@ kb :> 1 @@ kc :> 2
KeyLen1 == ka :> 1 @@ kb :> 1 @@ kc :> 1
DatLen2 == short :> 2 @@ long :> 3

R(op, k, d) == [op |-> op, key |-> k, data |-> d]
Nextrec == R("nextrec", Blank, Blank)

ScanWork ==
  p1 :> {Nextrec, R("rewind", Blank, Blank)}
  @@ p2 :> [op : {"delete"}, key : Keys, data : {Blank}]
           \cup {R("store", ka, long), R("store", kb, short), R("replace", kc, short),
                 R("insert", kc, short)}
ScanOps == p1 :> 5 @@ p2 :> 3
ScanPreloads == {<<<<ka, short>>, <<kb, short>>, <<kc, long>>>>}

MixedWork ==
  p1 :> {Nextrec, R("rewind", Blank, Blank), R("delete", ka, Blank), R("fetch", kb, Blank)}
  @@ p2 :> {R("store", ka, long)}
MixedOps == p1 :> 4 @@ p2 :> 1
=============================================================================
