-------------------------- MODULE MCHostFunctions --------------------------
(***************************************************************************)
(* Small inputs for HostFunctions: every pair of row and column arrays of  *)
(* at most MaxNnz entries, out of range and unsorted ones included; every  *)
(* pair of small dense operands, accepted or not; every small sparse       *)
(* matrix an SpMV takes; and launch sizes on both sides of each threshold, *)
(* for devices of several widths.                                          *)
(***************************************************************************)
EXTENDS HostFunctions

CONSTANTS MaxRows, MaxNnz

Indices(S) == UNION {[1..k -> S] : k \in 0..MaxNnz}

MCArraysOf(m) ==
  UNION {[m : {m}, rows : {r}, columns : [1..Len(r) -> 0..m]] : r \in Indices(-1..m)}

MCCooArrays == UNION {MCArraysOf(m) : m \in 1..MaxRows}

DnMats == [rows : 0..3, cols : 0..3, ld : 0..4, order : {"ROW", "COL"}]

MCOperands ==
  [m : 0..3, k : 0..3, B : DnMats, C : DnMats, trans : BOOLEAN, unit : {1, 2}]

MCProducts ==
  [format : {"CSR", "COO", "CSC", "BSR"}, rows : 0..3, cols : 0..3,
   block_dim : 1..2, nnz : 0..1, trans : BOOLEAN]

MCDevices == [warp : {1, 8, 16, 32, 64}, threads : {0, 256, 768, 2048}, sm : {0, 1, 3}]

MCSizes == [n : {1, 4, 5, 16, 17, 32, 33, 64, 65, 128, 129, 257},
            longest : {0, 511, 512, 1023, 1024}, wide : BOOLEAN, dev : MCDevices]

MCVectors == [nnz : 0..13, dev : MCDevices]
=============================================================================
