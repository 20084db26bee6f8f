----------------------------- MODULE MCSpMVSpMM -----------------------------
(***************************************************************************)
(* Small instances of SpMVSpMM.  A pattern is the row array of a COO       *)
(* matrix of three rows; its figures are computed by the loops of          *)
(* RowOffsets.  A segment covers two entries, so one pattern needs a       *)
(* second segment.                                                         *)
(***************************************************************************)
EXTENDS SpMVSpMM, TLC

CONSTANTS m1, m2, b1, b2, b3, s1, s2

R == INSTANCE RowOffsets

MCRows == 3

MCNnz(ps) == [p \in ps |-> Len(p)]
MCRowSorted(ps) == [p \in ps |-> R!ScanRows(p, MCRows) = R!SUCCESS]
MCLongestRow(ps) ==
  [p \in ps |-> IF R!ScanRows(p, MCRows) = R!SUCCESS
                THEN R!LongestRun(R!BuiltOffsets(p, MCRows), MCRows) ELSE 0]

(* One without entries, one that is not sorted, and two of three entries   *)
(* each, which can be exchanged under a descriptor: the longest row of one *)
(* takes two segments, that of the other takes one.                        *)
MCPatterns == {<<>>, <<2, 0>>, <<0, 0, 0>>, <<0, 1, 2>>}
MCPatternNnz == MCNnz(MCPatterns)
MCPatternSorted == MCRowSorted(MCPatterns)
MCPatternLongest == MCLongestRow(MCPatterns)

MCBlockNnz == [k \in Segmented |-> 2]
MCPrivate == (m1 :> {b1, b3}) @@ (m2 :> {b2})
MCShared  == [m \in {m1, m2} |-> {b1}]
=============================================================================
