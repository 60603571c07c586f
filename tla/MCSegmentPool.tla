--------------------------- MODULE MCSegmentPool ---------------------------
(***************************************************************************)
(* Two workers, more connections than workers on one side, and three        *)
(* segments: one whose recursion fetches rows twice, one that agrees, and   *)
(* one that differs and may fail.                                           *)
(***************************************************************************)
EXTENDS SegmentPool

FiveDiffs == 1..5

ThreeTasks == << << {1, 2}, {3} >>, << >>, << {4, 5} >> >>
===============================================================================
