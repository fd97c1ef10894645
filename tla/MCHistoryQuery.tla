--------------------------- MODULE MCHistoryQuery ---------------------------
(***************************************************************************)
(* An instance of HistoryQuery for TLC: ranges of up to two years, whose   *)
(* times are the first or the second instant of a month.                   *)
(***************************************************************************)
EXTENDS HistoryQuery
=============================================================================
