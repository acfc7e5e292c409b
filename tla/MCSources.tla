------------------------------- MODULE MCSources -------------------------------
(* Two sources for FILEs, one for a mapping and one for a string, no more than *)
(* two of them in use and two things behind them at a time; and contents that  *)
(* are empty, have nothing that is looked for, with room in their last page or *)
(* without, or end with it after a character of two bytes, on which position() *)
(* and the bytes disagree, which fills the page, too.                          *)
EXTENDS SourceLife, TLC, FiniteSets

MCContents == {<< >>, <<"x">>, <<Lead2, Cont, "[">>, <<"x", "x", "x">>}

InUse(s) == held[s] # Nothing \/ ls[s] # New(s)
Few == Cardinality({s \in Readers : InUse(s)}) <= 2 /\ Cardinality(live) <= 2
MCSpec == Init /\ [][Next /\ Few']_vars

\* The sources of FILEs are alike.
Alike == Permutations(FileReaders) \cup Permutations(Handles)
=============================================================================
