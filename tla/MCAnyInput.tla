------------------------------ MODULE MCAnyInput ------------------------------
(* Input that need not be JSON: every sequence of up to two lexemes, whole or *)
(* broken, alone and before the first byte of a character cut short; of those *)
(* that make the structure, up to three, and up to two before a field.  And a *)
(* string and a field that are longer than the buffer, after a number and     *)
(* before what may end an array.                                              *)
EXTENDS JsonClient, SequencesExt

Structure ==
  {<<"{">>, <<"}">>, <<"[">>, <<"]">>, <<",">>, <<":">>, <<"\"">>, <<"\"", "k", "\"">>}
Lexemes == Structure \cup {<<"\\">>, <<"7">>, <<"-">>, <<"t", "r">>}

Long == <<"\"", "k", "k", "k", Lead2, Cont, "k", "\"">>
Field == <<"\n", "\"", "k", "\"", ":", "7", "}">>

MCInputs ==
  {FlattenSeq(s) : s \in BoundedSeq(Structure, 3) \cup BoundedSeq(Lexemes, 2)}
    \cup {FlattenSeq(s) \o <<Lead2>> : s \in BoundedSeq(Lexemes, 2)}
    \cup {FlattenSeq(s) \o Field : s \in BoundedSeq(Structure, 2)}
    \cup {FlattenSeq(<<open, <<"7", ",">>, Long, end>>) :
             open \in {<<"[">>, <<"{">>}, end \in {<< >>, <<"]">>, <<":", "7", "}">>}}

MCDocuments == {[in |-> in, nodes |-> << >>] : in \in MCInputs}

MCSought == {<<"k">>}
\* NoLevel is no integer literal that a configuration could have.
MCLevels == {NoLevel, 1}
=============================================================================
