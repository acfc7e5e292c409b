------------------------------- MODULE MCDefects -------------------------------
(* Valid documents on which JsonReader does not do what its documentation      *)
(* says, each with the one feature that brings the defect out, which the other *)
(* MC modules leave out.                                                       *)
EXTENDS JsonConformance, JsonDocuments

\* An escape that starts where the first chunk of a long string ends.
EscapeAtChunkEnd ==
  {Document(Arr(<<Quoted(<<"a", "b", "\\", "n", "c">>, <<"a", "b", "\n", "c">>)>>), << >>, <<"\n">>)}

\* A character beyond the basic plane written as a surrogate pair.
Pair == <<"\\", "u", "d", "8", "3", "d", "\\", "u", "d", "e", "0", "0">>
SurrogatePair == {Document(Arr(<<Quoted(Pair, Encode(Cp4))>>), << >>, <<"\n">>)}
=============================================================================
