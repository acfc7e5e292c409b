----------------------------- MODULE MCQueryDefects -----------------------------
(* A query for two fields of an object of which one is not there, in different *)
(* company, and an episode whose name is longer than the capture buffer: the   *)
(* documentation promises another answer, and a comment another printout.      *)
EXTENDS Demonstration, JsonDocuments

E == Str(<<"e">>)
N == Str(<<"n">>)
S == Str(<<"s">>)
MCNames == <<S.text, E.text, N.text>>

Flat == {Obj(s) : s \in {<<Fld(S, Seven)>>, <<Fld(N, Null), Fld(S, Seven)>>,
                          <<Fld(S, Seven), Fld(N, Null)>>}}
MCFlatDocuments == {Document(t, << >>, <<"\n">>) : t \in Flat}
MCQueries == <<ValueExtractor(1),
               Extractor("Object", <<S.text, E.text>>, <<ValueExtractor(1), ValueExtractor(2)>>)>>

Long == Str(<<"a", "b", "c", "d", "e", "f", "g">>)
MCNamedDocuments ==
  {Document(Obj(<<Fld(S, Arr(<<Obj(<<Fld(E, Arr(<<Obj(<<Fld(N, name)>>)>>))>>)>>))>>), << >>, <<"\n">>) :
     name \in {Seven, Long}}

MCCapacities == {60}
=============================================================================
