------------------------------ MODULE MCQuerying ------------------------------
(* Elements of every type, with strings longer than the capture buffer, in    *)
(* arrays and objects, parsed and taken apart in pools that have room for all *)
(* of them, for some of them, or for none; and shows of up to two seasons.    *)
EXTENDS Demonstration, JsonDocuments

E == Str(<<"e">>)
N == Str(<<"n">>)
S == Str(<<"s">>)
T == Str(<<"n", "t">>)
I == Str(<<"i">>)
MCNames == <<S.text, E.text, N.text, T.text, I.text>>

Long == Quoted(<<"a", "\\", "n", "c", "d", "e", "f", "g">>, <<"a", "\n", "c", "d", "e", "f", "g">>)

-----------------------------------------------------------------------------
Leaves == {Seven, Long, True, Arr(<<Null, N>>), Obj(<<Fld(N, Long)>>)}

Episode == Obj(<<Fld(N, Seven), Fld(I, Long)>>)

Trees ==
  {Obj(<<Fld(I, x), Fld(N, y)>>) : x, y \in Leaves}
    \cup {Obj(<<Fld(N, x), Fld(T, Null)>>) : x \in Leaves}
    \cup {Arr(<<x, Episode>>) : x \in Leaves}
    \cup {Arr(<<Obj(<<Fld(I, T), Fld(N, x)>>), Obj(<<Fld(I, Seven), Fld(T, Null)>>)>>) : x \in Leaves}
    \cup {Obj(<<Fld(I, Episode), Fld(N, x)>>) : x \in Leaves}
    \cup {Obj(<<Fld(N, Arr(<<Episode, x>>)), Fld(T, Null)>>) : x \in Leaves}

-----------------------------------------------------------------------------
EpisodeLists == {Arr(<< >>), Arr(<<Episode>>), Arr(<<Obj(<<Fld(N, Long), Fld(I, T)>>), Episode>>)}

SeasonOf(list) == Obj(<<Fld(I, Seven), Fld(E, list)>>)

SeasonLists == {Arr(<< >>)} \cup {Arr(<<SeasonOf(a)>>) : a \in EpisodeLists}
                 \cup {Arr(<<SeasonOf(a), SeasonOf(b)>>) : a, b \in EpisodeLists}

ShowTrees == {Obj(<<Fld(S, list), Fld(T, x), Fld(I, N)>>) : list \in SeasonLists, x \in {N, Long}}
MCShows == {Document(t, << >>, <<"\n">>) : t \in ShowTrees}

-----------------------------------------------------------------------------
Odd == Quoted(<<"\\", "\"", "}">>, <<"\"", "}">>)

Inner == {N, Obj(<<Fld(T, Seven), Fld(N, T)>>), Arr(<<Odd, Obj(<<Fld(N, Seven)>>)>>)}

Fields == {Fld(k, v) : k \in {N, T}, v \in Inner} \cup {Fld(Odd, Odd), Fld(Odd, Arr(<<N>>))}

Searchable == {Obj(s) : s \in BoundedSeq(Fields, 2)}
                \cup {Arr(<<x, o>>) : x \in Inner, o \in {Obj(<< >>), Obj(<<Fld(T, Seven)>>)}}

Gaps == {<< >>, <<" ">>}

MCDocuments == MCShows \cup {Document(t, gap, <<"\n">>) : t \in Trees, gap \in Gaps}
  \cup {Document(t, gap, <<" ">>) : t \in Searchable, gap \in Gaps}

\* The documents that are searched end in a space, and come from a file or a
\* mapping.  Those with white space inside come from a file.
Spaced == doc.in[2] = " "
MCInit ==
  /\ DemoInit
  /\ program = "search" <=> Last(doc.in) = " "
  /\ Spaced => r.ls.kind = "file"
  /\ program = "search" => r.ls.kind = IF Spaced THEN "file" ELSE "mmap"
MCSpec == MCInit /\ [][DemoNext]_DemoVars

-----------------------------------------------------------------------------
One(kind, key, child) == Extractor(kind, <<key>>, <<child>>)

MCQueries ==
  <<Extractor("Object", <<N.text, I.text>>, <<ValueExtractor(1), ValueExtractor(2)>>),
    Extractor("Object", <<S.text, T.text, I.text>>,
              <<One("Array", 0, One("Object", I.text, ValueExtractor(1))),
                ValueExtractor(2), ValueExtractor(3)>>),
    One("Array", 1, One("Object", I.text, ValueExtractor(1))),
    One("Object", N.text, One("Array", 0, ValueExtractor(1))),
    Extractor("Object", <<I.text, N.text>>, <<One("Object", N.text, ValueExtractor(1)), ValueExtractor(2)>>)>>

MCCapacities == {2, 7, 12, 60}
=============================================================================
