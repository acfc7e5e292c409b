-------------------------------- MODULE MCTrees --------------------------------
(* Trees of two levels in pools that are exhausted at each of the blocks that *)
(* building and printing them takes.                                          *)
EXTENDS TreeBuilding

MCCapacities == {4, 7, 10, 13, 16, 19}
MCFieldNames == {<<"k">>, <<"k", "l">>}
MCValues == {Element("Null", 0), Element("Integer", -3)}
MCStrings == {<<"\n", "x">>}
=============================================================================
