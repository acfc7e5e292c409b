---------------------------- MODULE MCValueCapture ----------------------------
(* Every text of up to MaxCodePoints code points, one of each width, and     *)
(* every beginning of such a text, cut between or inside code points.        *)
EXTENDS ValueCapture, SequencesExt

MaxCodePoints == 4

MCAscii == {"1"}

Texts == {FlattenSeq(s) : s \in BoundedSeq({Encode(cp) : cp \in {"1", Cp2, Cp3, Cp4}},
                                           MaxCodePoints)}

MCInputs == UNION {{SubSeq(t, 1, n) : n \in 0 .. Len(t)} : t \in Texts}
=============================================================================
