------------------------------ MODULE MCFraming ------------------------------
(* Instances of Framing for TLC.                                            *)
EXTENDS Framing

\* No text, two lines, and a line longer than the buffer and the pipe.
ThreeTexts == {<<>>, <<"x", "n", "x">>, <<"x", "x", "x", "x", "x">>}
=============================================================================
