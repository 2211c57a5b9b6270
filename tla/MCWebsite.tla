---------------------------- MODULE MCWebsite ----------------------------
(* The website on small texts.                                             *)
EXTENDS Website

MCOld == <<0, 1, 0, 1>>
MCNew == <<1, 0, 1, 0, 1>>
MCTexts == {<<>>, MCOld, MCNew, <<0, 0, 1>>}
MCInputs == BoundedSeq({0, 1}, 4)
=============================================================================
