---------------------------- MODULE MCInputPath ----------------------------
(* InputPath for TLC: a screen of 4 x 2, a window of the same proportions and *)
(* one with a band above and below the stream.                                *)
EXTENDS InputPath

MCPoints == {<<1, 1>>, <<3, 2>>, <<1, 7>>}
MCWindows == {<<4, 2>>, <<8, 8>>}
MCStream == <<4, 2>>
=============================================================================
