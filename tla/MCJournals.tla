----------------------------- MODULE MCJournals -----------------------------
(* Two model calls; two captures of one game's and one application's writer, and
   the snapshot of an earlier one.                                            *)
EXTENDS Journals, TLC

CONSTANTS c1, c2, b1, b2, game, app

TwoCalls == {c1, c2}
TwoCaptures == {b1, b2}
OneCapture == {b1}
GameFirst == <<game, app>>
TheGame == {game}
=============================================================================
