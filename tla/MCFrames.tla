------------------------------- MODULE MCFrames -------------------------------
(* Small instances of Frames for TLC: a short message, and one whose packet *)
(* is 400 bytes long, so that its length has two bytes, one of them above   *)
(* 0x7F; a count of three bytes, and one with a byte above 0x7F.            *)
EXTENDS Frames

MCTexts == <<<<123, 125>>, [k \in 1 .. 384 |-> 97]>>
MCCounts == {70000, 200}
MCCommand == <<123, 48, 125>>
=============================================================================
