---------------------------- MODULE MCDemo3Board ----------------------------
(* Words of three bits, two channels (two frames), two mailboxes.          *)
EXTENDS Demo3Board

Inputs == {[c \in 1 .. Channels |-> c % HalfWord]}
Converted == {1, 2}
Pins == {2}
Turns == <<{-3}, {3, -2}>>
BitRates == {0, 1}      \* a fast line, and 9600 bit/s
=============================================================================
