----------------------------- MODULE MCFrameTs -----------------------------
(* Instances of FrameTs for TLC. *)
EXTENDS FrameTs, TLC

\* Channel 0 alone; and two channels, the first without an ISP.
OneChn == {<<0, "FS">>, <<0, "FEND">>}
TwoChn == {<<0, "FS">>, <<1, "FS">>, <<1, "FEND">>}

OnlyFs  == {[chn |-> Chns, evt |-> {"FS"}]}
OnlyOne == {[chn |-> {1}, evt |-> {"FS"}]}

AnyFile == Permutations(Files)
=============================================================================
