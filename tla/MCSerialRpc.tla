----------------------------- MODULE MCSerialRpc -----------------------------
(* Small instances of SerialRpc for TLC. *)
EXTENDS SerialRpc

\* frames of five bytes and of six
NoneOrOne == {0, 1}
\* bytes that, read as a length, are one of a frame, reach into the frame after
\* the next, or make the printing endless, too
CmdValues == {1, ByteMod - 6, ByteMod - 5}
ZeroOrAgain == {-1, 0}
OnlyZero == {0}
JustOne == {1}
=============================================================================
