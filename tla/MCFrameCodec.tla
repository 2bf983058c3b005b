----------------------------- MODULE MCFrameCodec -----------------------------
(***************************************************************************)
(* FrameCodec for TLC, at and around the lengths where the header changes. *)
(***************************************************************************)
EXTENDS FrameCodec

\* Every length the server can write with a two-byte or four-byte header that
\* holds it: around 125 and 255, and at the top.
MCServerLengths == (0 .. 300) \cup (65530 .. 65535)

\* The three forms, and byte boundaries within the longest.
MCClientLengths ==
    {0, 1, 124, 125, 126, 127, 128, 255, 256, 65534, 65535, 65536, 65537,
     131071, 16777215, 16777216, 16777217, 2147483000}

MCOpcodes == {0, 1, 2, 8, 9, 10}

\* The first length the second form of the header cannot hold.
MCLongLengths == 65534 .. 65538

=============================================================================
