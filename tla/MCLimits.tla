------------------------------ MODULE MCLimits -------------------------------
(***************************************************************************)
(* Limits for TLC: payloads at and around the limits.                      *)
(***************************************************************************)
EXTENDS Limits

\* Empty, small, as large as allowed, larger but still in frame_buffer, and
\* larger than frame_buffer.
MCSizes == {0, 2, 4, 5, 7}

=============================================================================
