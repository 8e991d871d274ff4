----------------------------- MODULE MCUsReader -----------------------------
(***************************************************************************)
(* UsReader for TLC: the frames a peer may send.                           *)
(***************************************************************************)
EXTENDS UsReader

Frame(op, frag, len) == [op |-> op, frag |-> frag, len |-> len]

\* Packets of one frame, packets in fragments, control frames, and the frames
\* that are refused: empty, too large, beyond the announced size, unknown.
AllFrames ==
  {Frame("text", 0, 1), Frame("bin", 0, 2), Frame("text", 3, 2), Frame("text", 0, 0),
   Frame("bin", 0, 5), Frame("cont", 0, 1), Frame("end", 0, 1), Frame("end", 0, 2),
   Frame("ping", 0, 0), Frame("pong", 0, 0), Frame("close", 0, 0), Frame("other", 0, 0)}

\* What a client sends that keeps to the protocol.
GoodFrames == {Frame("text", 0, 1), Frame("bin", 0, 2)}
=============================================================================
