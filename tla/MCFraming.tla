----------------------------- MODULE MCFraming -----------------------------
(* Instances of Framing for TLC.                                            *)
EXTENDS Framing

\* No byte, and bytes that look like a terminator and the magic.
MCPayloads == {<<>>, <<PACKET_TERMINATOR, PACKET_MAGIC>>}
=============================================================================
