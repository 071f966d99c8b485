--------------------------- MODULE MCChannelStore ---------------------------
(* Small instances of ChannelStore for TLC.                                  *)
EXTENDS ChannelStore, TLC
CONSTANTS a, b, c, p1, p2
=============================================================================
