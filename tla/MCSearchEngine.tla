--------------------------- MODULE MCSearchEngine ---------------------------
(* Small instances of SearchEngine for TLC.                                  *)
EXTENDS SearchEngine
CONSTANTS a, b      \* two links
TwoLinks == {a, b}
OnlyA == {a}
FirstProvider == {1}
=============================================================================
