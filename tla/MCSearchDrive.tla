---------------------------- MODULE MCSearchDrive ---------------------------
(* Small instances of SearchDrive for TLC.                                   *)
EXTENDS SearchDrive
CONSTANTS u, m,         \* a cloud link and a magnet link
          p, q,         \* two passwords
          c, d          \* a saved channel and one given on the command line
=============================================================================
