-------------------------- MODULE MCSearchCommand ---------------------------
(* Small instances of SearchCommand for TLC.                                 *)
EXTENDS SearchCommand
CONSTANTS u, m,         \* a cloud link and a magnet link
          p, q          \* two passwords

RowWith(i, k, link, score) ==
    [key |-> <<i, k>>, src |-> i, time |-> 0, full |-> 0, score |-> score, links |-> <<link>>]
Ids == (1 .. 3) \X (1 .. 2)
CodeOf(times) == [url : {u}, pwd : {p, q, NoPwd}, time : times]
Magnet == [url |-> m, pwd |-> NoPwd, time |-> 0]

(* A provider and two Telegram channels: the provider and a channel find the  *)
(* same link, the channel also a magnet, the other channel nothing.           *)
TwoCodes == {<< <<RowWith(1, 1, a, 0)>>, <<RowWith(2, 1, b, s), RowWith(2, 2, Magnet, 0)>>, <<>> >> :
              a \in CodeOf({0}), b \in CodeOf({0, 1}), s \in {0, 1}}

(* Two sources and one link, without dates.                                   *)
Undated == {<< <<RowWith(1, 1, a, 0)>>, <<RowWith(2, 1, b, s)>> >> :
              a \in CodeOf({0}), b \in CodeOf({0}), s \in {0, 1}}
=============================================================================
