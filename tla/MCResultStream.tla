--------------------------- MODULE MCResultStream ---------------------------
(* Small instances of ResultStream for TLC.                                  *)
EXTENDS ResultStream
CONSTANTS u, v,         \* two urls
          p, q          \* two passwords

RowWith(i, id, link, score, full) ==
    [key |-> id, src |-> i, time |-> 0, full |-> full, score |-> score, links |-> <<link>>]
LinkOf(url) == [url : {url}, pwd : {p, q, NoPwd}, time : {0, 1}]

Ids == {<<k>> : k \in 0 .. 3}

(* Three sources that find the same url, each with its own password, date and *)
(* rank.                                                                      *)
OneUrl == {[i \in 1 .. 3 |-> <<RowWith(i, <<i>>, f[i][1], f[i][2], 0)>>] :
              f \in [1 .. 3 -> LinkOf(u) \X {0, 1}]}

(* Two sources that find something; the first publishes a row and refreshes   *)
(* it or adds another.                                                        *)
TwoRows == {<< <<RowWith(1, <<1>>, a, 0, 0), RowWith(1, <<k>>, b, 1, 0)>>, <<RowWith(2, <<3>>, c, 0, 0)>>, <<>> >> :
              a \in LinkOf(u), b \in LinkOf(u) \cup LinkOf(v), c \in LinkOf(u), k \in {1, 2}}

(* Two sources whose rows have the same id, one more complete than the other. *)
SharedIds == {[i \in 1 .. 3 |-> IF i = 3 THEN <<>> ELSE <<RowWith(i, <<0>>, f[i][1], 0, f[i][2])>>] :
              f \in [1 .. 2 -> (LinkOf(u) \cup LinkOf(v)) \X {0, 1}]}

Cases == OneUrl \cup TwoRows \cup SharedIds
=============================================================================
