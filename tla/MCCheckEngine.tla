--------------------------- MODULE MCCheckEngine ----------------------------
(* Small instances of CheckEngine for TLC.                                   *)
EXTENDS CheckEngine
CONSTANTS a1, a2,       \* two urls of one share
          b,            \* a url of a cloud without a checker
          x,            \* no url
          s, t,         \* the normalized urls
          p, none,      \* a password, and none
          direct        \* no proxy

Normalized == (a1 :> s) @@ (a2 :> s) @@ (b :> t) @@ (x :> Malformed)
Lifetimes == [state \in States |-> IF state = "ok" THEN 2 ELSE 1]

Item(url, pwd) == [url |-> url, pwd |-> pwd]
Asked(items, jobs, refresh, noCache) ==
    [items |-> items, jobs |-> jobs, refresh |-> refresh, noCache |-> noCache, scope |-> direct]

(* A list whose first and last are one share, asked with check.jobs = 0; one   *)
(* link past the cache; one without it.                                        *)
Several ==
    {Asked(<<Item(a1, none), Item(x, none), Item(a2, none)>>, 0, FALSE, FALSE),
     Asked(<<Item(a1, p)>>, 1, TRUE, FALSE),
     Asked(<<Item(b, none)>>, 2, FALSE, TRUE)}

Damaged == [k \in {<<s, none, direct>>} |-> Corrupt]
=============================================================================
