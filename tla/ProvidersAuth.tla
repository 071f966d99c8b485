--------------------------- MODULE ProvidersAuth ---------------------------
(* The plans of the providers with a login whose searches hand on their rows   *)
(* entry by entry.  What they save of their profiles is in ProfileStore.       *)
EXTENDS ProviderPlan

(* One job for each channel: its number is known, or asked for first; what is  *)
(* read of old indexes on the way is a warning, and warnings are an error.     *)
QqpdLookup == Free(Flawed(Strict(Keeping(NoneKept(Pages(10, Items({"id"})))))))
QqpdFeed == {"title", "link"}
QqpdChannel == Nested([asks |-> {"before"}] @@ Strict(Keeping(Live(Rows(QqpdFeed)))))
Qqpd == <<QqpdLookup, QqpdChannel>>

(* Five redirects are followed, each a request of its own, in the time of one. *)
WoniuGet(stage) == Limited(Sent(6, {"status"}, stage))
WoniuVerify == WoniuGet(Key)
WoniuItem == {"page", "id", "title", "new"}
WoniuLinks == {"link"}
Woniu ==
    <<WoniuVerify, WoniuGet(Items(WoniuItem)),
      WoniuGet(Strict(CollectDetails(6, WoniuLinks)))>>

(* A challenge met on the way is solved once, with two more requests, before   *)
(* the page counts as loaded; a session that is refused is renewed once, as    *)
(* long as there are no rows.  The first search warms the session up.  Another *)
(* profile is searched in the same way.                                        *)
GyingChallenged(stage) == Sent(2, {"odd", "denied"}, Strict(stage))
GyingWarm == GyingChallenged(Key)
GyingItem == {"title", "match", "page"}
GyingLinks == {"link"}
GyingDetail == [live |-> "yield", asks |-> {"before"}] @@ Each(50, Rows(GyingLinks))
Gying == <<Limited(GyingChallenged(Items(GyingItem))), GyingChallenged(GyingDetail)>>

AuthPlans == {Qqpd, Woniu, Gying, <<GyingWarm>> \o Gying}
=============================================================================
