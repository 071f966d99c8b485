---------------------------- MODULE ProvidersDE ----------------------------
(* The plans of the providers of d_registry.rs and e_registry.rs.              *)
EXTENDS ProviderPlan

(* Nothing is sent once the clock has run out.                                 *)
CheckedSend(stage) == [asks |-> {"before"}] @@ Strict(stage)
Bounded(plan) == Within(plan)

(* A challenge is solved once for all the requests that met it, and the page   *)
(* asked for again.  Links that stand on the detail page are at hand, others   *)
(* are on play pages, asked for in turn; the row is published with every link  *)
(* it gains.                                                                   *)
LibvioPage(stage) == Sent(2, {"denied"}, CheckedSend(stage))
LibvioItem == {"title", "page", "new"}
LibvioDetail == [gives |-> {"rows", "items"}] @@ LibvioPage(CollectPartial(6, {"link"}))
LibvioPlay == Nested(LibvioPage(Details(1, {"link"})))
Libvio == Bounded(<<LibvioPage(Items(LibvioItem)), LibvioDetail, LibvioPlay>>)

(* A redirect is dropped before it is followed, once.                          *)
LesoDocument(stage) == CheckedSend(stage)
LesoItem == {"title", "page", "id"}
LesoLinks == {"link"}
Leso == Bounded(<<LesoDocument(Items(LesoItem)), LesoDocument(Details(6, LesoLinks))>>)

(* A session that is not active is challenged and issued first.                *)
NsgamePost == CheckedSend(Key)
NsgameSession == <<NsgamePost, Maybe(NsgamePost), Maybe(NsgamePost)>>
NsgameGet(stage) == SendRetry(3, CheckedSend(stage))
NsgameLinks == {"id", "title", "link", "cloud"}
Nsgame ==
    Bounded(NsgameSession
            \o <<NsgameGet(Items({"id", "new"})), NsgameGet(Details(8, NsgameLinks))>>)

(* A site whose pages follow each other, each with its details; the page that  *)
(* fails is the last.                                                          *)
SiteFetch(attempts, stage) ==
    Sent(attempts, {"send", "status", "body", "odd"}, Asking(Strict(stage)))
Site(attempts, slots, needs) ==
    Within(<<[fail |-> "stop"] @@ Pages(1, SiteFetch(attempts, Items({"page", "title", "match", "new"}))),
             Nested(Free(SiteFetch(attempts, Details(slots, needs))))>>)
SiteLinks == {"link", "cloud"}
Erxiaopan == Site(3, 5, SiteLinks)
Hjzhencai == Site(1, 3, {})

(* Three streams and the daily list at once; shares in a stream are published  *)
(* as they come, the others resolved three at a time once all have ended, also *)
(* those of a stream that broke off.                                           *)
BuerchenRequest(stage) == [asks |-> {"before"}] @@ Strict(stage)
BuerchenHit == {"title", "match", "new"}
BuerchenWeb == [gives |-> {"rows", "items"}] @@ Streaming(Limited(Live(BuerchenRequest(Items(BuerchenHit)))))
BuerchenResolve == BuerchenRequest(Free(Details(3, {"link"})))
Buerchen == Within(<<Keeping(Pages(4, BuerchenWeb)), BuerchenResolve>>)

DEPlans == {Libvio, Leso, Nsgame, Erxiaopan, Hjzhencai, Buerchen}
=============================================================================
