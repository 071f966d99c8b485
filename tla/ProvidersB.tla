----------------------------- MODULE ProvidersB -----------------------------
(* The plans of the providers of b_registry.rs.  Each search runs under its    *)
(* own timeout.                                                                *)
EXTENDS ProviderPlan

(* The site's API, then its mirrors, until one has an item; an item is looked  *)
(* for on each mirror, until one has a link.                                   *)
KpkuangBeta == {"title", "id", "new"}
KpkuangItem == {"title", "id"}
KpkuangLinks == {"link", "match"}
KpkuangHosts == 3
Kpkuang ==
    Within(<<UntilFound(1 + KpkuangHosts, Strict(Items(KpkuangBeta \cup KpkuangItem))),
             InTurn(KpkuangHosts, Strict(Ordered(Details(4, KpkuangLinks))))>>)

(* Two clouds are searched at once; a share may be known, or needs a transfer. *)
Pan365Item == {"match", "link", "new"}
Pan365Batch == Limited(Strict(Keeping(Items(Pan365Item))))
Pan365Share == Free(Strict(Ordered(Details(3, {"link", "cloud"}))))
Pan365 == Within(<<Pages(2, Pan365Batch), Pan365Share>>)

JikepanRow == {"link"}
Jikepan == Within(<<Strict(Rows(JikepanRow))>>)

NyaaRow == {"id", "link", "match"}
Nyaa == Within(<<Text(3, Strict(Rows(NyaaRow)))>>)

Pan666Row == {"match", "link"}
Pan666Page == Text(3, Strict(Live(Rows(Pan666Row))))
Pan666 == Within(<<Keeping(Pages(2, Pan666Page))>>)
Quark4k == Pan666

KkmaoItem == {"title", "page", "id"}
KkmaoLinks == {"link", "match"}
Kkmao == Within(<<Text(3, Strict(Items(KkmaoItem))), Text(2, Details(8, KkmaoLinks))>>)

OugeRow == {"title", "link", "cloud"}
Ouge == Within(<<Text(2, Strict(Rows(OugeRow)))>>)

MelostRow == {"link", "match"}
MelostPage == Text(1, Strict(Live(Rows(MelostRow))))
Melost == Within(<<Keeping(Pages(3, MelostPage))>>)

JutousheItem == {"title", "page"}
JutousheLinks == {"link", "cloud", "match"}
Jutoushe ==
    Within(<<Text(3, Strict(Items(JutousheItem))), Text(1, Details(1, JutousheLinks))>>)

MizixingItem == {"title", "page", "new"}
MizixingLinks == {"match"}
Mizixing ==
    Within(<<Text(3, Items(MizixingItem)), Text(3, Strict(Details(6, MizixingLinks)))>>)

(* Six mirrors at once: the first with an item has the search.                 *)
MuouItem == {"id"}
MuouLinks == {"match"}
Muou ==
    Within(<<Race(6, Text(3, Strict(Items(MuouItem)))),
             Text(3, Strict(Details(20, MuouLinks)))>>)

(* A thread without a link is loaded up to three times, with three attempts    *)
(* each; a body that breaks off is not tried again.                            *)
PantaFetch(loads, stage) ==
    Sent(3 * loads, IF loads = 1 THEN {"send", "status"} ELSE {"send", "status", "odd"}, stage)
PantaItem == {"id"}
PantaLinks == {"match"}
Panta ==
    Within(<<PantaFetch(1, Strict(Items(PantaItem))),
             PantaFetch(3, Free(Strict(Details(30, PantaLinks))))>>)

(* A page is the form's answer or the page that leads to.                      *)
PanwikiItem == {"title", "page"}
PanwikiPage == Strict(Items(PanwikiItem))
PanwikiLinks == {"link", "match"}
Panwiki ==
    Within(<<InTurn(2, PanwikiPage), Keeping(Rest(1, PanwikiPage)),
             Strict(Details(40, PanwikiLinks))>>)

(* Without known action ids, or when they no longer give credentials, the ids  *)
(* are found out from the site's scripts: candidates for the first are tried   *)
(* all at once, for the others in turn.                                        *)
PanyqCreds == Limited(Key)
PanyqCandidates == 2
PanyqDiscover ==
    <<Limited(Key), Limited(Key), Race(100, Limited(Key)), PanyqCreds,
      InTurn(PanyqCandidates, Limited(Key)), Limited([none |-> "abort"] @@ Key),
      InTurn(PanyqCandidates, Limited(Key))>>
PanyqPage == Limited(Strict(Items({})))
PanyqHit == Limited(Strict(Keeping(Ordered(Each(100, Items({}))))))
PanyqFinal == Nested(Limited(Strict(Details(1, {"match"}))))
Panyq ==
    Within(<<[fail |-> "next"] @@ PanyqCreds>>
           \o [k \in DOMAIN PanyqDiscover |-> Instead(PanyqDiscover[k])]
           \o <<Instead(PanyqCreds), PanyqPage, Keeping(Rest(2, PanyqPage)), PanyqHit, PanyqFinal>>)

(* A post's short links are resolved one by one.                               *)
PanzunItem == {"id", "title", "new"}
PanzunDetail == Strict(Keeping(Ordered(Each(4, Items({"match"})))))
PanzunShort == Nested(Free(Strict(Details(1, {"new"}))))
Panzun == Within(<<[fail |-> "stop"] @@ Pages(1, Strict(Items(PanzunItem))),
                   Nested(PanzunDetail), PanzunShort>>)

PiankuItem == {"id", "title"}
PiankuLinks == {"link", "match"}
Pianku == Within(<<Text(3, Strict(Items(PiankuItem))), Text(3, Details(1, PiankuLinks))>>)

QingyingItem == {"id", "match"}
QingyingShare == {"link"}
Qingying ==
    Within(<<Text(3, Strict(Items(QingyingItem))), Text(3, Strict(Details(3, QingyingShare)))>>)

(* A request is repeated after any fault; a challenge met on the way is solved *)
(* with three more, before the page counts as loaded.                          *)
QiweiHosts == 3
QiweiVerified(stage) == InTurn(QiweiHosts, Strict(stage))
QiweiItem == {"title", "id", "new"}
QiweiLinks == {"match"}
Qiwei ==
    Within(<<QiweiVerified(Items(QiweiItem)),
             QiweiVerified(Free(Ordered(Details(12, QiweiLinks))))>>)

BPlans ==
    {Kpkuang, Pan365, Jikepan, Nyaa, Pan666, Quark4k, Kkmao, Ouge, Melost, Jutoushe,
     Mizixing, Muou, Panta, Panwiki, Panyq, Panzun, Pianku, Qingying, Qiwei}
=============================================================================
