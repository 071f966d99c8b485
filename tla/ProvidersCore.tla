---------------------------- MODULE ProvidersCore ----------------------------
(* The plans of the providers that stand in providers/mod.rs itself.           *)
EXTENDS ProviderPlan

(* The key of the site's data, then page 0, then the other pages at once.      *)
PansearchKey == Key
PansearchRow == {"link"}
Pansearch ==
    LET page == Strict(Live(Rows(PansearchRow)))
    IN <<PansearchKey, page, Keeping(Rest(4, page))>>

YunsouRow == {"title", "link"}
Yunsou == <<Asking(Live(SendRetry(3, Pages(1, Rows(YunsouRow)))))>>

(* A page without hits may be a challenge, answered once.                      *)
DjgouHit == {"title", "page"}
DjgouChallenge == Maybe(Strict(SendRetry(3, Items(DjgouHit))))
DjgouLinks == {"link", "cloud", "new"}
Djgou ==
    <<SendRetry(3, Items(DjgouHit)), DjgouChallenge,
      SendRetry(3, CollectPartial(15, DjgouLinks))>>

HdmoliItem == {"title", "page"}
HdmoliLinks == {"link", "cloud", "new"}
Hdmoli ==
    <<Limited(SendRetry(3, Items(HdmoliItem))), SendRetry(3, CollectPartial(6, HdmoliLinks))>>

MeitizyRow == {"link"}
Meitizy == <<Strict(Text(3, Rows(MeitizyRow)))>>

YulinshufaItem == {"title", "page"}
YulinshufaLinks == {"link", "cloud"}
Yulinshufa ==
    <<SendRetry(3, Items(YulinshufaItem)),
      SendRetry(3, Ordered(CollectPartial(6, YulinshufaLinks)))>>

(* The answer to the form names the result page; it is dropped before that is  *)
(* asked for.                                                                  *)
ClxiongSearchId == Key
ClxiongItem == {"title", "page"}
ClxiongLinks == {"link"}
Clxiong == <<ClxiongSearchId, Items(ClxiongItem), CollectPartial(6, ClxiongLinks)>>

JsnoteclubKey == Text(3, Key)
JsnoteclubLinks == {"link", "cloud"}
Jsnoteclub ==
    <<JsnoteclubKey, Strict(Text(3, Items({"match"}))),
      Text(3, [ordered |-> TRUE, none |-> "on"] @@ CollectPartial(8, JsnoteclubLinks))>>

(* A list of answers is complete as it stands, a list of cards is followed.    *)
DuanjuwItem == {"page"}
DuanjuwLinks == {"link", "cloud", "new"}
Duanjuw ==
    <<Limited(SendRetry(3, Items(DuanjuwItem))),
      SendRetry(3, Free(CollectPartial(6, DuanjuwLinks)))>>

DyyjLinks == {"link", "cloud", "new"}
DyyjRow == DyyjLinks \cup {"id"}
Dyyj == <<Strict(Rows(DyyjRow))>>

(* The session's cookies, the stream of hits, and for a hit that is no address *)
(* a transfer that makes one.                                                  *)
JupansouHit == {"title", "page"}
JupansouTransfer == Free(Strict(Text(3, Each(8, Rows({"link"})))))
Jupansou ==
    <<SendRetry(3, [strict |-> FALSE] @@ Key),
      Text(3, Items(JupansouHit \cup {"match"})),
      Ordered(Live(Keeping(JupansouTransfer)))>>

CldiRow == {"title", "link"}
Cldi == <<Keeping(Live(SendRetry(3, Pages(5, Rows(CldiRow)))))>>

(* Hits of the old layout are rows already.                                    *)
ClmaoHit == {"title", "page"}
ClmaoOld == {"title", "link"}
ClmaoDetail == {"link"}
Clmao == <<Items(ClmaoHit), Free(CollectPartial(10, ClmaoDetail))>>

CygDownload == {"link"}
Cyg ==
    <<Limited(Strict(SendRetry(3, Items({})))),
      Strict(SendRetry(3, CollectPartial(6, CygDownload)))>>

(* A post's buttons are asked for one by one, four at a time, and the post is  *)
(* published with every link it gains.                                         *)
SusuPost == {"title", "match"}
SusuButton == {"link"}
SusuGroups == Strict(Keeping(NoneKept(Each(4, Items({})))))
SusuLinks == Nested(Strict(Keeping(Live(Each(4, Rows(SusuButton))))))
Susu == <<Items(SusuPost), SusuGroups, SusuLinks>>

CorePlans ==
    {Pansearch, Yunsou, Djgou, Hdmoli, Meitizy, Yulinshufa, Clxiong, Jsnoteclub,
     Duanjuw, Dyyj, Jupansou, Cldi, Clmao, Cyg, Susu}
=============================================================================
