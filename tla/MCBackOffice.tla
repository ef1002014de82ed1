---------------------------- MODULE MCBackOffice ----------------------------
(* Site crawl, pricing kernel, inference of a scope, quote desk, accounts, *)
(* the rate card pages, the template editor, the taxonomy and the settings *)
(* side by side: each behaviour runs one, so a run explores their sum.     *)
EXTENDS SiteCrawl, PriceCases, ScopeInference, QuoteDesk, RateCards, Accounts,
        TemplateEditor, Taxonomy, TenantSettings

CONSTANTS wild, black, white, apk, grey, \* methodologies
          a1, a2, noapp, f1, f2, k1,
          ann, bob, u1, u2, \* people
          c1, c2, c3, c4            \* categories

VARIABLE part
backVars == <<crawl, caseVars, deskVars, acctVars, templateVars, taxonomyVars,
              settingsVars, cardVars, inferVars, part>>

-----------------------------------------------------------------------------
(* A site with a shell page, a deep site whose map lists nothing, one that *)
(* robots.txt closes in part, one that redirects, and one behind a shell.  *)
Urls == {"/", "/a", "/b", "/c", "/d", "/e", "/x"}
Links(f) == [u \in Urls |-> IF u \in DOMAIN f THEN f[u] ELSE {}]
TwoLevels == [root |-> "/", map |-> "m0", index |-> ("m0" :> <<"m1">> @@ "m1" :> <<>>),
              lists |-> ("m0" :> {} @@ "m1" :> {"/c", "/x"}),
              links |-> Links("/" :> {"/a", "/b"} @@ "/a" :> {"/c", "/x"} @@ "/b" :> {"/a"}),
              moved |-> [u \in Urls |-> u], offsite |-> {"/x"}, private |-> {}, robots |-> {},
              filtered |-> {}, html |-> Urls, usual |-> <<"/c", "/b">>, same |-> {}, shell |-> FALSE,
              calls |-> {[method |-> "POST", path |-> "/api"]}, bundle |-> {"/api"}]
NoMaps == ("m0" :> {} @@ "m1" :> {})
MCSites ==
  {TwoLevels,
   [TwoLevels EXCEPT !.lists = NoMaps,
      !.links = Links("/" :> {"/a", "/b"} @@ "/a" :> {"/d"} @@ "/b" :> {"/c"} @@ "/c" :> {"/d"}
                      @@ "/d" :> {"/e"})],
   [TwoLevels EXCEPT !.robots = {"/c"}],
   [TwoLevels EXCEPT !.lists = NoMaps, !.robots = {"/b"},
      !.links = Links("/" :> {"/a", "/b"} @@ "/b" :> {"/c"})],
   [TwoLevels EXCEPT !.lists = NoMaps, !.links = Links(<<>>), !.shell = TRUE, !.same = {"/", "/b"},
      !.filtered = {"/a"}],
   [TwoLevels EXCEPT !.lists = NoMaps, !.private = {"/e"},
      !.moved = [u \in Urls |-> CASE u = "/c" -> "/b" [] u = "/a" -> "/e" [] OTHER -> u]]}
MCOptions == [pages : {2, 6}, depth : {2, 3, 7}, width : {1, 2}, js : BOOLEAN]

-----------------------------------------------------------------------------
(* One card for the cases and the desk: a pooled line, a flat one, an open *)
(* one; two tiers meet at 3 and 4.                                         *)
T(lo, hi, m, p) == [lo |-> lo, hi |-> hi, method |-> m, who |-> "external", price |-> p]
MCCard == [lines |-> [web |-> [model |-> "per_unit", pool |-> TRUE,
                               tiers |-> <<T(1, 3, wild, 10), T(4, 9, wild, 7)>>],
                      api |-> [model |-> "flat", pool |-> FALSE, tiers |-> <<T(1, 9, wild, 50)>>]],
           open |-> {"misc"}]
MCSpecific == wild :> 0 @@ black :> 9 @@ white :> 9 @@ grey :> 8 @@ apk :> 13

Ent(slug, n, m, who) == [id |-> 0, slug |-> slug, n |-> n, method |-> m, who |-> who]
MCEntities == {Ent("web", 1, wild, "external"), Ent("web", 3, black, "external"),
               Ent("web", 2, black, "external"), Ent("api", 2, wild, "internal"),
               Ent("misc", 1, wild, "external")}
Mention(app, slug, kind, n, m, who) ==
  [app |-> app, slug |-> slug, kind |-> kind, n |-> n, method |-> m, who |-> who, conf |-> 8]
MCMentions == {Mention(a1, "web", "web", 1, black, "internal"), Mention(a1, "web", "web", 3, wild, "external"),
               Mention(a1, "api", "api", 2, white, "external"), Mention(a2, "api", "api", 1, black, "external"),
               Mention(noapp, "api", "api", 5, wild, "internal")}
MCTiers == {T(1, 2, black, 5), T(2, 3, black, 6), T(3, 4, black, 7), T(1, 3, wild, 8), T(2, 2, wild, 9),
            T(3, 4, white, 4)}
Node(id, parent, type, field, slug) ==
  [id |-> id, parent |-> parent, type |-> type, field |-> field, slug |-> slug]
MCTemplateNodes ==
  <<Node("how", NoNode, "question", "methodology", ""), Node("apps", NoNode, "loop", "", "web"),
    Node("pages", "apps", "question", "scope_value", ""), Node("calls", "apps", "question", "scope_value", "api"),
    Node("kind", "apps", "question", "methodology", ""), Node("who", "apps", "question", "customer_type", "")>>
MCAnswers == (<<"how", 0>> :> {black}
              @@ <<"pages", 1>> :> {0, 2} @@ <<"calls", 1>> :> {1} @@ <<"kind", 1>> :> {white}
              @@ <<"who", 1>> :> {"internal"}
              @@ <<"pages", 2>> :> {3} @@ <<"calls", 2>> :> {0, 4} @@ <<"kind", 2>> :> {black})

Item(u, kind, looks) == [url |-> u, kind |-> kind, looks |-> looks]
MCItems == {Item("/", "page", "cms"), Item("/", "page", "dynamic"), Item("/f", "page", "form"),
            Item("/api", "api", "cms"), Item("/s", "page", "none")}
MCCategories == {"cms", "dynamic", "form", "api", "none"}
MCPreferred == [c \in MCCategories |-> CASE c = "cms" -> <<"static", "web">> [] c = "api" -> <<"api">>
                                          [] c = "form" -> <<"web">> [] OTHER -> <<>>]
MCVerdicts == {0 :> "api", (0 :> "form" @@ 1 :> "junk"), (1 :> "cms" @@ 5 :> "form")}
SiteLine(slug, ms, hints) == [slug |-> slug, unit |-> slug, methods |-> ms, hints |-> hints]
MCSiteCards == {<<>>, <<SiteLine("web", {black}, {"form"}), SiteLine("api", {}, {}), SiteLine("api_fields", {}, {})>>,
                <<SiteLine("static", {}, {"none"}), SiteLine("dynamic", {black, white}, {}),
                  SiteLine("web_fields", {}, {})>>}

-----------------------------------------------------------------------------
(* Two files that speak of two applications; the mapper's fallback merges  *)
(* them into one entity and does not keep the hash.                        *)
Found(slug, app, n, c) == [slug |-> slug, app |-> app, n |-> n, manual |-> FALSE, conf |-> c]
MCFiles == <<f1, f2>>
MCDeskCards == k1 :> MCCard
MCReadings ==
  (<<f1, k1>> :> {[ents |-> <<Found("web", a1, 2, 8), Found("web", a2, 3, 8)>>, clean |-> TRUE],
                  [ents |-> <<Found("web", noapp, 3, 7)>>, clean |-> FALSE]}
   @@ <<f2, k1>> :> {[ents |-> <<Found("web", a2, 1, 8), Found("api", a2, 4, 5)>>, clean |-> TRUE]})
MCExtras == {[kind |-> "discount", cents |-> 5, bps |-> 0], [kind |-> "discount", cents |-> 0, bps |-> 1000],
             [kind |-> "fee", cents |-> -5, bps |-> 0]}
MCTuning == [cold |-> 1, rules |-> 3, linear |-> 4, ladder |-> {[from |-> 0, pct |-> -5]},
             modifier |-> 100, lifetime |-> 0]
OneTab == [tabs |-> 1, faults |-> FALSE, client |-> FALSE, clicks |-> 4]
MCDeskWorlds == {OneTab, [tabs |-> 2, faults |-> TRUE, client |-> TRUE, clicks |-> 2]}

-----------------------------------------------------------------------------
Team == [reqs |-> {1, 2}, ops |-> {"role", "remove", "invite", "resend", "revoke", "accept", "login"}]
Door == [reqs |-> {1, 2}, ops |-> {"signup", "login", "ask", "spend", "role"}]
Solo == [reqs |-> {1}, ops |-> {"role", "remove", "invite", "resend", "revoke", "accept", "login"}]
Tab  == [reqs |-> {1}, ops |-> {"login", "role", "ask", "browse"}]
MCCrowds == {Team, Door, Solo, Tab}

-----------------------------------------------------------------------------
(* A sheet with headings, types and a list; one whose questions tell the   *)
(* type.  The sample: a loop with one body node, then a question.          *)
MCSheets == {<< <<"question", "type", "options">>, <<"name", "short_text", "">>, <<"pick", "single_select", "a;b">> >>,
             << <<"how many", "yes">>, <<"", "no">>, <<"describe", "optional">> >>}
MCSample == [n \in 1..3 |-> CASE n = 1 -> NewNode("loop", TRUE, {}, <<Always(3)>>)
                              [] n = 2 -> [NewNode("number", TRUE, {}, <<Always(END)>>) EXCEPT !.parent = 1]
                              [] n = 3 -> NewNode("short_text", TRUE, {}, <<Always(END)>>)]

-----------------------------------------------------------------------------
(* Two top-level categories and a child; the template has a category of    *)
(* its own and moves the child under it.                                   *)
MCPlanted == (c1 :> Row(NoCat, 1)) @@ (c2 :> Row(NoCat, 2)) @@ (c3 :> Row(c1, 1))
MCTaxonomy == (c4 :> Row(NoCat, 1)) @@ (c3 :> Row(c4, 1))
MCRules == {<<c1, u1>>, <<c2, u2>>}
OnePanel == [panels |-> <<1>>, jobs |-> <<>>, edits |-> 3, rules |-> {}]
MCScenes == {[OnePanel EXCEPT !.panels = <<1, 2>>], [OnePanel EXCEPT !.jobs = <<1>>],
             [OnePanel EXCEPT !.jobs = <<1>>, !.rules = MCRules],
             [OnePanel EXCEPT !.panels = <<>>, !.jobs = <<1, 2>>, !.rules = MCRules]}

-----------------------------------------------------------------------------
MCRoutes == "proposal_sent" :> MailRoles @@ "approval_granted" :> {"sales_employee"}
SettingsScene(p, q, m, n, api) ==
  [panels |-> [t \in SettingsTabs |-> IF t = "left" THEN p ELSE q],
   edits |-> m, uploads |-> n, saves |-> 2, api |-> api]
Quiet == SettingsScene("limits", "none", 3, 0, TRUE)
MCSettingsScenes ==
  {Quiet, SettingsScene("limits", "limits", 3, 0, FALSE), SettingsScene("notify", "limits", 3, 0, FALSE),
   SettingsScene("notify", "notify", 3, 0, FALSE), SettingsScene("notify", "none", 4, 0, FALSE),
   SettingsScene("workspace", "none", 1, 2, FALSE), SettingsScene("workspace", "workspace", 2, 1, FALSE),
   SettingsScene("workspace", "workspace", 0, 2, FALSE)}

-----------------------------------------------------------------------------
(* Sheets: every kind of row; a slug twice and rows out of place; tiers    *)
(* without a price.  Replies: no JSON, a bad bound, tiers that meet.       *)
SheetRow(kind, name, unit, hi, m, p) ==
  [kind |-> kind, name |-> name, unit |-> unit, lo |-> 0, hi |-> hi, method |-> m, prices |-> p]
Both == [internal |-> 5, external |-> 6]
MCRows == <<SheetRow("line", "web", "pages", 0, wild, <<>>), SheetRow("range", "0-3", "", 3, wild, Both),
            SheetRow("head", "", "", 0, black, <<>>), SheetRow("range", "0-3", "", 3, wild, Both),
            SheetRow("label", "4+", "", 0, wild, Both),
            SheetRow("line", "net", "devices", 0, wild, <<>>), SheetRow("label", "fw", "", 0, black, Both),
            SheetRow("open", "", "", 0, wild, <<>>), SheetRow("label", "misc", "", 0, wild, <<>>)>>
MCTwice == <<SheetRow("label", "stray", "", 0, wild, Both), SheetRow("line", "web", "other", 0, wild, <<>>),
             SheetRow("range", "0-3", "", 3, wild, <<>>), SheetRow("line", "web", "pages", 0, wild, <<>>)>>
MCEmpty == <<MCTwice[4], MCTwice[3]>>
FromAI(name, ts) == [json |-> TRUE, name |-> name, lines |-> <<[slug |-> "web", tiers |-> ts]>>, open |-> <<>>]
MCReplies == {[FromAI("", <<>>) EXCEPT !.json = FALSE], FromAI("AI", <<T(0, 3, wild, 5), T(4, Bad, wild, 6)>>),
              FromAI("", <<T(0, 3, wild, 5), T(3, 5, wild, 6), T(Bad, 1, wild, 1)>>)}
MCFixtures == [s \in {"csaas", "prophaze"} |->
  Draft(s, {<<1, [slug |-> "web", tiers |-> <<T(0, 3, wild, 5)>>]>>}, <<>>, FALSE)]
Stored(ts) == 1 :> [name |-> "x", status |-> "draft", context |-> FALSE, hints |-> {},
                    lines |-> [s \in {"web"} |-> [tiers |-> ts]], open |-> {}]
CardScene(who, rows, names, provider, stored, n) ==
  [who |-> who, rows |-> rows, names |-> names, provider |-> provider, cards |-> stored, clicks |-> n,
   replies |-> IF stored = <<>> THEN MCReplies ELSE {}]
NoCards == CardScene({"t1"}, MCTwice, {"x", ""}, "auto", <<>>, 5)
MCCardScenes ==
  {NoCards, CardScene({"t1", "t2"}, MCRows, {"x"}, "auto", <<>>, 4),
   CardScene({"t1", "t2"}, MCEmpty, {"x"}, "manual", <<>>, 4),
   CardScene({"t1", "t2", "users"}, MCEmpty, {"x"}, "manual", <<>>, 4),
   CardScene({"d1", "d2", "t1", "api", "users"}, MCEmpty, {"x"}, "auto",
             Stored(<<T(0, 3, wild, 5), T(4, Top, wild, 6)>>), 4),
   CardScene({"d1", "t1"}, MCRows, {"x", "y"}, "none",
             Stored(<<T(0, 3, wild, 5), T(3, Top, wild, 6)>>), 4),
   CardScene({"d1", "t1"}, MCEmpty, {"y"}, "auto", Stored(<<>>), 5)}

-----------------------------------------------------------------------------
(* A line with two drivers in its name, a white-box and a flat one; a form *)
(* whose points name their neighbours too; replies whole, cut in the first *)
(* and in the second object, refused, repaired, and unusable.              *)
MCInferLines ==
  [web   |-> [unit |-> "pages", methods |-> {black, grey}, flat |-> FALSE, kind |-> "web"],
   roles |-> [unit |-> "other", methods |-> {apk}, flat |-> FALSE, kind |-> "app"],
   code  |-> [unit |-> "loc", methods |-> {white}, flat |-> FALSE, kind |-> "code"],
   iam   |-> [unit |-> "devices", methods |-> {wild}, flat |-> TRUE, kind |-> "net"],
   cloud |-> [unit |-> "devices", methods |-> {wild}, flat |-> FALSE, kind |-> "net"]]
MCVariants == wild :> <<>> @@ white :> <<>> @@ black :> <<apk>> @@ grey :> <<>> @@ apk :> <<>>
MCKeywords == <<[domain |-> TRUE, names |-> {"roles"}, aliases |-> {"mobile"}],
                [domain |-> FALSE, names |-> {"roles"}, aliases |-> {"role"}],
                [domain |-> TRUE, names |-> {"cloud"}, aliases |-> {"cloud"}],
                [domain |-> FALSE, names |-> {"code"}, aliases |-> {"lines"}],
                [domain |-> TRUE, names |-> {"web"}, aliases |-> {"web"}],
                [domain |-> FALSE, names |-> {"iam"}, aliases |-> {"iam"}]>>
MCByCustomer == [internal |-> grey, external |-> black]
NoPoint == [words |-> {}, n |-> 0, cat |-> "scope",
            fits |-> [u \in {"pages", "other", "loc", "devices"} |-> 0],
            yes |-> {}, who |-> "none", urls |-> [strong |-> 0, any |-> 0], about |-> {}]
Says(words, n, about) == [NoPoint EXCEPT !.words = words, !.n = n, !.about = about]
FormPoints ==
  <<[Says({"web"}, 10, {}) EXCEPT !.cat = "identity"], Says({"mobile"}, 12, {}), Says({"role"}, 3, {"roles"}),
    Says({"web"}, 2, {"web"}), [Says({"web"}, 5, {"web"}) EXCEPT !.fits["pages"] = 1],
    [Says({"iam"}, 0, {}) EXCEPT !.yes = {"iam"}], [Says({"lines"}, 9, {"code"}) EXCEPT !.who = "external"],
    [NoPoint EXCEPT !.urls = [strong |-> 0, any |-> 2]]>>
Wrote(slug, n) == [app |-> a1, slug |-> slug, n |-> n, method |-> wild, who |-> "external", conf |-> 12]
Reply(items, considered) ==
  [items |-> items, considered |-> considered, cut |-> 0, left |-> 0, broken |-> FALSE, declined |-> FALSE]
WholeText == Reply(<<Wrote("web", 25), [Wrote("roles", 14) EXCEPT !.method = black]>>, {"iam"})
MCTexts == {WholeText, [WholeText EXCEPT !.cut = 1, !.left = 2], [WholeText EXCEPT !.cut = 1],
            [WholeText EXCEPT !.cut = 2, !.left = 1],
            [WholeText EXCEPT !.declined = TRUE], [Reply(<<Wrote("web", 31)>>, {}) EXCEPT !.broken = TRUE],
            Reply(<<Wrote("other", 4), Wrote("web", 0)>>, {"roles"})}
MCDocs == [form |-> [points |-> FormPoints, cloudy |-> TRUE, replies |-> MCTexts],
           list |-> [points |-> <<[NoPoint EXCEPT !.urls = [strong |-> 2, any |-> 2]]>>, cloudy |-> FALSE,
                     replies |-> {WholeText, Reply(<<>>, {"cloud"})}],
           blank |-> [points |-> <<>>, cloudy |-> FALSE, replies |-> {}]]
InferScene(tabs, provider, capped, docs, n) ==
  [tabs |-> tabs, provider |-> provider, capped |-> capped, docs |-> docs, clicks |-> n]
MCInferScenes ==
  {InferScene(1, "manual", "length", DOMAIN MCDocs, 4), InferScene(1, "llm", "length", DOMAIN MCDocs, 4),
   InferScene(1, "llm", "max_tokens", {"form"}, 3), InferScene(2, "llm", "length", {"form", "list"}, 3)}

-----------------------------------------------------------------------------
Parts == {"crawl", "case", "desk", "accounts", "template", "taxonomy", "settings", "cards",
          "infer"}
BackInit == /\ CrawlInit /\ CaseInit /\ DeskInit /\ AccountsInit /\ TemplateInit
            /\ TaxonomyInit /\ SettingsInit /\ RateCardsInit /\ InferInit
            /\ part \in Parts
            /\ part # "case" => case.kind = "tiers"
            /\ part # "desk" => dWorld = OneTab
            /\ part # "accounts" => crowd = Tab
            /\ part # "taxonomy" => scene.rules = {} /\ scene.jobs = <<>>
            /\ part # "settings" => sScene = Quiet
            /\ part # "cards" => cScene = NoCards
            /\ part # "infer" => iScene.capped = "max_tokens"

(* The parts that stand still while one goes on.                           *)
Still(running) ==
  /\ UNCHANGED part /\ part = running
  /\ running # "crawl" => UNCHANGED crawl
  /\ running # "case" => UNCHANGED caseVars
  /\ running # "desk" => UNCHANGED deskVars
  /\ running # "accounts" => UNCHANGED acctVars
  /\ running # "template" => UNCHANGED templateVars
  /\ running # "taxonomy" => UNCHANGED taxonomyVars
  /\ running # "settings" => UNCHANGED settingsVars
  /\ running # "cards" => UNCHANGED cardVars
  /\ running # "infer" => UNCHANGED inferVars
BackNext == \/ Still("crawl") /\ CrawlNext
            \/ Still("case") /\ CaseNext
            \/ Still("desk") /\ DeskNext
            \/ Still("accounts") /\ AccountsNext
            \/ Still("template") /\ TemplateNext
            \/ Still("taxonomy") /\ TaxonomyNext
            \/ Still("settings") /\ SettingsNext
            \/ Still("cards") /\ RateCardsNext
            \/ Still("infer") /\ InferNext

(* Nobody has to do anything.                                              *)
BackSpec == BackInit /\ [][BackNext]_backVars
=============================================================================
