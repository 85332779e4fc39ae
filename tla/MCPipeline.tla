----------------------------- MODULE MCPipeline -----------------------------
(* A small instance of Pipeline: two HTML pages and one without an extension. *)
EXTENDS Pipeline

Home == <<"site", "home.html">>
News == <<"news", "a", "page.html">>
Text == <<"site", "text">>

Letters == [c \in {"site", "news"} |-> IF c = "site" THEN "s" ELSE "n"]

Tag(tag, url) == [tag |-> tag, url |-> url]

HomeTags ==
  {Tag("style", NoUrl), Tag("/style", NoUrl), Tag("css", Abs(<<"site", "c.css">>)),
   Tag("img", Rel(<<"i.png">>)), Tag("a", Abs(Text)), Tag("script", NoUrl)}

\* Every document of up to three of these tags, and one that has everything.
HomeDocs == UNION {[1..n -> HomeTags] : n \in 0..3}

NewsDocs ==
  {<<Tag("img", Abs(<<"i">>)), Tag("img", Abs(<<"j">>)), Tag("style", NoUrl),
     Tag("img", Abs(<<"k">>)), Tag("/style", NoUrl), Tag("script", Http("cdn", <<"x.js">>)),
     Tag("css", Abs(<<"site", "c.css">>))>>}

\* One page with a relative URL and one with a host.
OnePage == Home :> {<<Tag("img", Rel(<<"i.png">>)), Tag("script", Http("cdn", <<"x.js">>))>>}

TwoSites == Home :> HomeDocs @@ News :> NewsDocs @@ Text :> {<<>>}
Html == {Home, News}
OneHtml == {Home}

\* The names the first letter of a site has run into.
Glued == {<<"si.png">>}
============================================================================
