----------------------------- MODULE MCSessions -----------------------------
(* Host "a" of domain "a" and its subdomain "s.a": a root, a page reached    *)
(* as "/x", "/x?" and "/x#", and a page of the subdomain; a foreign page; a  *)
(* sitemap index "/i" whose two children are "/m" and the root of "s.a".     *)
EXTENDS Sessions

At(h, path, query, fragment) ==
    [scheme |-> "https", host |-> h, port |-> None, path |-> path, query |-> query,
     fragment |-> fragment]
Root == At("a", "/", None, None)
X == At("a", "/x", None, None)
XQuery == At("a", "/x", "", None)
XPart == At("a", "/x", None, "t")
Sub == At("s.a", "/", None, None)
Foreign == At("f", "/", None, None)
Mail == [Root EXCEPT !.scheme = "mailto", !.host = None]
Index == At("a", "/i", None, None)
Map == At("a", "/m", None, None)
MCUrl == {Root, X, XQuery, XPart, Sub, Foreign, Mail, Index, Map}

MCDomainOf == [h \in {"a", "s.a", "f"} |-> IF h = "s.a" THEN "a" ELSE h]
\* "x$" finds the page in its canonical spelling only, "a" finds both hosts.
MCPattern == {"x$", "a"}
MCMatches == [p \in MCPattern |-> IF p = "x$" THEN {X} ELSE MCUrl \ {Foreign, Mail}]

MCText == {"", "host", "domain", "any", "y", "n", "maybe", "250ms", "1s", "soon", "out", "root", " root",
           "index", "junk", "mail", "odd"}
MCTrim == [t \in MCText |-> IF t = " root" THEN "root" ELSE t]
MCLower == [t \in MCText |-> t]
MCParseUrl == [t \in MCText |-> CASE t \in {"root", " root"} -> Root [] t = "index" -> Index
                                  [] t = "mail" -> Mail [] OTHER -> None]
MCParseTime == [t \in MCText |-> CASE t = "250ms" -> 250 [] t = "1s" -> 1000 [] OTHER -> None]
MCFormatTime == [d \in {250, 1000} |-> IF d = 250 THEN "250ms" ELSE "1s"]

Plain == [seeds |-> <<" root">>, sitemap |-> <<>>, depth |-> None, max_pages |-> 2,
          concurrency |-> 2, delay |-> 1000, timeout |-> 1000, scope |-> "host",
          user_agent |-> None, ignore_robots |-> FALSE, ignore_crawl_delay |-> TRUE,
          include |-> <<>>, exclude |-> <<"x$">>, output |-> "out", retries |-> 2,
          max_body |-> 10, no_save |-> FALSE]
MCCommandLines ==
    {Plain,
     [Plain EXCEPT !.seeds = <<>>, !.sitemap = <<"index">>, !.scope = "domain", !.depth = 0,
                   !.max_pages = None, !.delay = 250, !.ignore_crawl_delay = FALSE],
     [Plain EXCEPT !.scope = "any", !.no_save = TRUE, !.max_pages = None, !.depth = 1,
                   !.ignore_robots = TRUE, !.include = <<"a">>],
     [Plain EXCEPT !.sitemap = <<"junk">>],
     [Plain EXCEPT !.user_agent = "odd"],
     [Plain EXCEPT !.seeds = <<"mail">>],
     [Plain EXCEPT !.exclude = <<"(">>]}

Loc(u) == <<S!Start("loc"), S!Content(u), S!End("loc")>>
Entry(name, inner) == <<S!Start(name)>> \o inner \o <<S!End(name)>>

\* An index with two children and, against the protocol, a page; one child is
\* a list of pages, and the other cannot be read or breaks off, after a page
\* in the place of a sitemap.
IndexXml == Entry("sitemap", Loc(Map)) \o Entry("sitemap", Loc(Sub)) \o Loc(Sub)
MapXml == Entry("url", Loc(XQuery)) \o <<S!Other>> \o Entry("url", Loc(Foreign)) \o Entry("url", Loc(Mail) \o Loc(None))
SubXml == Entry("sitemap", Entry("url", Loc(XQuery))) \o <<S!Error>> \o Entry("url", Loc(Sub))
MCSitemapAt ==
    [u \in MCUrl |-> CASE u = Index -> {IndexXml} [] u = Map -> {MapXml, None}
                       [] u = Sub -> {SubXml} [] OTHER -> {None}]

MCHrefs == [u \in MCUrl |-> CASE u = Root -> {XPart, Sub, Mail, Foreign}
                              [] u = Sub -> {XQuery, Root} [] OTHER -> {Root}]

MCLong == {X}
MCUnreachable == {Sub}

MCTyped ==
    [target |-> {"", "index", "junk"}, max_pages |-> {Blank, Garbage, Digits(1)},
     depth |-> {Blank, Garbage}, concurrency |-> {Blank, Digits(0), Digits(1025)},
     scope |-> {"any", "maybe"}, delay |-> {"", "soon", "250ms"}, robots_delay |-> {"", "n", "maybe"},
     output |-> {""}, save |-> {"n", "maybe"}]
=============================================================================
