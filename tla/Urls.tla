-------------------------------- MODULE Urls --------------------------------
(***************************************************************************)
(* The rules about URLs in rustcrawl-core: their canonical form             *)
(* (normalize.rs), the links a page has (parser.rs) and which URLs a crawl  *)
(* may ask for (filter.rs).                                                 *)
(*                                                                         *)
(* A URL is what Url::parse returns, component by component: the url crate  *)
(* has lower-cased scheme and host.  A pattern is known by the URLs in      *)
(* whose text it finds a match.                                             *)
(***************************************************************************)
EXTENDS Naturals, Sequences

CONSTANTS
    Url,          \* [scheme, host, port, path, query, fragment]
    DomainOf,     \* DomainOf[h]: the registrable domain of h, or h itself
    Pattern,      \* the regular expressions that compile
    Matches,      \* Matches[p]: the URLs in whose text p finds a match
    None          \* an absent component

Elements(s) == {s[i] : i \in DOMAIN s}

Http == {"http", "https"}
DefaultPorts == {<<"http", 80>>, <<"https", 443>>}

\* For http and https Url::parse has already filled in the path and dropped
\* a default port; normalize does both again.
Normalize(u) ==
    [scheme |-> u.scheme,
     host |-> u.host,
     port |-> IF <<u.scheme, u.port>> \in DefaultPorts THEN None ELSE u.port,
     path |-> IF u.path = "" THEN "/" ELSE u.path,
     query |-> IF u.query = "" THEN None ELSE u.query,
     fragment |-> None]

\* The host_key of frontier.rs; None for a URL without a host.
HostKey(u) == u.host

\* The links parse_html returns for the hrefs of a page, joined to its base.
LinksOf(hrefs) == {[u EXCEPT !.fragment = None] : u \in {v \in hrefs : v.scheme \in Http}}

\* origin_root of cli.rs: the seed that stands for a sitemap.
OriginRoot(u) == [u EXCEPT !.path = "/", !.query = None, !.fragment = None]

(***************************************************************************)
(* The components of a URL, and a set of URLs that is large enough.         *)
(***************************************************************************)
ASSUME UrlsAssumption ==
    /\ Url \subseteq [scheme : STRING, host : STRING \cup {None}, port : Nat \cup {None},
                      path : STRING, query : STRING \cup {None}, fragment : STRING \cup {None}]
    /\ \A u \in Url : Normalize(u) \in Url /\ OriginRoot(u) \in Url
    /\ None \notin STRING

-----------------------------------------------------------------------------
(* UrlFilter. *)

HostsOf(seeds) == {u.host : u \in Elements(seeds)} \ {None}

FromConfig(config) ==
    [scope |-> config.scope,
     seed_hosts |-> HostsOf(config.seeds),
     seed_domains |-> {DomainOf[h] : h \in HostsOf(config.seeds)},
     include |-> Elements(config.include),
     exclude |-> Elements(config.exclude)]

InScope(filter, u) ==
    /\ u.host # None
    /\ \/ filter.scope = "any"
       \/ filter.scope = "host" /\ u.host \in filter.seed_hosts
       \/ filter.scope = "domain" /\ DomainOf[u.host] \in filter.seed_domains

Excluded(filter, u) == \E p \in filter.exclude : u \in Matches[p]
Included(filter, u) == filter.include # {} => \E p \in filter.include : u \in Matches[p]

\* Mutant of Allows: an include pattern overrides the exclude patterns.
AllowsMutant(filter, u) ==
    /\ u.scheme \in Http
    /\ InScope(filter, u)
    /\ IF filter.include = {} THEN ~Excluded(filter, u) ELSE Included(filter, u)

Allows(filter, u) ==
    /\ u.scheme \in Http
    /\ InScope(filter, u)
    /\ ~Excluded(filter, u)
    /\ Included(filter, u)
=============================================================================
