------------------------------ MODULE Sitemaps ------------------------------
(***************************************************************************)
(* sitemap.rs of rustcrawl-core: what it reads in a sitemap, as a fold over *)
(* the events of the XML reader.  An event is [kind, name, url]: the start  *)
(* or the end of the element with that local name (the prefix of image:loc  *)
(* is dropped), or a text and the URL it parses to, None if it is no URL.   *)
(* "other" is what the reader skips (CDATA, comments, empty elements), and  *)
(* "error" is where it gives up.                                            *)
(***************************************************************************)
EXTENDS SequencesExt

CONSTANTS
    None,
    MaxSitemaps   \* how many sitemaps of one index are read: 50

Start(name) == [kind |-> "start", name |-> name, url |-> None]
End(name) == [kind |-> "end", name |-> name, url |-> None]
Content(url) == [kind |-> "text", name |-> None, url |-> url]
Other == [kind |-> "other", name |-> None, url |-> None]
Error == [kind |-> "error", name |-> None, url |-> None]

Empty == [in_loc |-> FALSE, in_sitemap_entry |-> FALSE, pages |-> <<>>, sitemaps |-> <<>>]

Opened(s, name) ==
    CASE name = "loc" -> [s EXCEPT !.in_loc = TRUE]
      [] name = "sitemap" -> [s EXCEPT !.in_sitemap_entry = TRUE]
      [] name = "url" -> [s EXCEPT !.in_sitemap_entry = FALSE]
      [] OTHER -> s

\* Mutant of Closed: the end of an index entry is not noticed.
ClosedMutant(s, name) == IF name = "loc" THEN [s EXCEPT !.in_loc = FALSE] ELSE s

Closed(s, name) ==
    CASE name = "loc" -> [s EXCEPT !.in_loc = FALSE]
      [] name = "sitemap" -> [s EXCEPT !.in_sitemap_entry = FALSE]
      [] OTHER -> s

Located(s, url) ==
    IF ~s.in_loc \/ url = None THEN s
    ELSE IF s.in_sitemap_entry THEN [s EXCEPT !.sitemaps = Append(@, url)]
    ELSE [s EXCEPT !.pages = Append(@, url)]

After(s, event) ==
    CASE event.kind = "start" -> Opened(s, event.name)
      [] event.kind = "end" -> Closed(s, event.name)
      [] event.kind = "text" -> Located(s, event.url)
      [] OTHER -> s

Whole(events) == \A i \in DOMAIN events : events[i] # Error

\* parse: what came before an error is kept.
Sitemap(events) ==
    FoldLeft(After, Empty,
             IF Whole(events) THEN events ELSE SubSeq(events, 1, SelectInSeq(events, LAMBDA e : e = Error)))

\* The sitemaps of an index that fetch_urls goes on to read.
Children(sitemap) == SubSeq(sitemap.sitemaps, 1, Min({MaxSitemaps, Len(sitemap.sitemaps)}))

-----------------------------------------------------------------------------
(* The same for a well-formed sitemap, by the elements a text lies in.      *)

Inside(events, name, i) ==
    \E j \in 1..i : events[j] = Start(name) /\ \A k \in j..i : events[k] # End(name)

Located_(events, i) == events[i].kind = "text" /\ events[i].url # None /\ Inside(events, "loc", i)

AdvertisedPages(events) ==
    {events[i].url : i \in {j \in DOMAIN events : Located_(events, j) /\ ~Inside(events, "sitemap", j)}}
AdvertisedSitemaps(events) ==
    {events[i].url : i \in {j \in DOMAIN events : Located_(events, j) /\ Inside(events, "sitemap", j)}}

\* What its loc elements name, wherever they are: a <url> inside a <sitemap>
\* makes a page of what follows it in the entry.
Advertised(events) == AdvertisedPages(events) \cup AdvertisedSitemaps(events)
=============================================================================
