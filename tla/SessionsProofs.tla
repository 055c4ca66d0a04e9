--------------------------- MODULE SessionsProofs ---------------------------
(***************************************************************************)
(* Proofs about the URL rules (Urls), the settings and how they travel      *)
(* (Settings), and the runs made with them (Sessions): for every URL, text, *)
(* duration, pattern and command line, any sites and sitemaps, any size of  *)
(* the output buffer and any number of signals and edits.                   *)
(***************************************************************************)
EXTENDS Sessions, FiniteSetTheorems, SequenceTheorems, WellFoundedInduction, TLAPS

(* normalize has nothing to add to its own result, so a URL of the seen set *)
(* can be looked up again (frontier.rs).                                    *)
THEOREM NormalizeIsIdempotent ==
    ASSUME NEW u \in Url
    PROVE  Normalize(Normalize(u)) = Normalize(u)
<1> DEFINE v == Normalize(u)
<1>1. /\ v.scheme = u.scheme /\ v.host = u.host /\ v.fragment = None
      /\ v.port = IF <<u.scheme, u.port>> \in DefaultPorts THEN None ELSE u.port
      /\ v.path = IF u.path = "" THEN "/" ELSE u.path
      /\ v.query = IF u.query = "" THEN None ELSE u.query
  BY Zenon DEF Normalize
<1>2. v = [scheme |-> v.scheme, host |-> v.host, port |-> v.port, path |-> v.path,
           query |-> v.query, fragment |-> None]
  BY Zenon DEF Normalize
<1> HIDE DEF v
<1>3. v.path # ""
  BY <1>1
<1>4. <<v.scheme, v.port>> \in DefaultPorts => v.port = None
  BY <1>1
<1>5. v.query = "" => v.query = None
  BY <1>1
<1>6. /\ (IF <<v.scheme, v.port>> \in DefaultPorts THEN None ELSE v.port) = v.port
      /\ (IF v.path = "" THEN "/" ELSE v.path) = v.path
      /\ (IF v.query = "" THEN None ELSE v.query) = v.query
  BY <1>3, <1>4, <1>5
<1> QED BY <1>2, <1>6, Zenon DEF Normalize

-----------------------------------------------------------------------------
(* The parsers, one part of the assumption at a time.                       *)

LEMMA ParserTypes ==
    /\ Trim \in [Text -> Text]
    /\ ParseUrl \in [Text -> Url \cup {None}]
    /\ ParseTime \in [Text -> Duration \cup {None}]
    /\ FormatTime \in [Duration -> Text \ {""}]
    /\ Duration \subseteq Nat
BY SettingsAssumption, Zenon

LEMMA NoneIsNothing ==
    /\ None \notin Text /\ None \notin Nat /\ None \notin BOOLEAN
    /\ None \notin CrawlConfig /\ None \notin NewJobSpec
BY SettingsAssumption, Zenon

LEMMA KnownTexts ==
    /\ {"", "host", "domain", "any", "y", "n", "250ms"} \subseteq Text
    /\ \A t \in {"", "host", "domain", "any", "y", "n", "250ms"} : Trim[t] = t /\ Lower[t] = t
BY SettingsAssumption, Zenon

LEMMA TimesSurvive ==
    \A d \in Duration : Trim[FormatTime[d]] = FormatTime[d] /\ ParseTime[FormatTime[d]] = d
BY SettingsAssumption, Zenon

LEMMA TargetsSurvive ==
    /\ ParseUrl[""] = None
    /\ \A t \in Text : ParseUrl[t] # None =>
           ParseUrl[Trim[t]] # None /\ ParseUrl[Trim[t]].scheme = ParseUrl[t].scheme
BY SettingsAssumption, Zenon

(* normalize changes neither the scheme nor the host: a task is queued      *)
(* under the host its link named (frontier.rs).                             *)
THEOREM NormalizeKeepsHost ==
    ASSUME NEW u \in Url
    PROVE  /\ Normalize(u).scheme = u.scheme
           /\ HostKey(Normalize(u)) = HostKey(u)
BY UrlsAssumption DEF Normalize, HostKey

(* So Frontier's assumption about Canon and HostOf is true of the code.     *)
THEOREM FrontierAssumptionHolds ==
    ASSUME NEW Canon, Canon = [u \in Url |-> Normalize(u)],
           NEW HostOf, HostOf = [u \in Url |-> HostKey(u)]
    PROVE  /\ Canon \in [Url -> Url]
           /\ \A u \in Url : Canon[Canon[u]] = Canon[u] /\ HostOf[Canon[u]] = HostOf[u]
BY UrlsAssumption, NormalizeIsIdempotent, NormalizeKeepsHost

(* The filter's verdict about scope is the same for every spelling of a     *)
(* URL, though it is asked before normalize (engine.rs): only the patterns  *)
(* can tell spellings apart.                                                *)
THEOREM ScopeIgnoresSpelling ==
    ASSUME NEW rules, NEW u \in Url
    PROVE  InScope(rules, Normalize(u)) <=> InScope(rules, u)
BY UrlsAssumption DEF Normalize, InScope

(* The scopes are nested: what a narrower scope allows, a wider one does,   *)
(* for the same seeds and patterns (config.rs, Scope).                      *)
THEOREM ScopesAreNested ==
    ASSUME NEW settings, settings.seeds \in Seq(Url), NEW u \in Url,
           NEW narrow \in {"host", "domain"}, NEW wide \in {"domain", "any"},
           InScope(FromConfig([seeds |-> settings.seeds, include |-> settings.include,
                               exclude |-> settings.exclude, scope |-> narrow]), u)
    PROVE  InScope(FromConfig([seeds |-> settings.seeds, include |-> settings.include,
                               exclude |-> settings.exclude, scope |-> wide]), u)
BY DEF InScope, FromConfig, HostsOf

(* A seed is in the scope it spans, whichever that is.                      *)
THEOREM SeedsAreInScope ==
    ASSUME NEW settings, settings.seeds \in Seq(Url), settings.scope \in Scopes,
           NEW u \in Elements(settings.seeds), u.host # None
    PROVE  InScope(FromConfig(settings), u)
BY DEF InScope, FromConfig, HostsOf, Elements, Scopes

-----------------------------------------------------------------------------
(* Whatever it is built from, a CrawlConfig has a seed, a pool between one  *)
(* worker and the limit, and only seeds that can be fetched (config.rs).    *)
THEOREM BuiltIsValid ==
    ASSUME NEW b, Build(b) # None
    PROVE  /\ Build(b) = b
           /\ b.seeds # <<>>
           /\ b.concurrency \in 1..MAX_CONCURRENCY
           /\ \A u \in Elements(b.seeds) : u.scheme \in Http
BY DEF Build, Acceptable

LEMMA SaysYesIsBoolean == \A text : SaysYes(text) \in BOOLEAN
BY DEF SaysYes

Trimmed(text) == IF text = None \/ Trim[text] = "" THEN None ELSE Trim[text]

(* A spec that is shown in the form and entered again is the same spec, the *)
(* white space around its texts aside (progress.rs, from_spec and to_spec). *)
THEOREM FormRoundTrip ==
    ASSUME NEW spec \in NewJobSpec, Trim[spec.target] # "", Trim[spec.delay] # ""
    PROVE  /\ Fillable(FromSpec(spec))
           /\ ToSpec(FromSpec(spec)) =
                [target |-> Trim[spec.target], max_pages |-> spec.max_pages, depth |-> spec.depth,
                 concurrency |-> spec.concurrency, scope |-> spec.scope,
                 delay |-> Trim[spec.delay], respect_crawl_delay |-> spec.respect_crawl_delay,
                 output |-> Trimmed(spec.output), save |-> spec.save]
<1> DEFINE sheet == FromSpec(spec)
<1>1. sheet.target = spec.target /\ sheet.scope = spec.scope /\ sheet.delay = spec.delay
  BY DEF FromSpec
<1>2. sheet.max_pages = Shown(spec.max_pages) /\ sheet.depth = Shown(spec.depth)
  BY DEF FromSpec
<1>3. sheet.concurrency.kind = "digits" /\ sheet.concurrency.number = spec.concurrency
  BY DEF FromSpec, Digits
<1>4. sheet.robots_delay = YesNo(spec.respect_crawl_delay) /\ sheet.save = YesNo(spec.save)
  BY DEF FromSpec
<1>5. sheet.output = Or(spec.output, "")
  BY DEF FromSpec
<1> HIDE DEF sheet
<1>6. \A n \in Nat \cup {None} : Shown(n) # Garbage /\ ParseOptional(Shown(n)) = n
  BY DEF Shown, ParseOptional, Digits, Blank, Garbage
<1>7. /\ Lower[Trim[YesNo(TRUE)]] \in Yes /\ Lower[Trim[YesNo(FALSE)]] \in No
      /\ SaysYes(YesNo(TRUE)) /\ ~SaysYes(YesNo(FALSE))
  BY KnownTexts DEF YesNo, SaysYes, Yes, No
<1>8. /\ Lower[Trim[sheet.robots_delay]] \in Yes \cup No
      /\ Lower[Trim[sheet.save]] \in Yes \cup No
  <2>1. spec.respect_crawl_delay \in BOOLEAN /\ spec.save \in BOOLEAN
    BY DEF NewJobSpec
  <2> QED BY <2>1, <1>4, <1>7
<1>9. SaysYes(sheet.robots_delay) = spec.respect_crawl_delay /\ SaysYes(sheet.save) = spec.save
  <2>1. spec.respect_crawl_delay \in BOOLEAN /\ spec.save \in BOOLEAN
    BY DEF NewJobSpec
  <2>2. SaysYes(YesNo(TRUE)) = TRUE
    BY <1>7, Zenon DEF SaysYes
  <2>3. SaysYes(YesNo(FALSE)) = FALSE
    <3>1. SaysYes(YesNo(FALSE)) \in BOOLEAN
      BY SaysYesIsBoolean
    <3> QED BY <3>1, <1>7, Zenon
  <2> QED BY <2>1, <2>2, <2>3, <1>4, Zenon
<1>10. spec.scope \in Scopes /\ Trim[sheet.scope] = spec.scope /\ Lower[Trim[sheet.scope]] = spec.scope
  <2>1. spec.scope \in Scopes
    BY DEF NewJobSpec
  <2>2. Trim["host"] = "host" /\ Trim["domain"] = "domain" /\ Trim["any"] = "any"
    BY SettingsAssumption, Zenon
  <2>3. Lower["host"] = "host" /\ Lower["domain"] = "domain" /\ Lower["any"] = "any"
    BY SettingsAssumption, Zenon
  <2> QED BY <2>1, <2>2, <2>3, <1>1 DEF Scopes
<1>11. /\ spec.concurrency \in 1..MAX_CONCURRENCY
       /\ spec.max_pages \in Nat \cup {None} /\ spec.depth \in Nat \cup {None}
       /\ spec.output \in Text \cup {None}
  BY DEF NewJobSpec
<1>12. Fillable(sheet)
  BY <1>1, <1>2, <1>3, <1>6, <1>8, <1>10, <1>11 DEF Fillable
<1>13. (IF Trim[sheet.output] = "" THEN None ELSE Trim[sheet.output]) = Trimmed(spec.output)
  <2>1. Trim[""] = "" /\ None # ""
    BY KnownTexts, NoneIsNothing
  <2> QED BY <2>1, <1>5, <1>11 DEF Or, Trimmed
<1>14. ToSpec(sheet) =
        [target |-> Trim[spec.target], max_pages |-> spec.max_pages, depth |-> spec.depth,
         concurrency |-> spec.concurrency, scope |-> spec.scope,
         delay |-> Trim[spec.delay], respect_crawl_delay |-> spec.respect_crawl_delay,
         output |-> Trimmed(spec.output), save |-> spec.save]
  BY <1>1, <1>2, <1>3, <1>6, <1>9, <1>10, <1>11, <1>12, <1>13 DEF ToSpec
<1> QED BY <1>12, <1>14 DEF sheet

LEMMA HeadOfConcat ==
    ASSUME NEW X, NEW s \in Seq(X), NEW t \in Seq(X), s # <<>>
    PROVE  Head(s \o t) = Head(s)
OBVIOUS

LEMMA HeadIsElement ==
    ASSUME NEW X, NEW s \in Seq(X), s # <<>>
    PROVE  Head(s) \in X /\ Head(s) \in Elements(s)
<1>1. 1 \in DOMAIN s /\ Head(s) = s[1] /\ s[1] \in X
  OBVIOUS
<1> QED BY <1>1 DEF Elements

LEMMA HeadIsFirst ==
    ASSUME NEW X, NEW s \in Seq(X), s # <<>>
    PROVE  Head(s) = s[1] /\ s[1] \in X /\ 1 \in DOMAIN s
OBVIOUS

LEMMA ParsedElement ==
    ASSUME NEW texts, NEW i \in DOMAIN texts
    PROVE  ParseUrl[texts[i]] \in Elements(Parse(texts)) /\ texts[i] \in Elements(texts)
BY DEF Elements, Parse

LEMMA NeitherIsBoolean == ASSUME NEW a, NEW b PROVE (~a /\ ~b) \in BOOLEAN
BY SMT

LEMMA NotIsBoolean == ASSUME NEW a PROVE (~a) \in BOOLEAN
BY SMT

LEMMA DefaultFields ==
    /\ Defaults.include = <<>> /\ Defaults.exclude = <<>>
    /\ Defaults.user_agent = None /\ Defaults.respect_robots = TRUE
    /\ Defaults.request_timeout \in Nat /\ Defaults.max_retries \in Nat
    /\ Defaults.max_body_bytes \in Nat
BY SMT DEF Defaults

LEMMA ConcurrencyIsNat == \A n \in 1..MAX_CONCURRENCY : n \in Nat
BY DEF MAX_CONCURRENCY

LEMMA EnteredFields ==
    ASSUME NEW s, NEW k,
           s = [target |-> Trim[k.target], max_pages |-> k.max_pages,
                depth |-> k.depth, concurrency |-> k.concurrency, scope |-> k.scope,
                delay |-> Trim[k.delay], respect_crawl_delay |-> k.respect_crawl_delay,
                output |-> Trimmed(k.output), save |-> k.save]
    PROVE  /\ s.target = Trim[k.target] /\ s.max_pages = k.max_pages
           /\ s.depth = k.depth /\ s.concurrency = k.concurrency
           /\ s.scope = k.scope /\ s.delay = Trim[k.delay]
OBVIOUS

LEMMA EnteredSwitch ==
    ASSUME NEW s, NEW k,
           s = [target |-> Trim[k.target], max_pages |-> k.max_pages,
                depth |-> k.depth, concurrency |-> k.concurrency, scope |-> k.scope,
                delay |-> Trim[k.delay], respect_crawl_delay |-> k.respect_crawl_delay,
                output |-> Trimmed(k.output), save |-> k.save]
    PROVE  s.respect_crawl_delay = k.respect_crawl_delay
BY Zenon

LEMMA FewElements ==
    /\ Elements(<<>>) = {}
    /\ \A x : Elements(<<x>>) = {x}
BY DEF Elements

(* A job can be edited from its record in the history and, after the        *)
(* crawl, from the settings the program kept: with the history on, both     *)
(* fill the form alike, up to the history switch (main.rs, progress.rs,     *)
(* jobs.rs).  The settings a form does not have are in neither.             *)
THEOREM EditSourcesAgree ==
    ASSUME NEW c \in CommandLine, c.seeds # <<>> \/ c.sitemap # <<>>,
           NEW recorded, recorded = FromJob(TemplateFromCli(c)),
           NEW kept, kept = EditableSpec(c)
    PROVE  /\ recorded.target = kept.target
           /\ recorded.max_pages = kept.max_pages /\ recorded.depth = kept.depth
           /\ recorded.concurrency = kept.concurrency /\ recorded.scope = kept.scope
           /\ recorded.delay = kept.delay /\ recorded.output = kept.output
           /\ recorded.respect_crawl_delay = kept.respect_crawl_delay
<1> DEFINE job == TemplateFromCli(c)
<1>1. c.scope \in Scopes /\ c.delay \in Duration
  BY DEF CommandLine
<1>2. c.seeds \in Seq(Text) /\ c.sitemap \in Seq(Text)
  BY DEF CommandLine
<1>3. job.scope = c.scope /\ job.delay = FormatTime[c.delay]
  BY DEF TemplateFromCli
<1>4. job.seeds = c.seeds /\ job.sitemaps = c.sitemap
  BY DEF TemplateFromCli
<1>. HIDE DEF job
<1>5. Or(job.scope, "domain") = c.scope
  <2>1. "host" # None /\ "domain" # None /\ "any" # None
    <3>1. "host" \in Text /\ "domain" \in Text /\ "any" \in Text /\ None \notin Text
      BY KnownTexts, NoneIsNothing
    <3> QED BY <3>1
  <2> QED BY <2>1, <1>1, <1>3, Zenon DEF Or, Scopes
<1>6. Or(job.delay, "250ms") = FormatTime[c.delay]
  <2>1. FormatTime[c.delay] \in Text /\ None \notin Text
    BY <1>1, ParserTypes, NoneIsNothing
  <2> QED BY <2>1, <1>3 DEF Or
<1>7. TargetLabel(job) = Head(c.seeds \o c.sitemap)
  <2>1. CASE c.seeds # <<>>
    <3>1. TargetLabel(job) = Head(c.seeds)
      BY <2>1, <1>4 DEF TargetLabel
    <3>2. Head(c.seeds \o c.sitemap) = Head(c.seeds)
      BY <2>1, <1>2, HeadOfConcat, Zenon
    <3> QED BY <3>1, <3>2
  <2>2. CASE c.seeds = <<>>
    <3>1. TargetLabel(job) = Head(c.sitemap)
      BY <2>2, <1>4 DEF TargetLabel
    <3> QED BY <3>1, <2>2, <1>2
  <2> QED BY <2>1, <2>2
<1>8. /\ job.max_pages = c.max_pages /\ job.max_depth = c.depth
      /\ job.concurrency = c.concurrency /\ job.output = c.output
  BY DEF job, TemplateFromCli
<1>9. job.respect_crawl_delay = (~c.ignore_robots /\ ~c.ignore_crawl_delay)
  BY Zenon DEF job, TemplateFromCli
<1>10. recorded = FromJob(job)
  BY DEF job
<1>11. /\ kept.target = Head(c.seeds \o c.sitemap)
       /\ kept.max_pages = c.max_pages /\ kept.depth = c.depth
       /\ kept.concurrency = c.concurrency /\ kept.scope = c.scope
       /\ kept.delay = FormatTime[c.delay] /\ kept.output = c.output
       /\ kept.respect_crawl_delay = (~c.ignore_robots /\ ~c.ignore_crawl_delay)
  BY Zenon DEF EditableSpec
<1>12. /\ recorded.target = TargetLabel(job)
       /\ recorded.max_pages = job.max_pages /\ recorded.depth = job.max_depth
       /\ recorded.concurrency = job.concurrency /\ recorded.scope = Or(job.scope, "domain")
       /\ recorded.delay = Or(job.delay, "250ms") /\ recorded.output = job.output
       /\ recorded.respect_crawl_delay = job.respect_crawl_delay
  BY <1>10 DEF FromJob
<1> QED
  BY <1>5, <1>6, <1>7, <1>8, <1>9, <1>11, <1>12, Zenon

\* A record of this version lacks no field.
LEMMA DeserializeRecorded ==
    ASSUME NEW c \in CommandLine
    PROVE  Deserialize(TemplateFromCli(c)) = TemplateFromCli(c)
<1> DEFINE job == TemplateFromCli(c)
<1>1. job.concurrency \in 1..MAX_CONCURRENCY
  BY DEF CommandLine, TemplateFromCli
<1>2. job.respect_crawl_delay \in BOOLEAN
  BY NeitherIsBoolean, Zenon DEF TemplateFromCli
<1>3. job.concurrency # None /\ job.respect_crawl_delay # None
  <2>1. job.concurrency \in Nat
    BY <1>1, ConcurrencyIsNat, Zenon
  <2> QED BY <1>2, <2>1, NoneIsNothing, Zenon
<1>4. Deserialize(job) = [job EXCEPT !.concurrency = @, !.respect_crawl_delay = @]
  BY <1>3, Zenon DEF Deserialize, Or
<1>5. PICK respects : respects = (~c.ignore_robots /\ ~c.ignore_crawl_delay)
  OBVIOUS
<1>6. job = [seeds |-> c.seeds, sitemaps |-> c.sitemap, max_pages |-> c.max_pages,
             max_depth |-> c.depth, concurrency |-> c.concurrency, scope |-> c.scope,
             delay |-> FormatTime[c.delay], respect_crawl_delay |-> respects,
             output |-> c.output]
  BY <1>5, Zenon DEF TemplateFromCli
<1> HIDE DEF job
<1>7. [job EXCEPT !.concurrency = @, !.respect_crawl_delay = @] = job
  BY <1>6
<1> QED BY <1>4, <1>7 DEF job

\* The settings of the command line as the user finds them for editing: those
\* the program kept, and those of the job it recorded.
KeptSpecs(c) == {EditableSpec(c), FromJob(Deserialize(TemplateFromCli(c)))}

(* What is edited, from either source, is what the command line said.       *)
LEMMA KeptFields ==
    ASSUME NEW c \in CommandLine, c.seeds \o c.sitemap # <<>>,
           NEW kept, kept \in KeptSpecs(c)
    PROVE  /\ kept \in NewJobSpec
           /\ kept.target = Head(c.seeds \o c.sitemap)
           /\ kept.max_pages = c.max_pages /\ kept.depth = c.depth
           /\ kept.concurrency = c.concurrency /\ kept.scope = c.scope
           /\ kept.delay = FormatTime[c.delay] /\ kept.output = c.output
           /\ kept.respect_crawl_delay = (~c.ignore_robots /\ ~c.ignore_crawl_delay)
<1> DEFINE editable == EditableSpec(c)
           recorded == FromJob(TemplateFromCli(c))
<1>1. kept \in {editable, recorded}
  BY DeserializeRecorded DEF KeptSpecs
<1>2. c.seeds # <<>> \/ c.sitemap # <<>>
  OBVIOUS
<1>3. /\ editable.target = Head(c.seeds \o c.sitemap)
      /\ editable.max_pages = c.max_pages /\ editable.depth = c.depth
      /\ editable.concurrency = c.concurrency /\ editable.scope = c.scope
      /\ editable.delay = FormatTime[c.delay] /\ editable.output = c.output
      /\ editable.respect_crawl_delay = (~c.ignore_robots /\ ~c.ignore_crawl_delay)
  BY Zenon DEF EditableSpec
<1>4. /\ recorded.target = editable.target
      /\ recorded.max_pages = editable.max_pages /\ recorded.depth = editable.depth
      /\ recorded.concurrency = editable.concurrency /\ recorded.scope = editable.scope
      /\ recorded.delay = editable.delay /\ recorded.output = editable.output
      /\ recorded.respect_crawl_delay = editable.respect_crawl_delay
  BY <1>2, EditSourcesAgree
<1>5. /\ kept.target = Head(c.seeds \o c.sitemap)
      /\ kept.max_pages = c.max_pages /\ kept.depth = c.depth
      /\ kept.concurrency = c.concurrency /\ kept.scope = c.scope
      /\ kept.delay = FormatTime[c.delay] /\ kept.output = c.output
      /\ kept.respect_crawl_delay = (~c.ignore_robots /\ ~c.ignore_crawl_delay)
  <2> HIDE DEF editable, recorded
  <2> QED BY <1>1, <1>3, <1>4, Zenon
<1>6. kept.save \in BOOLEAN
  <2>1. editable.save \in BOOLEAN
    BY NotIsBoolean, Zenon DEF EditableSpec
  <2>2. recorded.save \in BOOLEAN
    BY Zenon DEF FromJob
  <2> HIDE DEF editable, recorded
  <2> QED BY <1>1, <2>1, <2>2
<1>7. kept = [target |-> kept.target, max_pages |-> kept.max_pages, depth |-> kept.depth,
              concurrency |-> kept.concurrency, scope |-> kept.scope, delay |-> kept.delay,
              respect_crawl_delay |-> kept.respect_crawl_delay, output |-> kept.output,
              save |-> kept.save]
  <2>1. CASE kept = editable
    BY <2>1, Zenon DEF EditableSpec
  <2>2. CASE kept = recorded
    BY <2>2, Zenon DEF FromJob
  <2> QED BY <1>1, <2>1, <2>2
<1>8. /\ c.max_pages \in Nat \cup {None} /\ c.depth \in Nat \cup {None}
      /\ c.concurrency \in 1..MAX_CONCURRENCY /\ c.scope \in Scopes
      /\ c.output \in Text \cup {None} /\ c.delay \in Duration
      /\ c.seeds \in Seq(Text) /\ c.sitemap \in Seq(Text)
  BY DEF CommandLine
<1>9. FormatTime[c.delay] \in Text /\ Head(c.seeds \o c.sitemap) \in Text
  <2>1. FormatTime[c.delay] \in Text
    BY <1>8, ParserTypes
  <2>2. c.seeds \o c.sitemap \in Seq(Text)
    BY <1>8
  <2>3. Head(c.seeds \o c.sitemap) \in Text
    BY <2>2, HeadIsElement, Zenon
  <2> QED BY <2>1, <2>3
<1>10. kept.respect_crawl_delay \in BOOLEAN
  BY <1>5, NeitherIsBoolean, Zenon
<1>11. kept \in NewJobSpec
  <2> HIDE DEF editable, recorded
  <2> QED BY <1>5, <1>6, <1>7, <1>8, <1>9, <1>10 DEF NewJobSpec
<1> QED BY <1>5, <1>11

-----------------------------------------------------------------------------
(* What the program accepted, it accepts again. *)

\* The checks of a command line, in the order of from_cli.
Accepts(c) == ToConfig(c) # None /\ Parses(c.sitemap)

\* What a configuration says of the command line it was made of.
LEMMA ConfigFields ==
    ASSUME NEW c \in CommandLine, Accepts(c),
           NEW settings, settings = ToConfig(c)
    PROVE  /\ settings.max_pages = c.max_pages /\ settings.max_depth = c.depth
           /\ settings.concurrency = c.concurrency /\ settings.scope = c.scope
           /\ settings.per_host_delay = c.delay
           /\ settings.respect_crawl_delay = (~c.ignore_robots /\ ~c.ignore_crawl_delay)
           /\ settings.seeds = SeedUrls(c)
           /\ Parses(IF c.seeds # <<>> THEN c.seeds ELSE c.sitemap)
           /\ Acceptable(settings)
<1> DEFINE built ==
       [seeds |-> SeedUrls(c), max_depth |-> c.depth, max_pages |-> c.max_pages,
        concurrency |-> c.concurrency, per_host_delay |-> c.delay,
        request_timeout |-> c.timeout, user_agent |-> c.user_agent,
        respect_robots |-> ~c.ignore_robots,
        respect_crawl_delay |-> ~c.ignore_robots /\ ~c.ignore_crawl_delay,
        scope |-> c.scope, include |-> c.include, exclude |-> c.exclude,
        max_retries |-> c.retries, max_body_bytes |-> c.max_body]
<1>1. Parses(IF c.seeds # <<>> THEN c.seeds ELSE c.sitemap) /\ settings = Build(built)
  BY Zenon DEF ToConfig, Accepts
<1>2. Acceptable(built) /\ settings = built
  <2> HIDE DEF built
  <2> QED BY <1>1 DEF Build, Accepts
<1>3. /\ built.max_pages = c.max_pages /\ built.max_depth = c.depth
      /\ built.concurrency = c.concurrency /\ built.scope = c.scope
      /\ built.per_host_delay = c.delay /\ built.seeds = SeedUrls(c)
      /\ built.respect_crawl_delay = (~c.ignore_robots /\ ~c.ignore_crawl_delay)
  BY Zenon
<1> HIDE DEF built
<1> QED BY <1>1, <1>2, <1>3, Zenon

\* The target of an accepted command line can be fetched, seed or sitemap.
LEMMA TargetParses ==
    ASSUME NEW c \in CommandLine, Accepts(c), c.seeds \o c.sitemap # <<>>,
           NEW target, target = Head(c.seeds \o c.sitemap)
    PROVE  /\ target \in Text /\ Trim[target] # ""
           /\ ParseUrl[Trim[target]] \in Url /\ ParseUrl[Trim[target]] # None
           /\ ParseUrl[Trim[target]].scheme \in Http
<1>1. c.seeds \in Seq(Text) /\ c.sitemap \in Seq(Text)
  BY DEF CommandLine
<1>2. PICK settings : settings = ToConfig(c)
  OBVIOUS
<1>3. /\ settings.seeds = SeedUrls(c) /\ \A u \in Elements(settings.seeds) : u.scheme \in Http
      /\ Parses(IF c.seeds # <<>> THEN c.seeds ELSE c.sitemap)
  BY <1>2, ConfigFields DEF Acceptable
<1>4. target \in Text /\ ParseUrl[target] # None /\ ParseUrl[target].scheme \in Http
  <2>1. CASE c.seeds # <<>>
    <3>1. target = Head(c.seeds)
      BY <1>1, <2>1, HeadOfConcat, Zenon
    <3>2. target \in Text /\ target = c.seeds[1] /\ 1 \in DOMAIN c.seeds
      BY <1>1, <2>1, <3>1, HeadIsFirst, Zenon
    <3>3. SeedUrls(c) = Parse(c.seeds) /\ Parses(c.seeds)
      BY <1>3, <2>1 DEF SeedUrls
    <3>4. ParseUrl[target] \in Elements(settings.seeds)
      BY <1>3, <3>2, <3>3, ParsedElement, Zenon
    <3> QED BY <1>3, <3>2, <3>3, <3>4 DEF Parses, Elements
  <2>2. CASE c.seeds = <<>>
    <3>1. target = Head(c.sitemap) /\ c.sitemap # <<>>
      BY <1>1, <2>2
    <3>2. target \in Text /\ target = c.sitemap[1] /\ 1 \in DOMAIN c.sitemap
      BY <1>1, <3>1, HeadIsFirst, Zenon
    <3>3. SeedUrls(c) = [i \in DOMAIN c.sitemap |-> OriginRoot(SitemapUrls(c)[i])] /\ Parses(c.sitemap)
      BY <1>3, <2>2 DEF SeedUrls
    <3>4. ParseUrl[target] # None /\ ParseUrl[target] \in Url
      <4>1. ParseUrl[target] # None
        BY <3>2, <3>3 DEF Parses, Elements
      <4>2. ParseUrl \in [Text -> Url \cup {None}]
        BY ParserTypes
      <4> QED BY <3>2, <4>1, <4>2
    <3>5. OriginRoot(ParseUrl[target]) \in Elements(settings.seeds)
      BY <1>3, <3>2, <3>3 DEF Elements, SitemapUrls, Parse
    <3>6. OriginRoot(ParseUrl[target]).scheme = ParseUrl[target].scheme
      BY <3>4, UrlsAssumption DEF OriginRoot
    <3> QED BY <1>3, <3>2, <3>4, <3>5, <3>6
  <2> QED BY <2>1, <2>2
<1>5. ParseUrl[Trim[target]] # None /\ ParseUrl[Trim[target]].scheme \in Http
  BY <1>4, TargetsSurvive
<1>6. Trim[target] \in Text /\ ParseUrl \in [Text -> Url \cup {None}] /\ ParseUrl[""] = None
  BY <1>4, ParserTypes, TargetsSurvive
<1> QED BY <1>4, <1>5, <1>6

\* What the form and the dashboard make of their fields.
LEMMA SpecFields ==
    ASSUME NEW sheet, Fillable(sheet), NEW spec, spec = ToSpec(sheet)
    PROVE  /\ spec.target = Trim[sheet.target]
           /\ spec.max_pages = sheet.max_pages.number /\ spec.depth = sheet.depth.number
           /\ spec.concurrency = sheet.concurrency.number
           /\ spec.scope = Lower[Trim[sheet.scope]] /\ spec.delay = Trim[sheet.delay]
           /\ spec.respect_crawl_delay = SaysYes(sheet.robots_delay)
BY Zenon DEF ToSpec, ParseOptional

DefaultWith(c) ==
    [seeds |-> c.seeds, max_depth |-> c.max_depth, max_pages |-> c.max_pages,
     concurrency |-> c.concurrency, per_host_delay |-> c.per_host_delay,
     request_timeout |-> Defaults.request_timeout, user_agent |-> Defaults.user_agent,
     respect_robots |-> Defaults.respect_robots, respect_crawl_delay |-> c.respect_crawl_delay,
     scope |-> c.scope, include |-> Defaults.include, exclude |-> Defaults.exclude,
     max_retries |-> Defaults.max_retries, max_body_bytes |-> Defaults.max_body_bytes]

\* What from_dashboard asks of a spec.
Runnable(spec) ==
    /\ spec.scope \in Scopes /\ ParseTime[spec.delay] # None
    /\ ParseUrl[spec.target] # None /\ ParseUrl[spec.target].scheme \in Http
    /\ spec.concurrency \in 1..MAX_CONCURRENCY

LEMMA DashboardFields ==
    ASSUME NEW spec, NEW settings, settings = FromDashboard(spec),
           settings # None \/ Runnable(spec)
    PROVE  /\ settings.seeds = <<ParseUrl[spec.target]>>
           /\ settings.max_pages = spec.max_pages /\ settings.max_depth = spec.depth
           /\ settings.concurrency = spec.concurrency /\ settings.scope = spec.scope
           /\ settings.per_host_delay = ParseTime[spec.delay]
           /\ settings.respect_crawl_delay = spec.respect_crawl_delay
           /\ settings.respect_robots = TRUE
           /\ settings = DefaultWith(settings)
<1> DEFINE built ==
       [seeds |-> <<ParseUrl[spec.target]>>, max_depth |-> spec.depth,
        max_pages |-> spec.max_pages, concurrency |-> spec.concurrency,
        per_host_delay |-> ParseTime[spec.delay],
        request_timeout |-> Defaults.request_timeout,
        user_agent |-> Defaults.user_agent, respect_robots |-> Defaults.respect_robots,
        respect_crawl_delay |-> spec.respect_crawl_delay, scope |-> spec.scope,
        include |-> Defaults.include, exclude |-> Defaults.exclude,
        max_retries |-> Defaults.max_retries, max_body_bytes |-> Defaults.max_body_bytes]
<1>1. /\ built.seeds = <<ParseUrl[spec.target]>>
      /\ built.max_pages = spec.max_pages /\ built.max_depth = spec.depth
      /\ built.concurrency = spec.concurrency /\ built.scope = spec.scope
      /\ built.per_host_delay = ParseTime[spec.delay]
      /\ built.respect_crawl_delay = spec.respect_crawl_delay
      /\ built.include = Defaults.include /\ built.exclude = Defaults.exclude
      /\ built.respect_robots = Defaults.respect_robots
  BY Zenon
<1>2. Defaults.respect_robots = TRUE
  BY DefaultFields
<1>3. built = DefaultWith(built)
  BY Zenon DEF DefaultWith
<1>4. settings = built
  <2>1. CASE settings # None
    BY <2>1, Zenon DEF FromDashboard, Build
  <2>2. CASE Runnable(spec)
    <3>1. settings = Build(built)
      BY <2>2, Zenon DEF FromDashboard, Runnable
    <3> HIDE DEF built
    <3>2. Elements(built.seeds) = {ParseUrl[spec.target]} /\ built.seeds # <<>>
      BY <1>1, FewElements
    <3>3. Elements(built.include) = {} /\ Elements(built.exclude) = {}
      BY <1>1, FewElements, DefaultFields
    <3>4. Acceptable(built)
      BY <1>1, <2>2, <3>2, <3>3 DEF Acceptable, Runnable
    <3> QED BY <3>1, <3>4 DEF Build
  <2> QED BY <2>1, <2>2
<1> HIDE DEF built
<1> QED BY <1>1, <1>2, <1>3, <1>4, Zenon

LEMMA DashboardIsTyped ==
    ASSUME NEW settings, NEW u \in Url, settings.seeds = <<u>>,
           settings.max_pages \in Nat \cup {None}, settings.max_depth \in Nat \cup {None},
           settings.concurrency \in Nat, settings.scope \in Scopes, settings.per_host_delay \in Nat,
           settings.respect_crawl_delay \in BOOLEAN,
           settings = DefaultWith(settings)
    PROVE  settings \in CrawlConfig
<1>1. settings.seeds \in Seq(Url)
  OBVIOUS
<1>2. Defaults.include \in Seq(Pattern \cup Broken) /\ Defaults.exclude \in Seq(Pattern \cup Broken)
  BY DefaultFields
<1>3. Defaults.user_agent \in Text \cup {None} /\ Defaults.respect_robots \in BOOLEAN
  BY DefaultFields, Zenon
<1>4. DefaultWith(settings) \in CrawlConfig
  BY <1>1, <1>2, <1>3, DefaultFields, Zenon DEF CrawlConfig, DefaultWith
<1> QED BY <1>4

\* A crawl of the target of a command line within its limits, in its scope and
\* at its pace, that obeys robots.txt.
CrawlsAsAsked(settings, c) ==
    /\ settings.seeds = <<ParseUrl[Trim[Head(c.seeds \o c.sitemap)]]>>
    /\ settings.max_pages = c.max_pages
    /\ settings.max_depth = c.depth
    /\ settings.concurrency = c.concurrency
    /\ settings.scope = c.scope
    /\ settings.per_host_delay = c.delay
    /\ settings.respect_robots = TRUE
    /\ settings.respect_crawl_delay = (~c.ignore_robots /\ ~c.ignore_crawl_delay)

(* What clap and the builder took, the form and the dashboard take too: a   *)
(* job that was recorded, or settings that were kept, and that are edited   *)
(* without a change make a run for the same target and with the same        *)
(* limits, scope and pace (main.rs, progress.rs, config.rs).                *)
THEOREM EditsAreAccepted ==
    ASSUME NEW c \in CommandLine, Accepts(c), c.seeds \o c.sitemap # <<>>,
           NEW kept, kept \in KeptSpecs(c),
           NEW spec, spec = ToSpec(FromSpec(kept)),
           NEW settings, settings = FromDashboard(spec)
    PROVE  /\ Fillable(FromSpec(kept)) /\ spec # None
           /\ settings # None /\ CrawlsAsAsked(settings, c)
<1>0. /\ kept \in NewJobSpec
      /\ kept.target = Head(c.seeds \o c.sitemap)
      /\ kept.max_pages = c.max_pages /\ kept.depth = c.depth
      /\ kept.concurrency = c.concurrency /\ kept.scope = c.scope
      /\ kept.delay = FormatTime[c.delay] /\ kept.output = c.output
      /\ kept.respect_crawl_delay = (~c.ignore_robots /\ ~c.ignore_crawl_delay)
  BY KeptFields, Zenon
<1> DEFINE target == Head(c.seeds \o c.sitemap)
           respects == ~c.ignore_robots /\ ~c.ignore_crawl_delay
<1>1. /\ c.scope \in Scopes /\ c.delay \in Duration
      /\ c.concurrency \in 1..MAX_CONCURRENCY
      /\ c.max_pages \in Nat \cup {None} /\ c.depth \in Nat \cup {None}
  BY DEF CommandLine
<1>2. /\ target \in Text /\ Trim[target] # ""
      /\ ParseUrl[Trim[target]] \in Url /\ ParseUrl[Trim[target]] # None
      /\ ParseUrl[Trim[target]].scheme \in Http
  BY TargetParses
<1>3. /\ kept \in NewJobSpec /\ kept.target = target
      /\ kept.max_pages = c.max_pages /\ kept.depth = c.depth
      /\ kept.concurrency = c.concurrency /\ kept.scope = c.scope
      /\ kept.delay = FormatTime[c.delay] /\ kept.respect_crawl_delay = respects
  BY <1>0, Zenon
<1>4. /\ FormatTime[c.delay] \in Text \ {""}
      /\ Trim[FormatTime[c.delay]] = FormatTime[c.delay]
      /\ ParseTime[FormatTime[c.delay]] = c.delay
  BY <1>1, ParserTypes, TimesSurvive
<1>5. c.delay \in Nat /\ c.delay # None
  BY <1>1, ParserTypes, NoneIsNothing
<1> HIDE DEF target, respects
<1>6. /\ Fillable(FromSpec(kept))
      /\ spec = [target |-> Trim[kept.target], max_pages |-> kept.max_pages,
                 depth |-> kept.depth, concurrency |-> kept.concurrency, scope |-> kept.scope,
                 delay |-> Trim[kept.delay], respect_crawl_delay |-> kept.respect_crawl_delay,
                 output |-> Trimmed(kept.output), save |-> kept.save]
  <2>1. Trim[kept.target] # "" /\ Trim[kept.delay] # ""
    BY <1>2, <1>3, <1>4
  <2> QED BY <1>3, <2>1, FormRoundTrip, Zenon
<1>7. /\ spec.target = Trim[target] /\ spec.max_pages = c.max_pages
      /\ spec.depth = c.depth /\ spec.concurrency = c.concurrency
      /\ spec.scope = c.scope /\ spec.delay = FormatTime[c.delay]
  <2>1. /\ spec.target = Trim[kept.target] /\ spec.max_pages = kept.max_pages
        /\ spec.depth = kept.depth /\ spec.concurrency = kept.concurrency
        /\ spec.scope = kept.scope /\ spec.delay = Trim[kept.delay]
    BY <1>6, EnteredFields
  <2> QED BY <1>3, <1>4, <2>1
<1>8. spec.respect_crawl_delay = respects
  <2>1. spec.respect_crawl_delay = kept.respect_crawl_delay
    BY <1>6, EnteredSwitch, Zenon
  <2> QED BY <1>3, <2>1, Zenon
<1>9. spec # None
  <2>1. Trimmed(kept.output) \in Text \cup {None}
    BY <1>3, ParserTypes DEF NewJobSpec, Trimmed
  <2>2. Trim[kept.target] \in Text /\ Trim[kept.delay] \in Text
    BY <1>3, ParserTypes DEF NewJobSpec
  <2>3. spec \in NewJobSpec
    BY <1>3, <1>6, <2>1, <2>2 DEF NewJobSpec
  <2> QED BY <2>3, NoneIsNothing
<1>10. /\ settings.seeds = <<ParseUrl[spec.target]>>
       /\ settings.max_pages = spec.max_pages /\ settings.max_depth = spec.depth
       /\ settings.concurrency = spec.concurrency /\ settings.scope = spec.scope
       /\ settings.per_host_delay = ParseTime[spec.delay]
       /\ settings.respect_crawl_delay = spec.respect_crawl_delay
       /\ settings.respect_robots = TRUE
       /\ settings = DefaultWith(settings)
  <2>1. /\ spec.scope \in Scopes /\ ParseTime[spec.delay] # None
        /\ ParseUrl[spec.target] # None /\ ParseUrl[spec.target].scheme \in Http
        /\ spec.concurrency \in 1..MAX_CONCURRENCY
    <3>1. spec.scope \in Scopes /\ spec.concurrency \in 1..MAX_CONCURRENCY
      BY <1>1, <1>7, Zenon
    <3>2. ParseTime[spec.delay] # None
      BY <1>4, <1>5, <1>7, Zenon
    <3>3. ParseUrl[spec.target] # None /\ ParseUrl[spec.target].scheme \in Http
      BY <1>2, <1>7, Zenon
    <3> QED BY <3>1, <3>2, <3>3, Zenon
  <2>2. Runnable(spec)
    BY <2>1, Zenon DEF Runnable
  <2> QED BY <2>2, DashboardFields, Zenon
<1>11. settings # None
  <2>1. settings.respect_crawl_delay \in BOOLEAN
    BY <1>8, <1>10, NeitherIsBoolean, Zenon DEF respects
  <2>2. settings.concurrency \in Nat
    <3>1. settings.concurrency \in 1..MAX_CONCURRENCY
      BY <1>1, <1>7, <1>10, Zenon
    <3> QED BY <3>1, ConcurrencyIsNat, Zenon
  <2>3. /\ settings.seeds = <<ParseUrl[Trim[target]]>> /\ settings.max_pages \in Nat \cup {None}
        /\ settings.max_depth \in Nat \cup {None} /\ settings.scope \in Scopes
        /\ settings.per_host_delay \in Nat
    <3>1. settings.seeds = <<ParseUrl[Trim[target]]>> /\ settings.scope \in Scopes
      BY <1>1, <1>7, <1>10, Zenon
    <3>2. settings.max_pages \in Nat \cup {None} /\ settings.max_depth \in Nat \cup {None}
      BY <1>1, <1>7, <1>10, Zenon
    <3>3. settings.per_host_delay \in Nat
      <4>1. settings.per_host_delay = c.delay
        BY <1>4, <1>7, <1>10, Zenon
      <4> QED BY <1>5, <4>1, Zenon
    <3> QED BY <3>1, <3>2, <3>3, Zenon
  <2>4. settings \in CrawlConfig
    <3>1. settings = DefaultWith(settings)
      BY <1>10, Zenon
    <3>2. PICK u \in Url : u = ParseUrl[Trim[target]]
      BY <1>2
    <3> QED BY <2>1, <2>2, <2>3, <3>1, <3>2, DashboardIsTyped, Zenon
  <2> QED BY <2>4, NoneIsNothing
<1>12. settings.respect_crawl_delay = (~c.ignore_robots /\ ~c.ignore_crawl_delay)
  BY <1>8, <1>10, Zenon DEF respects
<1> QED BY <1>4, <1>6, <1>7, <1>9, <1>10, <1>11, <1>12, Zenon DEF CrawlsAsAsked, target, respects

\* Whether a limit is kept when the form has kept the field that shows it.
KeepsUntouched(sheet, initial, c, settings, begun) ==
    /\ sheet.max_pages = initial.max_pages => begun.max_pages = settings.max_pages
    /\ sheet.depth = initial.depth => begun.max_depth = settings.max_depth
    /\ sheet.concurrency = initial.concurrency => begun.concurrency = settings.concurrency
    /\ sheet.scope = initial.scope => begun.scope = settings.scope
    /\ sheet.delay = initial.delay => begun.per_host_delay = settings.per_host_delay
    /\ sheet.robots_delay = initial.robots_delay
           => begun.respect_crawl_delay = settings.respect_crawl_delay
    /\ sheet.target = initial.target
           => begun.seeds = <<ParseUrl[Trim[Head(c.seeds \o c.sitemap)]]>>

(* A limit that the form shows as it was opened is the limit that the       *)
(* recorded crawl ran under, whatever became of the other fields, if the    *)
(* form starts a run at all.                                                *)
LEMMA UntouchedLimits ==
    ASSUME NEW c \in CommandLine, Accepts(c), c.seeds \o c.sitemap # <<>>,
           NEW settings, settings = ToConfig(c),
           NEW initial, initial = FromSpec(FromJob(Deserialize(TemplateFromCli(c)))),
           NEW sheet, Fillable(sheet),
           NEW begun, begun = FromDashboard(ToSpec(sheet)), begun # None
    PROVE  KeepsUntouched(sheet, initial, c, settings, begun)
<1>1. PICK kept : kept = FromJob(Deserialize(TemplateFromCli(c))) /\ kept \in KeptSpecs(c)
  BY DEF KeptSpecs
<1>2. PICK spec, rerun : spec = ToSpec(initial) /\ rerun = FromDashboard(spec)
  OBVIOUS
<1>3. spec = ToSpec(FromSpec(kept))
  BY <1>1, <1>2
<1>4. rerun = FromDashboard(spec) /\ kept \in KeptSpecs(c)
  BY <1>1, <1>2
<1>5. Fillable(FromSpec(kept)) /\ rerun # None /\ CrawlsAsAsked(rerun, c)
  BY <1>3, <1>4, EditsAreAccepted, Zenon
<1>6. /\ rerun.seeds = <<ParseUrl[Trim[Head(c.seeds \o c.sitemap)]]>>
      /\ rerun.max_pages = c.max_pages /\ rerun.max_depth = c.depth
      /\ rerun.concurrency = c.concurrency /\ rerun.scope = c.scope
      /\ rerun.per_host_delay = c.delay
  BY <1>5, Zenon DEF CrawlsAsAsked
<1>7. rerun.respect_crawl_delay = (~c.ignore_robots /\ ~c.ignore_crawl_delay)
  BY <1>5, Zenon DEF CrawlsAsAsked
<1>8. Fillable(initial)
  BY <1>1, <1>5
<1>9. /\ spec.target = Trim[initial.target]
      /\ spec.max_pages = initial.max_pages.number /\ spec.depth = initial.depth.number
      /\ spec.concurrency = initial.concurrency.number
      /\ spec.scope = Lower[Trim[initial.scope]] /\ spec.delay = Trim[initial.delay]
  BY <1>2, <1>8, SpecFields, Zenon
<1>10. PICK wanted : wanted = ToSpec(sheet)
  OBVIOUS
<1>11. begun = FromDashboard(wanted) /\ begun # None
  BY <1>10
<1>12. /\ wanted.target = Trim[sheet.target]
       /\ wanted.max_pages = sheet.max_pages.number /\ wanted.depth = sheet.depth.number
       /\ wanted.concurrency = sheet.concurrency.number
       /\ wanted.scope = Lower[Trim[sheet.scope]] /\ wanted.delay = Trim[sheet.delay]
  BY <1>10, SpecFields, Zenon
<1>13. /\ rerun.seeds = <<ParseUrl[spec.target]>>
       /\ rerun.max_pages = spec.max_pages /\ rerun.max_depth = spec.depth
       /\ rerun.concurrency = spec.concurrency /\ rerun.scope = spec.scope
       /\ rerun.per_host_delay = ParseTime[spec.delay]
  BY <1>4, <1>5, DashboardFields, Zenon
<1>14. /\ begun.seeds = <<ParseUrl[wanted.target]>>
       /\ begun.max_pages = wanted.max_pages /\ begun.max_depth = wanted.depth
       /\ begun.concurrency = wanted.concurrency /\ begun.scope = wanted.scope
       /\ begun.per_host_delay = ParseTime[wanted.delay]
  BY <1>11, DashboardFields, Zenon
<1>15. /\ settings.max_pages = c.max_pages /\ settings.max_depth = c.depth
       /\ settings.concurrency = c.concurrency /\ settings.scope = c.scope
       /\ settings.per_host_delay = c.delay
  BY ConfigFields, Zenon
<1>16. ASSUME sheet.robots_delay = initial.robots_delay
       PROVE  begun.respect_crawl_delay = settings.respect_crawl_delay
  <2>1. spec.respect_crawl_delay = SaysYes(initial.robots_delay)
    BY <1>2, <1>8, SpecFields, Zenon
  <2>2. wanted.respect_crawl_delay = SaysYes(sheet.robots_delay)
    BY <1>10, SpecFields, Zenon
  <2>3. rerun.respect_crawl_delay = spec.respect_crawl_delay
    BY <1>4, <1>5, DashboardFields, Zenon
  <2>4. begun.respect_crawl_delay = wanted.respect_crawl_delay
    BY <1>11, DashboardFields, Zenon
  <2>5. settings.respect_crawl_delay = (~c.ignore_robots /\ ~c.ignore_crawl_delay)
    BY ConfigFields, Zenon
  <2>6. begun.respect_crawl_delay = SaysYes(initial.robots_delay)
    BY <1>16, <2>2, <2>4, Zenon
  <2>7. settings.respect_crawl_delay = SaysYes(initial.robots_delay)
    BY <1>7, <2>1, <2>3, <2>5, Zenon
  <2> QED BY <2>6, <2>7, Zenon
<1>17. /\ sheet.max_pages = initial.max_pages => begun.max_pages = settings.max_pages
       /\ sheet.depth = initial.depth => begun.max_depth = settings.max_depth
       /\ sheet.concurrency = initial.concurrency => begun.concurrency = settings.concurrency
       /\ sheet.scope = initial.scope => begun.scope = settings.scope
  <2>1. /\ sheet.max_pages = initial.max_pages => wanted.max_pages = spec.max_pages
        /\ sheet.depth = initial.depth => wanted.depth = spec.depth
        /\ sheet.concurrency = initial.concurrency => wanted.concurrency = spec.concurrency
        /\ sheet.scope = initial.scope => wanted.scope = spec.scope
    BY <1>9, <1>12
  <2>2. /\ spec.max_pages = settings.max_pages /\ spec.depth = settings.max_depth
        /\ spec.concurrency = settings.concurrency /\ spec.scope = settings.scope
    BY <1>6, <1>13, <1>15
  <2> QED BY <1>14, <2>1, <2>2
<1>19. sheet.delay = initial.delay => begun.per_host_delay = settings.per_host_delay
  <2>1. sheet.delay = initial.delay => wanted.delay = spec.delay
    BY <1>9, <1>12
  <2>2. begun.per_host_delay = ParseTime[wanted.delay] /\ rerun.per_host_delay = ParseTime[spec.delay]
    BY <1>13, <1>14
  <2>3. rerun.per_host_delay = settings.per_host_delay
    BY <1>6, <1>15
  <2> QED BY <2>1, <2>2, <2>3
<1>20. sheet.target = initial.target
         => begun.seeds = <<ParseUrl[Trim[Head(c.seeds \o c.sitemap)]]>>
  <2>1. sheet.target = initial.target => wanted.target = spec.target
    BY <1>9, <1>12
  <2>2. begun.seeds = <<ParseUrl[wanted.target]>> /\ rerun.seeds = <<ParseUrl[spec.target]>>
    BY <1>13, <1>14
  <2>3. rerun.seeds = <<ParseUrl[Trim[Head(c.seeds \o c.sitemap)]]>>
    BY <1>6
  <2> QED BY <2>1, <2>2, <2>3
<1> QED BY <1>16, <1>17, <1>19, <1>20, Zenon DEF KeepsUntouched

-----------------------------------------------------------------------------
(* The buffered output. *)

OutputOf(T) == [buffer : Seq(T), file : Seq(T), rest : Seq(T), sound : BOOLEAN]

Cat(x, y) == x \o y

\* What is in the file, and will be after the buffer and the call in progress.
Written(o) == Cat(Cat(o.file, o.buffer), o.rest)

IsSequence(w) == \E T : w \in Seq(T)
IsOutput(o) == \E T : o \in OutputOf(T)

LEMMA WiderSeq ==
    ASSUME NEW S1, NEW T, NEW s \in Seq(S1)
    PROVE  s \in Seq(S1 \cup T)
<1>1. Len(s) \in Nat /\ \A i \in 1..Len(s) : s[i] \in S1 \cup T
  BY ElementOfSeq
<1>2. SubSeq(s, 1, Len(s)) \in Seq(S1 \cup T)
  BY <1>1, SubSeqProperties
<1> QED BY <1>2, SubSeqFull

LEMMA OutputFields ==
    ASSUME NEW T, NEW o \in OutputOf(T)
    PROVE  /\ o.buffer \in Seq(T) /\ o.file \in Seq(T) /\ o.rest \in Seq(T) /\ o.sound \in BOOLEAN
           /\ Written(o) \in Seq(T)
<1>1. o.buffer \in Seq(T) /\ o.file \in Seq(T) /\ o.rest \in Seq(T)
  BY Zenon DEF OutputOf
<1>2. o.sound \in BOOLEAN
  BY Zenon DEF OutputOf
<1>3. \A x, y \in Seq(T) : Cat(x, y) \in Seq(T)
  BY ConcatProperties DEF Cat
<1> QED BY <1>1, <1>2, <1>3 DEF Written

LEMMA InOutput ==
    ASSUME NEW T, NEW b \in Seq(T), NEW f \in Seq(T), NEW r \in Seq(T), NEW k \in BOOLEAN
    PROVE  [buffer |-> b, file |-> f, rest |-> r, sound |-> k] \in OutputOf(T)
BY Zenon DEF OutputOf

LEMMA OutputParts ==
    ASSUME NEW b, NEW f, NEW r, NEW k, NEW o,
           o = [buffer |-> b, file |-> f, rest |-> r, sound |-> k]
    PROVE  o.buffer = b /\ o.file = f /\ o.rest = r /\ o.sound = k
OBVIOUS

LEMMA OutputIs ==
    ASSUME NEW T, NEW o \in OutputOf(T)
    PROVE  o = [buffer |-> o.buffer, file |-> o.file, rest |-> o.rest, sound |-> o.sound]
BY Zenon DEF OutputOf

LEMMA WiderOutput ==
    ASSUME NEW T, NEW o \in OutputOf(T), NEW S1
    PROVE  o \in OutputOf(T \cup S1)
<1>1. PICK b, f, r, k : b = o.buffer /\ f = o.file /\ r = o.rest /\ k = o.sound
  OBVIOUS
<1>2. b \in Seq(T) /\ f \in Seq(T) /\ r \in Seq(T) /\ k \in BOOLEAN
  BY <1>1, OutputFields
<1>3. b \in Seq(T \cup S1) /\ f \in Seq(T \cup S1) /\ r \in Seq(T \cup S1)
  BY <1>2, WiderSeq
<1>4. o = [buffer |-> b, file |-> f, rest |-> r, sound |-> k]
  BY <1>1, OutputIs
<1> QED BY <1>2, <1>3, <1>4, InOutput

LEMMA CatTwo ==
    ASSUME NEW T, NEW x \in Seq(T), NEW y \in Seq(T)
    PROVE  Cat(x, y) \in Seq(T) /\ Cat(x, <<>>) = x
BY DEF Cat

LEMMA CatThree ==
    ASSUME NEW T, NEW x \in Seq(T), NEW y \in Seq(T), NEW z \in Seq(T)
    PROVE  Cat(Cat(x, y), z) = Cat(x, Cat(y, z))
BY DEF Cat

\* A beginning of a sequence, and what is left of it.
Begun(s, k) == SubSeq(s, 1, k)
Left(s, k) == SubSeq(s, k + 1, Len(s))

LEMMA Split ==
    ASSUME NEW T, NEW s \in Seq(T), NEW k \in 0..Len(s)
    PROVE  /\ Begun(s, k) \in Seq(T) /\ Left(s, k) \in Seq(T)
           /\ Cat(Begun(s, k), Left(s, k)) = s
<1>1. Len(s) \in Nat /\ k \in Int /\ k + 1 \in Int /\ \A i \in 1..Len(s) : s[i] \in T
  BY ElementOfSeq
<1>2. Begun(s, k) \in Seq(T)
  BY <1>1, SubSeqProperties DEF Begun
<1>3. Left(s, k) \in Seq(T)
  <2>1. \A i \in (k + 1)..Len(s) : s[i] \in T
    BY <1>1
  <2> QED BY <1>1, <2>1, SubSeqProperties DEF Left
<1>4. Cat(Begun(s, k), Left(s, k)) = s
  <2>1. 1 \in 1..(Len(s) + 1) /\ k \in (1 - 1)..Len(s) /\ Len(s) \in k..Len(s)
    BY <1>1
  <2> QED BY <2>1, ConcatAdjacentSubSeq, SubSeqFull DEF Begun, Left, Cat
<1> QED BY <1>2, <1>3, <1>4

\* A step of a sink that fails nothing.
Kept(p, o) == IsOutput(p) /\ Written(p) = Written(o) /\ p.sound = o.sound

\* Pieces move from the buffer to the file ...
LEMMA DrainKeeps ==
    ASSUME NEW o, IsOutput(o), NEW p \in Drain(o)
    PROVE  Kept(p, o) /\ p.rest = o.rest
<1>1. PICK T : o \in OutputOf(T)
  BY DEF IsOutput
<1>2. PICK b, f, r, s : b = o.buffer /\ f = o.file /\ r = o.rest /\ s = o.sound
  OBVIOUS
<1>3. b \in Seq(T) /\ f \in Seq(T) /\ r \in Seq(T) /\ s \in BOOLEAN
  BY <1>1, <1>2, OutputFields
<1>4. PICK k \in 1..Len(b) :
        p = [o EXCEPT !.file = Cat(@, Begun(b, k)), !.buffer = Left(b, k)]
  BY <1>2, Zenon DEF Drain, Begun, Left, Cat
<1>5. PICK x, y : x = Begun(b, k) /\ y = Left(b, k)
  OBVIOUS
<1>6. x \in Seq(T) /\ y \in Seq(T) /\ Cat(x, y) = b
  <2>1. k \in 0..Len(b)
    OBVIOUS
  <2> QED BY <1>3, <1>5, <2>1, Split
<1>7. p = [buffer |-> y, file |-> Cat(f, x), rest |-> r, sound |-> s]
  BY <1>1, <1>2, <1>4, <1>5, Zenon DEF OutputOf
<1>8. Cat(f, x) \in Seq(T) /\ Cat(Cat(f, x), y) = Cat(f, b)
  BY <1>3, <1>6, CatTwo, CatThree
<1>9. p \in OutputOf(T)
  BY <1>3, <1>6, <1>7, <1>8, InOutput
<1>10. p.buffer = y /\ p.file = Cat(f, x) /\ p.rest = r /\ p.sound = s
  BY <1>7
<1>11. Written(p) = Written(o)
  BY <1>2, <1>8, <1>10 DEF Written
<1> QED BY <1>2, <1>9, <1>10, <1>11 DEF Kept, IsOutput

\* ... or from the call to the buffer, or past the empty buffer to the file.
LEMMA PageKeeps ==
    ASSUME NEW o, IsOutput(o), NEW p \in Page(o)
    PROVE  Kept(p, o)
<1>1. PICK T : o \in OutputOf(T)
  BY DEF IsOutput
<1>2. PICK b, f, r, s : b = o.buffer /\ f = o.file /\ r = o.rest /\ s = o.sound
  OBVIOUS
<1>3. b \in Seq(T) /\ f \in Seq(T) /\ r \in Seq(T) /\ s \in BOOLEAN
  BY <1>1, <1>2, OutputFields
<1>4. Now(o) \in 0..Len(r)
  <2>1. Len(r) \in Nat
    BY <1>3
  <2> QED BY <1>2, <2>1 DEF Now
<1>5. CASE p = Buffered(o)
  <2>1. PICK k, x, y : k = Now(o) /\ x = Begun(r, k) /\ y = Left(r, k)
    OBVIOUS
  <2>2. x \in Seq(T) /\ y \in Seq(T) /\ Cat(x, y) = r
    BY <1>3, <1>4, <2>1, Split
  <2>3. p = [buffer |-> Cat(b, x), file |-> f, rest |-> y, sound |-> s]
    BY <1>1, <1>2, <1>5, <2>1, Zenon DEF OutputOf, Buffered, Begun, Left, Cat
  <2>4. Cat(b, x) \in Seq(T) /\ Cat(f, b) \in Seq(T) /\ Cat(Cat(f, Cat(b, x)), y) = Cat(Cat(f, b), r)
    <3>1. Cat(b, x) \in Seq(T) /\ Cat(f, b) \in Seq(T)
      BY <1>3, <2>2, CatTwo
    <3>2. Cat(f, Cat(b, x)) = Cat(Cat(f, b), x)
      BY <1>3, <2>2, CatThree
    <3>3. Cat(Cat(Cat(f, b), x), y) = Cat(Cat(f, b), Cat(x, y))
      BY <2>2, <3>1, CatThree
    <3> QED BY <2>2, <3>1, <3>2, <3>3
  <2>5. p \in OutputOf(T)
    BY <1>3, <2>2, <2>3, <2>4, InOutput
  <2>6. p.buffer = Cat(b, x) /\ p.file = f /\ p.rest = y /\ p.sound = s
    BY <2>3
  <2>7. Written(p) = Written(o)
    BY <1>2, <2>4, <2>6 DEF Written
  <2> QED BY <1>2, <2>5, <2>6, <2>7 DEF Kept, IsOutput
<1>6. CASE b = <<>> /\ p \in Bypass(o)
  <2>1. PICK k \in 1..Now(o) :
          p = [o EXCEPT !.file = Cat(@, Begun(r, k)), !.rest = Left(r, k)]
    BY <1>2, <1>6, Zenon DEF Bypass, Begun, Left, Cat
  <2>2. PICK x, y : x = Begun(r, k) /\ y = Left(r, k)
    OBVIOUS
  <2>3. x \in Seq(T) /\ y \in Seq(T) /\ Cat(x, y) = r
    <3>1. k \in 0..Len(r)
      <4>1. Len(r) \in Nat
        BY <1>3
      <4> QED BY <1>4, <4>1
    <3> QED BY <1>3, <2>2, <3>1, Split
  <2>4. p = [buffer |-> b, file |-> Cat(f, x), rest |-> y, sound |-> s]
    BY <1>1, <1>2, <2>1, <2>2, Zenon DEF OutputOf
  <2>5. Cat(f, x) \in Seq(T) /\ Cat(Cat(Cat(f, x), b), y) = Cat(Cat(f, b), r)
    <3>1. Cat(f, x) \in Seq(T) /\ Cat(f, b) = f
      BY <1>3, <1>6, <2>3, CatTwo
    <3>2. Cat(Cat(f, x), b) = Cat(f, x)
      BY <1>3, <1>6, <3>1, CatTwo
    <3>3. Cat(Cat(f, x), y) = Cat(f, Cat(x, y))
      BY <1>3, <2>3, CatThree
    <3> QED BY <2>3, <3>1, <3>2, <3>3
  <2>6. p \in OutputOf(T)
    BY <1>3, <2>3, <2>4, <2>5, InOutput
  <2>7. p.buffer = b /\ p.file = Cat(f, x) /\ p.rest = y /\ p.sound = s
    BY <2>4
  <2>8. Written(p) = Written(o)
    BY <1>2, <2>5, <2>7 DEF Written
  <2> QED BY <1>2, <2>6, <2>7, <2>8 DEF Kept, IsOutput
<1>7. p = Buffered(o) \/ p \in Drain(o) \/ (b = <<>> /\ p \in Bypass(o))
  BY <1>2, Zenon DEF Page
<1> QED BY <1>5, <1>6, <1>7, DrainKeeps

LEMMA FailedIsOutput ==
    ASSUME NEW o, IsOutput(o)
    PROVE  IsOutput(Failed(o)) /\ ~Failed(o).sound /\ Failed(o).rest = <<>>
<1>1. PICK T : o \in OutputOf(T)
  BY DEF IsOutput
<1>2. PICK e : e = <<>> /\ e \in Seq(T)
  BY EmptySeq
<1>3. PICK b, f : b = o.buffer /\ f = o.file
  OBVIOUS
<1>4. b \in Seq(T) /\ f \in Seq(T)
  BY <1>1, <1>3, OutputFields
<1>5. PICK p : p = Failed(o)
  OBVIOUS
<1>6. p = [buffer |-> b, file |-> f, rest |-> e, sound |-> FALSE]
  <2>1. p = [o EXCEPT !.rest = e, !.sound = FALSE]
    BY <1>2, <1>5 DEF Failed
  <2> QED BY <1>1, <1>3, <2>1, Zenon DEF OutputOf
<1>7. p \in OutputOf(T)
  BY <1>2, <1>4, <1>6, Zenon DEF OutputOf
<1>8. p.sound = FALSE /\ p.rest = e
  BY <1>6
<1> QED BY <1>2, <1>5, <1>7, <1>8 DEF IsOutput

\* A call begins: one more line is to be written.
LineAdded(w, page) == Cat(w, Line(page))

LEMMA LineIsSequence ==
    ASSUME NEW page
    PROVE  \E T : Line(page) \in Seq(T)
<1>1. PICK T : T = {[page |-> page, part |-> n] : n \in 1..3}
  OBVIOUS
<1>2. \A n \in 1..3 : [page |-> page, part |-> n] \in T
  BY <1>1
<1>3. [n \in 1..3 |-> [page |-> page, part |-> n]] \in Seq(T)
  BY <1>2, IsASeq
<1> QED BY <1>3 DEF Line

LEMMA CallAdds ==
    ASSUME NEW o, IsOutput(o), o.rest = <<>>, NEW page, NEW p, p = [o EXCEPT !.rest = Line(page)]
    PROVE  /\ IsOutput(p) /\ Written(p) = LineAdded(Written(o), page)
           /\ p.sound = o.sound /\ p.file = o.file
<1>1. PICK T : o \in OutputOf(T) /\ Line(page) \in Seq(T)
  <2>1. PICK T0 : o \in OutputOf(T0)
    BY DEF IsOutput
  <2>2. PICK T1 : Line(page) \in Seq(T1)
    BY LineIsSequence
  <2>3. o \in OutputOf(T0 \cup T1) /\ Line(page) \in Seq(T1 \cup T0)
    BY <2>1, <2>2, WiderOutput, WiderSeq
  <2>4. T1 \cup T0 = T0 \cup T1
    OBVIOUS
  <2> QED BY <2>3, <2>4
<1>2. PICK b, f, s, x : b = o.buffer /\ f = o.file /\ s = o.sound /\ x = Line(page)
  OBVIOUS
<1>3. b \in Seq(T) /\ f \in Seq(T) /\ s \in BOOLEAN /\ x \in Seq(T)
  BY <1>1, <1>2, OutputFields
<1>4. p = [buffer |-> b, file |-> f, rest |-> x, sound |-> s]
  BY <1>1, <1>2, Zenon DEF OutputOf
<1>5. p \in OutputOf(T)
  <2>1. [buffer |-> b, file |-> f, rest |-> x, sound |-> s] \in OutputOf(T)
    BY <1>3, InOutput
  <2> QED BY <1>4, <2>1, Zenon
<1>6. p.buffer = b /\ p.file = f /\ p.rest = x /\ p.sound = s
  BY <1>4
<1>7. Cat(f, b) \in Seq(T) /\ Cat(Cat(f, b), <<>>) = Cat(f, b)
  <2>1. Cat(f, b) \in Seq(T)
    BY <1>3, CatTwo
  <2> QED BY <2>1, CatTwo
<1>8. Written(p) = LineAdded(Written(o), page)
  BY <1>2, <1>6, <1>7 DEF Written, LineAdded
<1> QED BY <1>2, <1>5, <1>6, <1>8 DEF IsOutput

\* The memory of the process is gone, and the file is left.
FileOnly(o) == [o EXCEPT !.buffer = <<>>, !.rest = <<>>]

LEMMA FileIsLeft ==
    ASSUME NEW o, IsOutput(o), NEW p, p = FileOnly(o)
    PROVE  IsOutput(p) /\ p.file = o.file /\ p.sound = o.sound
<1>1. PICK T : o \in OutputOf(T)
  BY DEF IsOutput
<1>2. PICK e : e = <<>> /\ e \in Seq(T)
  BY EmptySeq
<1>3. PICK f, s : f = o.file /\ s = o.sound
  OBVIOUS
<1>4. f \in Seq(T) /\ s \in BOOLEAN
  BY <1>1, <1>3, OutputFields
<1>5. p = [buffer |-> e, file |-> f, rest |-> e, sound |-> s]
  BY <1>1, <1>2, <1>3, Zenon DEF OutputOf, FileOnly
<1>6. p \in OutputOf(T)
  <2>1. [buffer |-> e, file |-> f, rest |-> e, sound |-> s] \in OutputOf(T)
    BY <1>2, <1>4, InOutput
  <2> QED BY <1>5, <2>1, Zenon
<1>7. p.file = f /\ p.sound = s
  BY <1>5, OutputParts
<1> QED BY <1>3, <1>6, <1>7 DEF IsOutput

-----------------------------------------------------------------------------
(* What a file contains. *)

\* The n lines of pages of U, each once.
Contains(w, U, n) ==
    /\ InLines(w)
    /\ \A i \in DOMAIN w : w[i].page \in U
    /\ Len(w) = 3 * n

\* x is w and a line of the page behind it.
LongerByALine(x, w, page) ==
    /\ IsSequence(x) /\ Len(w) \in Nat /\ Len(x) = Len(w) + 3
    /\ \A i \in 1..Len(w) : x[i] = w[i]
    /\ \A n \in 1..3 : x[Len(w) + n] = [page |-> page, part |-> n]

LEMMA LineAddedEntries ==
    ASSUME NEW w, IsSequence(w), NEW page
    PROVE  LongerByALine(LineAdded(w, page), w, page)
<1>1. PICK T : w \in Seq(T) /\ Line(page) \in Seq(T)
  <2>1. PICK T0 : w \in Seq(T0)
    BY DEF IsSequence
  <2>2. PICK T1 : Line(page) \in Seq(T1)
    BY LineIsSequence
  <2>3. w \in Seq(T0 \cup T1) /\ Line(page) \in Seq(T1 \cup T0)
    BY <2>1, <2>2, WiderSeq
  <2>4. T1 \cup T0 = T0 \cup T1
    OBVIOUS
  <2> QED BY <2>3, <2>4
<1>2. PICK x : x = Line(page)
  OBVIOUS
<1>3. x \in Seq(T) /\ DOMAIN x = 1..3 /\ \A n \in 1..3 : x[n] = [page |-> page, part |-> n]
  BY <1>1, <1>2 DEF Line
<1>4. Len(x) = 3 /\ Len(w) \in Nat
  <2>1. 3 \in Nat
    OBVIOUS
  <2> QED BY <1>1, <1>3, <2>1, LenProperties
<1>5. PICK y : y = w \o x
  OBVIOUS
<1>6. /\ y \in Seq(T) /\ Len(y) = Len(w) + Len(x)
      /\ \A i \in 1..Len(w) : y[i] = w[i]
      /\ \A n \in 1..Len(x) : y[Len(w) + n] = x[n]
  BY <1>1, <1>3, <1>5
<1>7. /\ Len(y) = Len(w) + 3
      /\ \A n \in 1..3 : y[Len(w) + n] = [page |-> page, part |-> n]
  BY <1>3, <1>4, <1>6
<1>8. y = LineAdded(w, page)
  BY <1>2, <1>5 DEF LineAdded, Cat
<1>9. LongerByALine(y, w, page)
  BY <1>4, <1>6, <1>7 DEF LongerByALine, IsSequence
<1> QED BY <1>8, <1>9

\* A line more, of a page that has none yet.
LEMMA LineAddedContains ==
    ASSUME NEW w, IsSequence(w), NEW U, NEW n \in Nat, Contains(w, U, n), NEW page, page \notin U
    PROVE  Contains(LineAdded(w, page), U \cup {page}, n + 1)
<1>1. PICK x, m : x = LineAdded(w, page) /\ m = Len(w)
  OBVIOUS
<1>2. /\ IsSequence(x) /\ m \in Nat /\ Len(x) = m + 3
      /\ \A i \in 1..m : x[i] = w[i]
      /\ \A k \in 1..3 : x[m + k] = [page |-> page, part |-> k]
  <2>1. LongerByALine(x, w, page)
    BY <1>1, LineAddedEntries
  <2> QED BY <1>1, <2>1 DEF LongerByALine
<1>3. m = 3 * n
  BY <1>1, Zenon DEF Contains
<1>4. DOMAIN x = 1..Len(x) /\ DOMAIN w = 1..m
  BY <1>1, <1>2, LenProperties DEF IsSequence
<1>5. \A i \in 1..Len(x) : i \in 1..m \/ \E k \in 1..3 : i = m + k
  <2> TAKE i \in 1..Len(x)
  <2>1. i \in 1..m \/ i = m + 1 \/ i = m + 2 \/ i = m + 3
    BY <1>2
  <2> QED BY <2>1
<1>6. \A k \in 1..3 : 1 + (((m + k) - 1) % 3) = k
  <2>1. \A k \in 1..3 : 1 + (((3 * n + k) - 1) % 3) = k
    OBVIOUS
  <2> QED BY <1>3, <2>1
<1>7. InLines(w) /\ \A i \in 1..m : w[i].page \in U
  BY <1>4 DEF Contains
<1>8. \A k \in 1..3 : x[m + k].page = page /\ x[m + k].part = k
  BY <1>2
<1>9. \A i \in 1..m : /\ x[i].part = 1 + ((i - 1) % 3)
                      /\ x[i].part > 1 => x[i].page = x[i - 1].page
                      /\ x[i].page # page
                      /\ \A j \in 1..m : x[j] = x[i] => j = i
  <2> TAKE i \in 1..m
  <2>1. w[i].part = 1 + ((i - 1) % 3) /\ (w[i].part > 1 => w[i].page = w[i - 1].page)
    BY <1>4, <1>7 DEF InLines
  <2>2. w[i].part > 1 => i - 1 \in 1..m
    <3>1. CASE i = 1
      BY <2>1, <3>1
    <3>2. CASE i # 1
      BY <1>2, <3>2
    <3> QED BY <3>1, <3>2
  <2>3. \A j \in 1..m : w[j] = w[i] => j = i
    BY <1>4, <1>7 DEF InLines
  <2>4. w[i].page # page
    BY <1>7
  <2> QED BY <1>2, <2>1, <2>2, <2>3, <2>4
<1>10. \A k \in 1..3 : k > 1 => x[m + k].page = x[(m + k) - 1].page
  <2> SUFFICES ASSUME NEW k \in 1..3, k > 1 PROVE x[m + k].page = x[(m + k) - 1].page
    OBVIOUS
  <2>1. k - 1 \in 1..3 /\ (m + k) - 1 = m + (k - 1)
    BY <1>2
  <2> QED BY <1>8, <2>1
<1>11. \A i \in DOMAIN x : x[i].part = 1 + ((i - 1) % 3) /\ (x[i].part > 1 => x[i].page = x[i - 1].page)
  <2> SUFFICES ASSUME NEW i \in 1..Len(x)
               PROVE  x[i].part = 1 + ((i - 1) % 3) /\ (x[i].part > 1 => x[i].page = x[i - 1].page)
    BY <1>4
  <2>1. CASE i \in 1..m
    BY <1>9, <2>1
  <2>2. ASSUME NEW k \in 1..3, i = m + k
        PROVE  x[i].part = 1 + ((i - 1) % 3) /\ (x[i].part > 1 => x[i].page = x[i - 1].page)
    <3>1. x[i].part = k /\ 1 + ((i - 1) % 3) = k
      BY <1>6, <1>8, <2>2
    <3>2. k > 1 => x[i].page = x[i - 1].page
      BY <1>10, <2>2
    <3> QED BY <3>1, <3>2
  <2> QED BY <1>5, <2>1, <2>2
<1>12. \A i, j \in DOMAIN x : x[j] = x[i] => j = i
  <2> SUFFICES ASSUME NEW i \in 1..Len(x), NEW j \in 1..Len(x), x[j] = x[i] PROVE j = i
    BY <1>4
  <2>1. CASE i \in 1..m /\ j \in 1..m
    BY <1>9, <2>1
  <2>2. CASE i \in 1..m /\ j \notin 1..m
    BY <1>5, <1>8, <1>9, <2>2
  <2>3. CASE i \notin 1..m /\ j \in 1..m
    BY <1>5, <1>8, <1>9, <2>3
  <2>4. CASE i \notin 1..m /\ j \notin 1..m
    <3>1. PICK k \in 1..3 : i = m + k
      BY <1>5, <2>4
    <3>2. PICK l \in 1..3 : j = m + l
      BY <1>5, <2>4
    <3>3. k = l
      BY <1>8, <3>1, <3>2
    <3> QED BY <3>1, <3>2, <3>3
  <2> QED BY <2>1, <2>2, <2>3, <2>4
<1>13. InLines(x)
  BY <1>11, <1>12 DEF InLines
<1>14. \A i \in DOMAIN x : x[i].page \in U \cup {page}
  BY <1>2, <1>4, <1>5, <1>7, <1>8
<1>15. Len(x) = 3 * (n + 1)
  BY <1>2, <1>3
<1> QED BY <1>1, <1>13, <1>14, <1>15 DEF Contains

LEMMA WiderContents ==
    ASSUME NEW w, NEW U, NEW V, U \subseteq V, NEW n, Contains(w, U, n)
    PROVE  Contains(w, V, n)
BY DEF Contains

LEMMA NothingContained ==
    /\ IsOutput(Created) /\ \A U : Contains(Written(Created), U, 0)
    /\ Created.rest = <<>> /\ Created.sound /\ InLines(Created.file)
<1>1. PICK e : e = <<>> /\ e \in Seq({}) /\ Len(e) = 0 /\ Cat(e, e) = e
  BY EmptySeq, ConcatEmptySeq DEF Cat
<1>2. Created = [buffer |-> e, file |-> e, rest |-> e, sound |-> TRUE]
  BY <1>1, Zenon DEF Created
<1>3. Created \in OutputOf({})
  BY <1>1, <1>2, Zenon DEF OutputOf
<1>4. Created.buffer = e /\ Created.file = e /\ Created.rest = e /\ Created.sound = TRUE
  BY <1>2, OutputParts
<1>5. Written(Created) = e
  BY <1>1, <1>4 DEF Written
<1>6. InLines(e) /\ DOMAIN e = {}
  BY <1>1 DEF InLines
<1> QED BY <1>1, <1>3, <1>4, <1>5, <1>6 DEF IsOutput, Contains

LEMMA BeforeIsOutput == IsOutput(Before)
<1>1. PICK T : T = {[page |-> None, part |-> 0]}
  OBVIOUS
<1>2. PICK e, f : e = <<>> /\ f = <<[page |-> None, part |-> 0]>>
  OBVIOUS
<1>3. e \in Seq(T) /\ f \in Seq(T)
  BY <1>1, <1>2
<1>4. Before = [buffer |-> e, file |-> f, rest |-> e, sound |-> TRUE]
  BY <1>2, Zenon DEF Before
<1>5. Before \in OutputOf(T)
  BY <1>3, <1>4, Zenon DEF OutputOf
<1> QED BY <1>5 DEF IsOutput

LEMMA WrittenIsSequence ==
    ASSUME NEW o, IsOutput(o)
    PROVE  IsSequence(Written(o)) /\ IsSequence(o.file)
BY OutputFields DEF IsOutput, IsSequence

LEMMA Beginning ==
    ASSUME NEW T, NEW x \in Seq(T), NEW y \in Seq(T)
    PROVE  /\ Cat(x, y) \in Seq(T) /\ Len(x) \in Nat /\ Len(Cat(x, y)) \in Nat
           /\ Len(x) <= Len(Cat(x, y)) /\ \A i \in 1..Len(x) : Cat(x, y)[i] = x[i]
           /\ DOMAIN x = 1..Len(x) /\ DOMAIN Cat(x, y) = 1..Len(Cat(x, y))
<1>1. PICK z : z = x \o y
  OBVIOUS
<1>2. z \in Seq(T) /\ Len(z) = Len(x) + Len(y) /\ \A i \in 1..Len(x) : z[i] = x[i]
  BY <1>1
<1>3. Len(x) \in Nat /\ Len(y) \in Nat
  OBVIOUS
<1> QED BY <1>1, <1>2, <1>3 DEF Cat

\* What is in the file is the beginning of what was written.
LEMMA FileIsInLines ==
    ASSUME NEW o, IsOutput(o), InLines(Written(o))
    PROVE  InLines(o.file)
<1>1. PICK T : o \in OutputOf(T)
  BY DEF IsOutput
<1>2. PICK f, g : f = o.file /\ g = Cat(f, o.buffer)
  OBVIOUS
<1>3. o.buffer \in Seq(T) /\ f \in Seq(T) /\ o.rest \in Seq(T)
  BY <1>1, <1>2, OutputFields
<1>4. g \in Seq(T) /\ Len(f) <= Len(g) /\ \A i \in 1..Len(f) : g[i] = f[i]
  BY <1>2, <1>3, Beginning
<1>5. PICK w : w = Cat(g, o.rest)
  OBVIOUS
<1>6. w \in Seq(T) /\ Len(g) <= Len(w) /\ \A i \in 1..Len(g) : w[i] = g[i]
  BY <1>3, <1>4, <1>5, Beginning
<1>7. Len(f) \in Nat /\ Len(g) \in Nat /\ Len(w) \in Nat /\ DOMAIN f = 1..Len(f) /\ DOMAIN w = 1..Len(w)
  BY <1>3, <1>4, <1>6, LenProperties
<1>8. \A i \in 1..Len(f) : i \in 1..Len(w) /\ w[i] = f[i]
  BY <1>4, <1>6, <1>7
<1>9. InLines(w)
  BY <1>2, <1>5 DEF Written
<1>10. \A i \in 1..Len(f) : f[i].part = 1 + ((i - 1) % 3) /\ (f[i].part > 1 => f[i].page = w[i - 1].page)
  BY <1>7, <1>8, <1>9 DEF InLines
<1>11. \A i \in 1..Len(f) : f[i].part > 1 => i - 1 \in 1..Len(f)
  <2> TAKE i \in 1..Len(f)
  <2>1. CASE i = 1
    <3>1. f[1].part = 1 + ((1 - 1) % 3)
      BY <1>10, <2>1
    <3> QED BY <2>1, <3>1
  <2>2. CASE i # 1
    BY <1>7, <2>2
  <2> QED BY <2>1, <2>2
<1>12. \A i \in 1..Len(f) : f[i].part > 1 => f[i].page = f[i - 1].page
  BY <1>8, <1>10, <1>11
<1>13. \A i, j \in 1..Len(f) : f[j] = f[i] => j = i
  BY <1>7, <1>8, <1>9 DEF InLines
<1>14. InLines(f)
  BY <1>7, <1>10, <1>12, <1>13 DEF InLines
<1> QED BY <1>2, <1>14

\* With nothing buffered the file is all there is.
LEMMA FileIsWritten ==
    ASSUME NEW o, IsOutput(o), o.buffer = <<>>, o.rest = <<>>
    PROVE  Written(o) = o.file
<1>1. PICK T : o \in OutputOf(T)
  BY DEF IsOutput
<1>2. o.file \in Seq(T)
  BY <1>1, OutputFields
<1> QED BY <1>2, CatTwo DEF Written


-----------------------------------------------------------------------------
(* The invariant.  A page goes through waiting, the steps of busy and the    *)
(* file, and never twice: a line is of a page that is past those steps.     *)

Pending(P) == {t.url : t \in waiting} \cup {t.url : t \in {b \in busy : b.step \in P}}
Past(P) == seen \ Pending(P)

\* The steps before the line of a page is begun.
Unwritten == {"fetch", "count", "sink"}

\* The pages counted whose line is not begun.
Queued == {t \in busy : t.step = "sink"}

TasksOK ==
    /\ IsFiniteSet(busy)
    /\ \A t \in waiting \cup busy : t.url \in seen
    /\ \A t, v \in waiting : t.url = v.url => t = v
    /\ \A t, v \in busy : t.url = v.url => t = v
    /\ \A t \in waiting, v \in busy : t.url # v.url

Counting == stats.fetched \in Nat /\ DOMAIN stats = {"fetched", "failed", "discovered"}

AtStart == place = "start" => out = Before /\ stats.fetched = 0 /\ ~failed /\ busy = {}

Unrecorded ==
    /\ place # "exited" => code = None
    /\ place \in {"start", "sitemaps", "crawl", "drop", "save"} => history = <<>>

Running == place \in {"sitemaps", "crawl"}

\* The calls of Sink::page that are not over, and the error of one.
Calls ==
    Running =>
        /\ out.rest # <<>> => \E t \in busy : t.step = "write"
        /\ ~out.sound => failed \/ \E t \in busy : t.step = "fail"

Writing ==
    Running /\ out.sound =>
        \E m \in Nat : /\ m + Cardinality(Queued) = stats.fetched
                       /\ Contains(Written(out), Past(Unwritten), m)

Dropped == place = "drop" => ~out.sound

Flushed ==
    place \in {"save", "report"} \/ code = "ok" \/ history # <<>> =>
        \E U : Contains(out.file, U, stats.fetched)

Recorded == history # <<>> => history[Len(history)].stats = stats

Usable == out.sound => out.file = Before.file \/ InLines(out.file)

IInv ==
    /\ IsOutput(out)
    /\ TasksOK
    /\ Counting
    /\ AtStart
    /\ Unrecorded
    /\ Calls
    /\ Writing
    /\ Dropped
    /\ Flushed
    /\ Recorded
    /\ Usable

LEMMA NoneIsNoCode == None # "ok"
BY BatchAssumption

LEMMA InitInv == Init => IInv
<1> SUFFICES ASSUME Init PROVE IInv
  OBVIOUS
<1> USE DEF Init, BatchInit
<1>1. IsOutput(out)
  BY BeforeIsOutput
<1>2. Counting
  BY DEF Counting
<1>3. TasksOK
  BY FS_EmptySet DEF TasksOK
<1>4. AtStart /\ Unrecorded
  BY DEF AtStart, Unrecorded
<1>5. Calls /\ Writing /\ Dropped /\ Recorded /\ Usable
  BY DEF Running, Calls, Writing, Dropped, Recorded, Usable
<1>6. Flushed
  BY NoneIsNoCode DEF Flushed
<1> QED BY <1>1, <1>2, <1>3, <1>4, <1>5, <1>6 DEF IInv

-----------------------------------------------------------------------------
(* The tasks. *)

\* The frontier accepts URLs it has not seen, none or more.
Accepted(fresh, depth) ==
    /\ \A u \in fresh : u \notin seen
    /\ seen' = seen \cup fresh
    /\ waiting' = waiting \cup {Task(u, depth) : u \in fresh}

LEMMA AdmitAccepts ==
    ASSUME NEW urls, NEW depth, Admit(urls, depth)
    PROVE  \E fresh : Accepted(fresh, depth) /\ fresh = Fresh(urls, depth)
<1>1. PICK fresh : fresh = Fresh(urls, depth)
  OBVIOUS
<1>2. \A u \in fresh : u \notin seen
  BY <1>1 DEF Fresh
<1>3. Accepted(fresh, depth)
  BY <1>1, <1>2, Zenon DEF Admit, Accepted
<1> QED BY <1>1, <1>3

LEMMA NothingAccepted == UNCHANGED <<waiting, seen>> => Accepted({}, 0)
BY DEF Accepted

\* A task that is done with, or moves on.
Stepped(task, more) ==
    /\ busy' = (busy \ {task}) \cup more
    /\ more = {} \/ \E step : more = {AtStep(task, step)}

LEMMA TasksKept ==
    ASSUME TasksOK, NEW fresh, NEW depth, Accepted(fresh, depth),
           \/ busy' = busy
           \/ \E task \in busy : \E more : Stepped(task, more)
    PROVE  TasksOK'
<1>1. /\ \A u \in fresh : u \notin seen
      /\ seen' = seen \cup fresh
      /\ \A t \in waiting' : t \in waiting \/ (t.url \in fresh /\ t = Task(t.url, depth))
  BY DEF Accepted, Task
<1>2. /\ IsFiniteSet(busy')
      /\ \A t \in busy' : \E b \in busy : b.url = t.url
      /\ \A t, v \in busy' : t.url = v.url => t = v
  <2>1. CASE busy' = busy
    BY <2>1 DEF TasksOK
  <2>2. ASSUME NEW task \in busy, NEW more, Stepped(task, more)
        PROVE  /\ IsFiniteSet(busy')
               /\ \A t \in busy' : \E b \in busy : b.url = t.url
               /\ \A t, v \in busy' : t.url = v.url => t = v
    <3>1. busy' = (busy \ {task}) \cup more
      BY <2>2 DEF Stepped
    <3>2. IsFiniteSet(busy \ {task})
      BY FS_RemoveElement DEF TasksOK
    <3>3. \A t, v \in busy : t.url = v.url => t = v
      BY DEF TasksOK
    <3>4. CASE more = {}
      BY <3>1, <3>2, <3>3, <3>4
    <3>5. ASSUME NEW step, more = {AtStep(task, step)}
          PROVE  /\ IsFiniteSet(busy')
                 /\ \A t \in busy' : \E b \in busy : b.url = t.url
                 /\ \A t, v \in busy' : t.url = v.url => t = v
      <4>1. AtStep(task, step).url = task.url
        BY DEF AtStep
      <4>2. IsFiniteSet((busy \ {task}) \cup {AtStep(task, step)})
        BY <3>2, FS_AddElement
      <4> QED BY <3>1, <3>3, <3>5, <4>1, <4>2
    <3> QED BY <2>2, <3>4, <3>5 DEF Stepped
  <2> QED BY <2>1, <2>2
<1>3. \A t \in waiting \cup busy : t.url \in seen
  BY DEF TasksOK
<1>4. \A t \in waiting' \cup busy' : t.url \in seen'
  BY <1>1, <1>2, <1>3
<1>5. \A t, v \in waiting' : t.url = v.url => t = v
  BY <1>1, <1>3 DEF TasksOK
<1>6. \A t \in waiting', v \in busy' : t.url # v.url
  BY <1>1, <1>2, <1>3 DEF TasksOK
<1> QED BY <1>2, <1>4, <1>5, <1>6 DEF TasksOK

LEMMA TasksBegun ==
    ASSUME TasksOK, NEW task \in waiting, waiting' = waiting \ {task},
           busy' = busy \cup {AtStep(task, "fetch")}, UNCHANGED seen
    PROVE  TasksOK'
<1>1. AtStep(task, "fetch").url = task.url
  BY DEF AtStep
<1>2. IsFiniteSet(busy')
  BY FS_AddElement DEF TasksOK
<1> QED BY <1>1, <1>2 DEF TasksOK

\* A page that is past some steps stays past them.
LEMMA PastGrows ==
    ASSUME NEW fresh, NEW depth, Accepted(fresh, depth), NEW P,
           \A t \in busy' : t.step \in P => t.url \in Pending(P)
    PROVE  Past(P) \subseteq Past(P)'
<1>1. /\ \A u \in fresh : u \notin seen
      /\ seen \subseteq seen'
      /\ \A t \in waiting' : t \in waiting \/ t.url \in fresh
  BY DEF Accepted, Task
<1>2. \A u \in Pending(P)' : u \in Pending(P) \/ u \in fresh
  BY <1>1 DEF Pending
<1> QED BY <1>1, <1>2 DEF Past

LEMMA PastOfBegun ==
    ASSUME NEW task \in waiting, waiting' = waiting \ {task},
           busy' = busy \cup {AtStep(task, "fetch")}, UNCHANGED seen, NEW P
    PROVE  Past(P) \subseteq Past(P)'
<1>1. AtStep(task, "fetch").url = task.url
  BY DEF AtStep
<1> QED BY <1>1 DEF Past, Pending

\* No task is behind where it was.
LEMMA StepIsForward ==
    ASSUME NEW task \in busy, NEW more, Stepped(task, more), NEW P,
           \A t \in more : t.step \in P => task.step \in P
    PROVE  \A t \in busy' : t.step \in P => t.url \in Pending(P)
<1>1. \A t \in busy' : t \in busy \/ (t \in more /\ t.url = task.url)
  BY DEF Stepped, AtStep
<1> QED BY <1>1 DEF Pending

\* The page of a task that leaves the steps P.
LEMMA NowPast ==
    ASSUME TasksOK, NEW fresh, NEW depth, Accepted(fresh, depth),
           NEW task \in busy, NEW more, Stepped(task, more), NEW P,
           task.step \in P, \A t \in more : t.step \notin P
    PROVE  task.url \in Past(P)' /\ task.url \notin Past(P)
<1>1. task.url \in seen /\ task.url \in seen' /\ task.url \in Pending(P)
  BY DEF TasksOK, Accepted, Pending
<1>2. \A t \in waiting' : t.url # task.url
  BY DEF TasksOK, Accepted, Task
<1>3. \A t \in busy' : t.step \in P => t.url # task.url
  BY DEF TasksOK, Stepped
<1>4. task.url \notin Pending(P)'
  BY <1>2, <1>3 DEF Pending
<1> QED BY <1>1, <1>4 DEF Past

-----------------------------------------------------------------------------
(* The steps. *)

\* A step that changes none of what IInv is about keeps it, and so does one
\* that only leaves.
LEMMA QuietStep ==
    ASSUME IInv, UNCHANGED <<seen, stats, failed, out, history, waiting, busy>>,
           \/ UNCHANGED <<place, code>>
           \/ place' = "exited" /\ code' # "ok"
    PROVE  IInv'
<1>1. IsOutput(out)'
  BY DEF IInv
<1>2. Counting' /\ TasksOK'
  BY DEF IInv, Counting, TasksOK
<1>3. Past(Unwritten)' = Past(Unwritten) /\ Queued' = Queued
  BY DEF Past, Pending, Queued
<1>4. AtStart' /\ Dropped'
  BY DEF IInv, AtStart, Dropped
<1>5. Unrecorded'
  BY DEF IInv, Unrecorded
<1>6. Calls'
  BY DEF IInv, Calls, Running
<1>7. Writing'
  BY <1>3 DEF IInv, Writing, Running
<1>8. Flushed'
  BY DEF IInv, Flushed
<1>9. Recorded' /\ Usable'
  BY DEF IInv, Recorded, Usable
<1> QED BY <1>1, <1>2, <1>4, <1>5, <1>6, <1>7, <1>8, <1>9 DEF IInv

LEMMA PrepareKeeps == IInv /\ Prepare => IInv'
<1> SUFFICES ASSUME IInv, Prepare PROVE IInv'
  OBVIOUS
<1>1. /\ place = "start" /\ history = <<>> /\ out = Before /\ stats.fetched = 0 /\ ~failed
      /\ busy = {} /\ TasksOK /\ Counting
  BY DEF IInv, Prepare, AtStart, Unrecorded
<1>2. UNCHANGED <<seen, stats, failed, history, waiting, busy>>
  BY DEF Prepare, RefuseSettings, RefuseOutput, RefuseClient, Refuse, Launch, crawlVars
<1>3. CASE out' = out /\ place' = "exited" /\ code' = "error"
  BY <1>2, <1>3, QuietStep
<1>4. CASE /\ out' = Created
           /\ \/ place' = "exited" /\ code' = "error"
              \/ place' = "sitemaps" /\ code' = code
  <2>1. IsOutput(out)'
    BY <1>4, NothingContained
  <2>2. Counting' /\ TasksOK' /\ stats'.fetched = 0
    BY <1>1, <1>2 DEF Counting, TasksOK
  <2>3. /\ \A U : Contains(Written(out'), U, 0)
        /\ out'.rest = <<>> /\ out'.sound /\ InLines(out'.file)
    BY <1>4, NothingContained
  <2>4. Queued' = {}
    BY <1>1, <1>2 DEF Queued
  <2>5. AtStart' /\ Unrecorded' /\ Dropped'
    BY <1>1, <1>2, <1>4 DEF IInv, AtStart, Unrecorded, Dropped
  <2>6. Calls' /\ Usable'
    BY <2>3 DEF Calls, Usable
  <2>7. Writing'
    <3>1. Cardinality(Queued') = 0
      BY <2>4, FS_EmptySet
    <3>2. Contains(Written(out'), Past(Unwritten)', 0)
      BY <2>3
    <3>3. 0 \in Nat /\ 0 + Cardinality(Queued') = stats'.fetched
      BY <2>2, <3>1
    <3> QED BY <3>2, <3>3 DEF Writing
  <2>8. Flushed' /\ Recorded'
    BY <1>1, <1>2, <1>4, NoneIsNoCode DEF IInv, Unrecorded, Flushed, Recorded
  <2> QED BY <2>1, <2>2, <2>5, <2>6, <2>7, <2>8 DEF IInv
<1>5. \/ out' = out /\ place' = "exited" /\ code' = "error"
      \/ /\ out' = Created
         /\ \/ place' = "exited" /\ code' = "error"
            \/ place' = "sitemaps" /\ code' = code
  <2>1. \A c : Refuse(c) => place' = "exited" /\ code' = "error"
    BY Zenon DEF Refuse, Exit
  <2>2. RefuseSettings \/ RefuseOutput => out' = out /\ place' = "exited" /\ code' = "error"
    BY <2>1, Zenon DEF RefuseSettings, RefuseOutput
  <2>3. RefuseClient => out' = Created /\ place' = "exited" /\ code' = "error"
    BY <2>1, Zenon DEF RefuseClient
  <2>4. Launch => out' = Created /\ place' = "sitemaps" /\ code' = code
    BY DEF Launch
  <2>5. RefuseSettings \/ RefuseOutput \/ RefuseClient \/ Launch
    BY DEF Prepare
  <2> QED BY <2>2, <2>3, <2>4, <2>5, Zenon
<1> QED BY <1>3, <1>4, <1>5

LEMMA QueuedIsFinite == TasksOK => IsFiniteSet(Queued)
BY FS_Subset DEF TasksOK, Queued

\* While the run goes on, what is left to show of a step.
LEMMA RunningStep ==
    ASSUME IInv, Running, Running', TasksOK', Counting', IsOutput(out'), Calls', Writing',
           UNCHANGED <<code, history>>
    PROVE  IInv'
<1>1. AtStart' /\ Dropped'
  BY DEF Running, AtStart, Dropped
<1>2. code # "ok" /\ history = <<>> /\ Unrecorded'
  BY NoneIsNoCode DEF IInv, Running, Unrecorded
<1>3. Flushed' /\ Recorded'
  BY <1>2 DEF Running, Flushed, Recorded
<1>4. Usable'
  <2> SUFFICES ASSUME out'.sound PROVE InLines(out'.file)
    BY DEF Usable
  <2>1. InLines(Written(out'))
    BY DEF Writing, Contains
  <2> QED BY <2>1, FileIsInLines
<1> QED BY <1>1, <1>2, <1>3, <1>4 DEF IInv

\* Tasks and counters change, and what is written does not.
LEMMA WritingKept ==
    ASSUME IInv, Running, Past(Unwritten) \subseteq Past(Unwritten)', Written(out') = Written(out),
           out'.sound = out.sound, NEW k \in Nat,
           Cardinality(Queued') = Cardinality(Queued) + k, stats'.fetched = stats.fetched + k
    PROVE  Writing'
<1> SUFFICES ASSUME out'.sound
             PROVE  \E m \in Nat : /\ m + Cardinality(Queued') = stats'.fetched
                                   /\ Contains(Written(out'), Past(Unwritten)', m)
  BY DEF Writing
<1>1. PICK m \in Nat : m + Cardinality(Queued) = stats.fetched /\ Contains(Written(out), Past(Unwritten), m)
  BY DEF IInv, Writing
<1>2. Contains(Written(out'), Past(Unwritten)', m)
  BY <1>1, WiderContents
<1>3. Cardinality(Queued) \in Nat
  BY QueuedIsFinite, FS_CardinalityType DEF IInv
<1>4. m + Cardinality(Queued') = stats'.fetched
  BY <1>1, <1>3
<1> QED BY <1>2, <1>4

\* No call of Sink::page ends with this step, and no error is forgotten.
LEMMA CallsKept ==
    ASSUME Calls, Running, UNCHANGED <<out, failed>>,
           \A t \in busy : t.step \in {"write", "fail"} => t \in busy'
    PROVE  Calls'
BY DEF Calls

LEMMA SeedingKeeps == IInv /\ Seeding => IInv'
<1> SUFFICES ASSUME IInv, Seeding PROVE IInv'
  OBVIOUS
<1>1. place = "sitemaps" /\ Running /\ UNCHANGED <<code, out, history>>
  BY DEF Seeding, Running
<1>2. CASE ReadRoot \/ ReadChild
  BY <1>1, <1>2, QuietStep DEF ReadRoot, ReadChild, crawlVars
<1>3. ASSUME NEW urls, NEW discovered, Admit(urls, 0),
             stats' = [stats EXCEPT !.discovered = discovered],
             place' \in {"sitemaps", "crawl"}, UNCHANGED <<busy, failed>>
      PROVE  IInv'
  <2>1. PICK fresh : Accepted(fresh, 0)
    BY <1>3, AdmitAccepts
  <2>2. TasksOK'
    BY <1>3, <2>1, TasksKept DEF IInv
  <2>3. Past(Unwritten) \subseteq Past(Unwritten)'
    BY <1>3, <2>1, PastGrows DEF Pending
  <2>4. stats'.fetched = stats.fetched /\ Counting'
    BY <1>3 DEF IInv, Counting
  <2>5. Calls'
    BY <1>1, <1>3, CallsKept DEF IInv
  <2>6. Cardinality(Queued') = Cardinality(Queued) + 0 /\ stats'.fetched = stats.fetched + 0
    <3>1. Queued' = Queued /\ Cardinality(Queued) \in Nat
      BY <1>3, QueuedIsFinite, FS_CardinalityType DEF Queued, IInv
    <3> QED BY <2>4, <3>1 DEF IInv, Counting
  <2>7. Writing'
    BY <1>1, <2>3, <2>6, WritingKept
  <2>8. Running' /\ IsOutput(out')
    BY <1>1, <1>3 DEF Running, IInv
  <2> QED BY <1>1, <2>2, <2>4, <2>5, <2>7, <2>8, RunningStep
<1>4. CASE SeedFromSitemap
  BY <1>1, <1>3, <1>4, Zenon DEF SeedFromSitemap
<1>5. CASE Seed
  BY <1>1, <1>3, <1>5, Zenon DEF Seed
<1> QED BY <1>2, <1>4, <1>5 DEF Seeding

Crawling == place = "crawl" /\ UNCHANGED <<place, code, history>>

LEMMA BeginKeeps ==
    ASSUME IInv, Crawling, NEW task \in waiting, Begin(task)
    PROVE  IInv'
<1>1. /\ waiting' = waiting \ {task} /\ busy' = busy \cup {AtStep(task, "fetch")}
      /\ UNCHANGED <<seen, stats, failed, out>>
  BY DEF Begin
<1>2. TasksOK' /\ Past(Unwritten) \subseteq Past(Unwritten)'
  BY <1>1, TasksBegun, PastOfBegun DEF IInv
<1>3. Counting'
  BY <1>1 DEF IInv, Counting
<1>4. Running /\ Running' /\ IsOutput(out')
  BY <1>1 DEF Running, Crawling, IInv
<1>5. Calls'
  BY <1>1, <1>4, CallsKept DEF IInv
<1>6. Cardinality(Queued') = Cardinality(Queued) + 0 /\ stats'.fetched = stats.fetched + 0
  <2>1. Queued' = Queued
    BY <1>1 DEF Queued, AtStep
  <2>2. Cardinality(Queued) \in Nat
    BY QueuedIsFinite, FS_CardinalityType DEF IInv
  <2> QED BY <1>1, <2>1, <2>2 DEF IInv, Counting
<1>7. Writing'
  BY <1>1, <1>2, <1>4, <1>6, WritingKept
<1> QED BY <1>2, <1>3, <1>4, <1>5, <1>7, RunningStep DEF Crawling

\* A task takes a step, or is done with, and the output stays as it is.
LEMMA TaskStep ==
    ASSUME IInv, Crawling, NEW task \in busy, NEW more, Stepped(task, more),
           NEW fresh, NEW depth, Accepted(fresh, depth), UNCHANGED out, Counting',
           failed \/ task.step = "fail" => failed', task.step # "write",
           \A t \in more : t.step \in Unwritten => task.step \in Unwritten,
           NEW k \in Nat, Cardinality(Queued') = Cardinality(Queued) + k,
           stats'.fetched = stats.fetched + k
    PROVE  IInv'
<1>1. TasksOK'
  BY TasksKept DEF IInv
<1>2. Past(Unwritten) \subseteq Past(Unwritten)'
  <2>1. \A t \in busy' : t.step \in Unwritten => t.url \in Pending(Unwritten)
    BY StepIsForward
  <2> QED BY <2>1, PastGrows
<1>3. Running /\ Running' /\ IsOutput(out')
  BY DEF Running, Crawling, IInv
<1>4. Writing'
  BY <1>2, <1>3, WritingKept
<1>5. Calls'
  <2>1. \A t \in busy : t # task => t \in busy'
    BY DEF Stepped
  <2>2. out.rest # <<>> => \E t \in busy : t.step = "write"
    BY <1>3 DEF IInv, Calls
  <2>3. ~out.sound => failed \/ \E t \in busy : t.step = "fail"
    BY <1>3 DEF IInv, Calls
  <2>4. ~out.sound => failed' \/ \E t \in busy' : t.step = "fail"
    <3>1. CASE failed'
      BY <3>1
    <3>2. CASE ~failed'
      <4>1. task.step # "fail" /\ ~failed
        BY <3>2
      <4> QED BY <2>1, <2>3, <4>1
    <3> QED BY <3>1, <3>2
  <2>5. out.rest # <<>> => \E t \in busy' : t.step = "write"
    BY <2>1, <2>2
  <2> QED BY <2>4, <2>5 DEF Calls
<1> QED BY <1>1, <1>3, <1>4, <1>5, RunningStep DEF Crawling

LEMMA OtherStep ==
    ASSUME NEW task \in busy, NEW more, Stepped(task, more), task.step # "sink",
           \A t \in more : t.step # "sink"
    PROVE  Queued' = Queued
BY DEF Stepped, Queued

LEMMA EnqueueKeeps ==
    ASSUME IInv, Crawling, NEW task \in busy, Enqueue(task)
    PROVE  IInv'
<1>1. PICK discovered : stats' = [stats EXCEPT !.discovered = discovered]
  BY Zenon DEF Enqueue
<1>2. PICK fresh : Accepted(fresh, task.depth + 1)
  BY AdmitAccepts DEF Enqueue
<1>3. PICK more : more = {AtStep(task, "count")} /\ Stepped(task, more)
  BY DEF Enqueue, MoveOn, Stepped
<1>4. task.step = "fetch" /\ UNCHANGED <<failed, out>>
  BY DEF Enqueue
<1>5. \A t \in more : t.step = "count"
  BY <1>3 DEF AtStep
<1>6. Queued' = Queued
  BY <1>3, <1>4, <1>5, OtherStep
<1>7. Counting' /\ stats'.fetched = stats.fetched
  BY <1>1 DEF IInv, Counting
<1>8. Cardinality(Queued') = Cardinality(Queued) + 0 /\ stats'.fetched = stats.fetched + 0
  <2>1. Cardinality(Queued) \in Nat
    BY QueuedIsFinite, FS_CardinalityType DEF IInv
  <2> QED BY <1>6, <1>7, <2>1 DEF IInv, Counting
<1>9. "fetch" \in Unwritten
  BY DEF Unwritten
<1> QED BY <1>2, <1>3, <1>4, <1>5, <1>7, <1>8, <1>9, TaskStep

LEMMA MissKeeps ==
    ASSUME IInv, Crawling, NEW task \in busy, Miss(task)
    PROVE  IInv'
<1>1. task.step = "fetch" /\ UNCHANGED <<failed, out, waiting, seen>> /\ stats' = [stats EXCEPT !.failed = @ + 1]
  BY DEF Miss
<1>2. Accepted({}, 0)
  BY <1>1, NothingAccepted
<1>3. Stepped(task, {})
  BY DEF Miss, Stepped
<1>4. Queued' = Queued
  BY <1>1, <1>3, OtherStep
<1>5. Counting' /\ stats'.fetched = stats.fetched
  BY <1>1 DEF IInv, Counting
<1>6. Cardinality(Queued') = Cardinality(Queued) + 0 /\ stats'.fetched = stats.fetched + 0
  <2>1. Cardinality(Queued) \in Nat
    BY QueuedIsFinite, FS_CardinalityType DEF IInv
  <2> QED BY <1>4, <1>5, <2>1 DEF IInv, Counting
<1> QED BY <1>1, <1>2, <1>3, <1>5, <1>6, TaskStep

LEMMA CountKeeps ==
    ASSUME IInv, Crawling, NEW task \in busy, Count(task)
    PROVE  IInv'
<1>1. task.step = "count" /\ UNCHANGED <<failed, out, waiting, seen>> /\ stats' = [stats EXCEPT !.fetched = @ + 1]
  BY DEF Count
<1>2. Accepted({}, 0)
  BY <1>1, NothingAccepted
<1>3. PICK new, more : new = AtStep(task, "sink") /\ more = {new} /\ Stepped(task, more)
  BY DEF Count, MoveOn, Stepped
<1>4. new.step = "sink" /\ new.url = task.url
  BY <1>3 DEF AtStep
<1>5. Counting' /\ stats'.fetched = stats.fetched + 1
  BY <1>1 DEF IInv, Counting
<1>6. Cardinality(Queued') = Cardinality(Queued) + 1
  <2>1. new \notin busy
    BY <1>1, <1>4 DEF IInv, TasksOK
  <2>2. Queued' = Queued \cup {new} /\ new \notin Queued
    BY <1>1, <1>3, <1>4, <2>1 DEF Queued, Stepped
  <2>3. IsFiniteSet(Queued)
    BY QueuedIsFinite DEF IInv
  <2> QED BY <2>2, <2>3, FS_AddElement
<1>7. "count" \in Unwritten
  BY DEF Unwritten
<1> QED BY <1>1, <1>2, <1>3, <1>5, <1>6, <1>7, TaskStep

LEMMA FailKeeps ==
    ASSUME IInv, Crawling, NEW task \in busy, Fail(task)
    PROVE  IInv'
<1>1. task.step = "fail" /\ failed' = TRUE /\ UNCHANGED <<stats, out, waiting, seen>>
  BY DEF Fail
<1>2. Accepted({}, 0)
  BY <1>1, NothingAccepted
<1>3. Stepped(task, {})
  BY DEF Fail, Stepped
<1>4. Queued' = Queued
  BY <1>1, <1>3, OtherStep
<1>5. Counting'
  BY <1>1 DEF IInv, Counting
<1>6. Cardinality(Queued') = Cardinality(Queued) + 0 /\ stats'.fetched = stats.fetched + 0
  <2>1. Cardinality(Queued) \in Nat
    BY QueuedIsFinite, FS_CardinalityType DEF IInv
  <2> QED BY <1>1, <1>4, <2>1 DEF IInv, Counting
<1> QED BY <1>1, <1>2, <1>3, <1>5, <1>6, TaskStep

\* The line of the page is begun: it is counted already, and has no other.
LEMMA CallSinkKeeps ==
    ASSUME IInv, Crawling, NEW task \in busy, CallSink(task)
    PROVE  IInv'
<1>1. /\ task.step = "sink" /\ out.rest = <<>> /\ out' = [out EXCEPT !.rest = Line(task.url)]
      /\ UNCHANGED <<failed, stats, waiting, seen>>
  BY DEF CallSink
<1>2. Accepted({}, 0)
  BY <1>1, NothingAccepted
<1>3. PICK new, more : new = AtStep(task, "write") /\ more = {new} /\ Stepped(task, more)
  BY DEF CallSink, MoveOn, Stepped
<1>4. new.step = "write" /\ new.url = task.url
  BY <1>3 DEF AtStep
<1>5. TasksOK' /\ Counting'
  BY <1>1, <1>2, <1>3, TasksKept DEF IInv, Counting
<1>6. Running /\ Running'
  BY DEF Running, Crawling
<1>7. /\ IsOutput(out') /\ Written(out') = LineAdded(Written(out), task.url) /\ out'.sound = out.sound
  <2>1. IsOutput(out)
    BY DEF IInv
  <2> QED BY <1>1, <2>1, CallAdds
<1>8. Calls'
  <2>1. new \in busy' /\ \A t \in busy : t # task => t \in busy'
    BY <1>3 DEF Stepped
  <2>2. ~out.sound => failed \/ \E t \in busy : t.step = "fail"
    BY <1>6 DEF IInv, Calls
  <2>3. ~out'.sound => failed' \/ \E t \in busy' : t.step = "fail"
    BY <1>1, <1>7, <2>1, <2>2
  <2> QED BY <1>4, <2>1, <2>3 DEF Calls
<1>9. Queued' = Queued \ {task} /\ task \in Queued
  BY <1>1, <1>3, <1>4 DEF Queued, Stepped
<1>10. /\ Past(Unwritten) \subseteq Past(Unwritten)'
       /\ task.url \in Past(Unwritten)' /\ task.url \notin Past(Unwritten)
  <2>1. "sink" \in Unwritten /\ "write" \notin Unwritten
    BY DEF Unwritten
  <2>2. \A t \in more : t.step \notin Unwritten
    BY <1>3, <1>4, <2>1
  <2>3. \A t \in busy' : t.step \in Unwritten => t.url \in Pending(Unwritten)
    BY <1>3, <2>2, StepIsForward
  <2>4. Past(Unwritten) \subseteq Past(Unwritten)'
    BY <1>2, <2>3, PastGrows
  <2>5. TasksOK
    BY DEF IInv
  <2> QED BY <1>1, <1>2, <1>3, <2>1, <2>2, <2>4, <2>5, NowPast
<1>11. Writing'
  <2> SUFFICES ASSUME out.sound
               PROVE  \E m \in Nat : /\ m + Cardinality(Queued') = stats'.fetched
                                     /\ Contains(Written(out'), Past(Unwritten)', m)
    BY <1>7 DEF Writing
  <2>1. PICK m \in Nat : m + Cardinality(Queued) = stats.fetched /\ Contains(Written(out), Past(Unwritten), m)
    BY <1>6 DEF IInv, Writing
  <2>2. IsSequence(Written(out))
    BY WrittenIsSequence DEF IInv
  <2>3. Contains(LineAdded(Written(out), task.url), Past(Unwritten) \cup {task.url}, m + 1)
    BY <1>10, <2>1, <2>2, LineAddedContains
  <2>4. Contains(Written(out'), Past(Unwritten)', m + 1)
    <3>1. Past(Unwritten) \cup {task.url} \subseteq Past(Unwritten)'
      BY <1>10
    <3>2. Contains(LineAdded(Written(out), task.url), Past(Unwritten)', m + 1)
      BY <2>3, <3>1, WiderContents
    <3> QED BY <1>7, <3>2
  <2>5. IsFiniteSet(Queued)
    BY QueuedIsFinite DEF IInv
  <2>6. Cardinality(Queued') = Cardinality(Queued) - 1 /\ Cardinality(Queued) \in Nat
    BY <1>9, <2>5, FS_RemoveElement, FS_CardinalityType
  <2>7. m + 1 \in Nat /\ (m + 1) + Cardinality(Queued') = stats'.fetched
    BY <1>1, <2>1, <2>6
  <2> QED BY <2>4, <2>7
<1> QED BY <1>5, <1>6, <1>7, <1>8, <1>11, RunningStep DEF Crawling

LEMMA WriteKeeps ==
    ASSUME IInv, Crawling, NEW task \in busy, Write(task)
    PROVE  IInv'
<1>1. task.step = "write" /\ UNCHANGED <<failed, stats, waiting, seen>>
  BY DEF Write
<1>2. Accepted({}, 0) /\ Running /\ Running' /\ Counting' /\ IsOutput(out)
  BY <1>1, NothingAccepted DEF Running, Crawling, IInv, Counting
<1>3. ~out.sound => failed \/ \E t \in busy : t.step = "fail"
  BY <1>2 DEF IInv, Calls
<1>4. CASE out' \in Page(out) /\ busy' = (IF out'.rest = <<>> THEN busy \ {task} ELSE busy)
  <2>1. IsOutput(out') /\ Written(out') = Written(out) /\ out'.sound = out.sound
    BY <1>2, <1>4, PageKeeps DEF Kept
  <2>2. \A t \in busy : t # task => t \in busy'
    BY <1>4
  <2>3. out'.rest # <<>> => task \in busy'
    BY <1>4
  <2>4. Calls'
    BY <1>1, <1>3, <2>1, <2>2, <2>3 DEF Calls
  <2>5. TasksOK' /\ Past(Unwritten) \subseteq Past(Unwritten)' /\ Queued' = Queued
    <3>1. CASE out'.rest = <<>>
      <4>1. Stepped(task, {})
        BY <1>4, <3>1 DEF Stepped
      <4>2. \A t \in busy' : t.step \in Unwritten => t.url \in Pending(Unwritten)
        BY <4>1, StepIsForward
      <4>3. Queued' = Queued
        BY <1>1, <4>1, OtherStep
      <4> QED BY <1>2, <4>1, <4>2, <4>3, TasksKept, PastGrows DEF IInv
    <3>2. CASE out'.rest # <<>>
      <4>1. busy' = busy
        BY <1>4, <3>2
      <4> QED BY <1>1, <1>2, <4>1, TasksKept DEF IInv, Past, Pending, Queued
    <3> QED BY <3>1, <3>2
  <2>6. Cardinality(Queued') = Cardinality(Queued) + 0 /\ stats'.fetched = stats.fetched + 0
    <3>1. Cardinality(Queued) \in Nat
      BY QueuedIsFinite, FS_CardinalityType DEF IInv
    <3> QED BY <1>1, <2>5, <3>1 DEF IInv, Counting
  <2>7. Writing'
    BY <1>2, <2>1, <2>5, <2>6, WritingKept
  <2> QED BY <1>2, <2>1, <2>4, <2>5, <2>7, RunningStep DEF Crawling
<1>5. CASE out' = Failed(out) /\ MoveOn(task, "fail")
  <2>1. IsOutput(out') /\ ~out'.sound /\ out'.rest = <<>>
    BY <1>2, <1>5, FailedIsOutput
  <2>2. PICK new, more : new = AtStep(task, "fail") /\ more = {new} /\ Stepped(task, more)
    BY <1>5 DEF MoveOn, Stepped
  <2>3. TasksOK'
    BY <1>2, <2>2, TasksKept DEF IInv
  <2>4. new \in busy' /\ new.step = "fail"
    BY <2>2 DEF Stepped, AtStep
  <2>5. Calls' /\ Writing'
    BY <2>1, <2>4 DEF Calls, Writing
  <2> QED BY <1>2, <2>1, <2>3, <2>5, RunningStep DEF Crawling
<1> QED BY <1>4, <1>5 DEF Write

LEMMA CrawlingKeeps == IInv /\ (Leasing \/ Fetching) => IInv'
<1>1. Leasing => Crawling /\ \E task \in waiting : Begin(task)
  BY Zenon DEF Leasing, Crawl, Crawling
<1>2. Fetching => Crawling /\ \E task \in busy : Process(task)
  BY Zenon DEF Fetching, Crawl, Crawling
<1>3. ASSUME IInv, Crawling, NEW task \in busy, Process(task) PROVE IInv'
  BY <1>3, EnqueueKeeps, MissKeeps, CountKeeps, CallSinkKeeps, WriteKeeps, FailKeeps DEF Process
<1> QED BY <1>1, <1>2, <1>3, BeginKeeps

-----------------------------------------------------------------------------
(* The end. *)

\* Once a write has failed there is nothing that could be on record.
LEMMA UnsoundStep ==
    ASSUME IInv, place \in {"crawl", "drop"}, IsOutput(out'), ~out'.sound,
           UNCHANGED <<waiting, busy, seen, stats, failed, history>>,
           \/ place' = "drop" /\ code' = code
           \/ place' = "exited" /\ code' = "error"
    PROVE  IInv'
<1>1. history = <<>> /\ code # "ok"
  BY NoneIsNoCode DEF IInv, Unrecorded
<1>2. Counting' /\ TasksOK'
  BY DEF IInv, Counting, TasksOK
<1>3. AtStart' /\ Unrecorded' /\ Calls' /\ Writing' /\ Dropped' /\ Usable'
  BY <1>1 DEF IInv, AtStart, Unrecorded, Running, Calls, Writing, Dropped, Usable
<1>4. Flushed' /\ Recorded'
  BY <1>1 DEF Flushed, Recorded
<1> QED BY <1>2, <1>3, <1>4 DEF IInv

\* finish() brings everything that was written into the file, or fails.
LEMMA FinishKeeps ==
    ASSUME IInv, place = "crawl", Drained, Finish, UNCHANGED <<waiting, busy, seen, stats, failed>>
    PROVE  IInv'
<1>1. history' = history /\ busy = {} /\ Running /\ IsOutput(out) /\ history = <<>>
  BY DEF Finish, Drained, Running, IInv, Unrecorded
<1>2. Queued = {} /\ Cardinality(Queued) = 0 /\ stats.fetched \in Nat
  <2>1. Queued = {}
    BY <1>1 DEF Queued
  <2> QED BY <2>1, FS_EmptySet DEF IInv, Counting
<1>3. CASE out' \in Drain(out) /\ UNCHANGED <<place, code>>
  <2>1. IsOutput(out') /\ Written(out') = Written(out) /\ out'.sound = out.sound /\ out'.rest = out.rest
    BY <1>1, <1>3, DrainKeeps DEF Kept
  <2>2. TasksOK' /\ Counting' /\ Calls'
    BY <2>1 DEF IInv, TasksOK, Counting, Calls, Running
  <2>3. Past(Unwritten)' = Past(Unwritten) /\ Queued' = Queued
    BY DEF Past, Pending, Queued
  <2>4. Cardinality(Queued') = Cardinality(Queued) + 0 /\ stats'.fetched = stats.fetched + 0
    BY <1>2, <2>3
  <2>5. Writing'
    BY <1>1, <2>1, <2>3, <2>4, WritingKept
  <2>6. Running'
    BY <1>1, <1>3 DEF Running
  <2> QED BY <1>1, <1>3, <2>1, <2>2, <2>5, <2>6, RunningStep
<1>4. CASE out.buffer = <<>> /\ ~failed /\ place' = "save" /\ UNCHANGED <<code, out>>
  <2>1. out.rest = <<>> /\ out.sound
    BY <1>1, <1>4 DEF IInv, Calls
  <2>2. PICK m \in Nat : m + Cardinality(Queued) = stats.fetched /\ Contains(Written(out), Past(Unwritten), m)
    BY <1>1, <2>1 DEF IInv, Writing
  <2>3. m = stats.fetched /\ Written(out) = out.file
    BY <1>1, <1>2, <1>4, <2>1, <2>2, FileIsWritten
  <2>4. Contains(out.file, Past(Unwritten), stats.fetched)
    BY <2>2, <2>3
  <2>5. Flushed'
    BY <1>4, <2>4 DEF Flushed
  <2>6. IsOutput(out)' /\ TasksOK' /\ Counting' /\ Usable'
    BY <1>4 DEF IInv, TasksOK, Counting, Usable
  <2>7. AtStart' /\ Unrecorded' /\ Calls' /\ Writing' /\ Dropped' /\ Recorded'
    BY <1>1, <1>4 DEF IInv, AtStart, Unrecorded, Running, Calls, Writing, Dropped, Recorded
  <2> QED BY <2>5, <2>6, <2>7 DEF IInv
<1>5. CASE place' = "exited" /\ code' = "error" /\ UNCHANGED out
  BY <1>1, <1>5, QuietStep
<1>6. CASE out' = Failed(out) /\ place' = "drop" /\ UNCHANGED code
  <2>1. IsOutput(out') /\ ~out'.sound
    BY <1>1, <1>6, FailedIsOutput
  <2> QED BY <1>1, <1>6, <2>1, UnsoundStep
<1> QED BY <1>3, <1>4, <1>5, <1>6, Zenon DEF Finish, Exit

LEMMA DropKeeps ==
    ASSUME IInv, place = "drop", Drop, UNCHANGED <<waiting, busy, seen, stats, failed>>
    PROVE  IInv'
<1>1. history' = history /\ IsOutput(out) /\ ~out.sound
  BY DEF Drop, IInv, Dropped
<1>2. CASE out' \in Drain(out) /\ UNCHANGED <<place, code>>
  <2>1. IsOutput(out') /\ ~out'.sound
    BY <1>1, <1>2, DrainKeeps DEF Kept
  <2> QED BY <1>1, <1>2, <2>1, UnsoundStep
<1>3. CASE place' = "exited" /\ code' = "error" /\ UNCHANGED out
  BY <1>1, <1>3, UnsoundStep
<1>4. CASE place' = "exited" /\ code' = "error" /\ out' = Failed(out)
  <2>1. IsOutput(out') /\ ~out'.sound
    BY <1>1, <1>4, FailedIsOutput
  <2> QED BY <1>1, <1>4, <2>1, UnsoundStep
<1> QED BY <1>2, <1>3, <1>4, Zenon DEF Drop, Exit

LEMMA SaveKeeps ==
    ASSUME IInv, place = "save", Save, UNCHANGED <<waiting, busy, seen, stats, failed>>
    PROVE  IInv'
<1>1. history = <<>> /\ code = None /\ out' = out
  BY DEF IInv, Unrecorded, Save
<1>2. Counting' /\ TasksOK' /\ IsOutput(out)' /\ Usable'
  BY <1>1 DEF IInv, Counting, TasksOK, Usable
<1>3. Flushed'
  BY <1>1 DEF IInv, Flushed
<1>4. CASE /\ place' = "report" /\ code' = code
           /\ history' = (IF cli.no_save THEN history ELSE Append(history, Record))
  <2>1. AtStart' /\ Unrecorded' /\ Calls' /\ Writing' /\ Dropped'
    BY <1>1, <1>4 DEF AtStart, Unrecorded, Running, Calls, Writing, Dropped
  <2>2. Recorded'
    <3>1. CASE cli.no_save
      BY <1>1, <1>4, <3>1 DEF Recorded
    <3>2. CASE ~cli.no_save
      <4>1. PICK r : r = Record
        OBVIOUS
      <4>2. r.stats = stats
        BY <4>1 DEF Record
      <4>3. history' = <<r>>
        BY <1>1, <1>4, <3>2, <4>1
      <4> QED BY <4>2, <4>3 DEF Recorded
    <3> QED BY <3>1, <3>2
  <2> QED BY <1>2, <1>3, <2>1, <2>2 DEF IInv
<1>5. CASE place' = "exited" /\ code' = "error" /\ history' = history
  BY <1>1, <1>5, QuietStep
<1>6. \/ /\ place' = "report" /\ code' = code
         /\ history' = (IF cli.no_save THEN history ELSE Append(history, Record))
      \/ place' = "exited" /\ code' = "error" /\ history' = history
  BY Zenon DEF Save, Exit
<1> QED BY <1>4, <1>5, <1>6

LEMMA ReportKeeps ==
    ASSUME IInv, place = "report", Report, UNCHANGED <<waiting, busy, seen, stats, failed>>
    PROVE  IInv'
<1>1. place' = "exited" /\ UNCHANGED <<out, history>>
  BY DEF Report, Exit
<1>2. Counting' /\ TasksOK' /\ IsOutput(out)' /\ Usable'
  BY <1>1 DEF IInv, Counting, TasksOK, Usable
<1>3. AtStart' /\ Unrecorded' /\ Calls' /\ Writing' /\ Dropped'
  BY <1>1 DEF AtStart, Unrecorded, Running, Calls, Writing, Dropped
<1>4. Flushed' /\ Recorded'
  BY <1>1 DEF IInv, Flushed, Recorded
<1> QED BY <1>2, <1>3, <1>4 DEF IInv

LEMMA SignalsKeep == IInv /\ Signals => IInv'
<1> SUFFICES ASSUME IInv, Signals PROVE IInv'
  OBVIOUS
<1>1. UNCHANGED <<seen, stats, failed, out, history, waiting, busy>>
  BY DEF Signals, crawlVars
<1>2. UNCHANGED <<place, code>> \/ (place' = "exited" /\ code' \in {"killed", "forced"})
  BY Zenon DEF Signals, Press, Handle, Exit
<1> QED BY <1>1, <1>2, QuietStep

LEMMA BatchKeeps == IInv /\ BatchNext => IInv'
<1> SUFFICES ASSUME IInv, BatchNext PROVE IInv'
  OBVIOUS
<1>1. CASE Ending
  <2>1. /\ UNCHANGED <<waiting, busy, seen, stats, failed>>
        /\ \/ place = "crawl" /\ Drained /\ Finish
           \/ place = "drop" /\ Drop
           \/ place = "save" /\ Save
           \/ place = "report" /\ Report
    BY <1>1, Zenon DEF Ending, crawlVars
  <2> QED BY <2>1, FinishKeeps, DropKeeps, SaveKeeps, ReportKeeps
<1> QED BY <1>1, PrepareKeeps, SeedingKeeps, CrawlingKeeps, SignalsKeep DEF BatchNext, Working

\* The next process starts with the file and the history that the first one left.
LEMMA OpenKeeps == IInv /\ OpenControlCenter => IInv'
<1> SUFFICES ASSUME IInv, OpenControlCenter PROVE IInv'
  OBVIOUS
<1>1. /\ place = "exited" /\ UNCHANGED <<place, code, stats, history>>
      /\ waiting' = {} /\ busy' = {} /\ out' = FileOnly(out)
  BY DEF OpenControlCenter, Forget, FileOnly
<1>2. IsOutput(out') /\ out'.file = out.file /\ out'.sound = out.sound
  BY <1>1, FileIsLeft DEF IInv
<1>3. Counting' /\ AtStart' /\ Unrecorded' /\ Calls' /\ Writing' /\ Dropped'
  BY <1>1 DEF IInv, Counting, AtStart, Unrecorded, Running, Calls, Writing, Dropped
<1>4. TasksOK'
  BY <1>1, FS_EmptySet DEF TasksOK
<1>5. Flushed' /\ Recorded'
  BY <1>1, <1>2 DEF IInv, Flushed, Recorded
<1>6. Usable'
  <2>1. Before' = Before
    BY DEF Before
  <2> QED BY <1>2, <2>1 DEF IInv, Usable
<1> QED BY <1>2, <1>3, <1>4, <1>5, <1>6 DEF IInv

LEMMA StepInv == IInv /\ [Next]_vars => IInv'
<1> SUFFICES ASSUME IInv, [Next]_vars PROVE IInv'
  OBVIOUS
<1>1. CASE UNCHANGED batchVars
  <2>1. UNCHANGED <<seen, stats, failed, out, history, waiting, busy, place, code>>
    BY <1>1 DEF batchVars
  <2> QED BY <2>1, QuietStep
<1>2. CASE UNCHANGED vars
  BY <1>1, <1>2 DEF vars
<1>3. BatchNext \/ OpenControlCenter \/ UNCHANGED batchVars \/ UNCHANGED vars
  BY DEF Next, Over
<1> QED BY <1>1, <1>2, <1>3, BatchKeeps, OpenKeeps

THEOREM Invariance == Spec => []IInv
BY InitInv, StepInv, PTL DEF Spec

-----------------------------------------------------------------------------
(* The properties. *)

(* A record in the history, and exit code 0, mean that every page counted   *)
(* is in the file, as one whole line: for any size of the buffer, lengths of *)
(* lines, write errors, signals and number of pages (sink.rs, main.rs).     *)
THEOREM SavedHolds == Spec => []SavedMeansWritten
<1>1. IInv => SavedMeansWritten
  <2> SUFFICES ASSUME IInv, history # <<>> \/ code = "ok"
               PROVE  /\ InLines(out.file)
                      /\ Len(out.file) = 3 * stats.fetched
                      /\ history # <<>> => history[Len(history)].stats = stats
    BY DEF SavedMeansWritten
  <2>1. PICK U : Contains(out.file, U, stats.fetched)
    BY DEF IInv, Flushed
  <2> QED BY <2>1 DEF Contains, IInv, Recorded
<1> QED BY <1>1, Invariance, PTL

(* However the program ends, and at every moment before, between any two    *)
(* writes of a line or a flush: what is in the file are whole lines of      *)
(* different pages and, at its very end, at most one that is cut, unless a  *)
(* write failed (sink.rs; main.rs, a second Ctrl-C forces an exit).         *)
THEOREM KilledOutputHolds == Spec => []KilledOutputIsUsable
<1>1. IInv => KilledOutputIsUsable
  BY DEF IInv, Usable, KilledOutputIsUsable
<1> QED BY <1>1, Invariance, PTL

-----------------------------------------------------------------------------
(* A recorded job that is edited.                                           *)

\* What the history, and the settings that were checked, come from.
RunKept ==
    /\ cli \in CommandLines
    /\ place = "start" => history = <<>>
    /\ \A i \in DOMAIN history : history[i].job = TemplateFromCli(cli)
    /\ history # <<>> \/ place \notin {"start", "exited"} => Accepts(cli) /\ config = ToConfig(cli)

FormFields == {"target", "max_pages", "depth", "concurrency", "scope", "delay", "robots_delay",
               "output", "save"}

\* What the form shows of the recorded job when it is opened.
Initial == FromSpec(FromJob(Deserialize(TemplateFromCli(cli))))

FormKept ==
    /\ DOMAIN form = FormFields
    /\ edited # None =>
         /\ history # <<>>
         /\ touched = {} => form = Initial
         /\ \A f \in FormFields \ touched : form[f] = Initial[f]
    /\ error => ToSpec(form) = None
    /\ dashboard \in {"asked", "running", "failed"} => asked = ToSpec(form) /\ asked # None
    /\ dashboard = "failed" => FromDashboard(asked) = None
    /\ started # None => dashboard = "running" /\ started = FromDashboard(asked)

LEMMA NewFields == DOMAIN NewForm = FormFields
BY DEF NewForm, FormFields

LEMMA SpecShown == \A spec : DOMAIN FromSpec(spec) = FormFields
BY DEF FromSpec, FormFields

LEMMA FormInit_ == Init => FormKept
BY NewFields DEF Init, FormInit, FormKept

LEMMA RunInit == Init => RunKept
BY DEF Init, BatchInit, RunKept

LEMMA OpenForm ==
    ASSUME FormKept, NEW values, NEW job, Open(values, job), UNCHANGED cli,
           DOMAIN values = FormFields,
           job # None => history' # <<>> /\ values = FromSpec(FromJob(Deserialize(TemplateFromCli(cli))))
    PROVE  FormKept'
<1>1. /\ dashboard = "idle" /\ dashboard' = "form" /\ edited' = job /\ form' = values
      /\ error' = FALSE /\ touched' = {} /\ started' = started
  BY DEF Open
<1>2. started' = None
  BY <1>1 DEF FormKept
<1>3. Initial' = FromSpec(FromJob(Deserialize(TemplateFromCli(cli))))
  BY DEF Initial
<1> QED BY <1>1, <1>2, <1>3 DEF FormKept

LEMMA TypeKeeps ==
    ASSUME FormKept, Type, UNCHANGED <<cli, history>>
    PROVE  FormKept'
<1>1. PICK f, value : /\ form' = [form EXCEPT ![f] = value] /\ touched' = touched \cup {f}
                      /\ dashboard = "form" /\ error' = FALSE
                      /\ UNCHANGED <<dashboard, edited, asked, started>>
  BY DEF Type
<1>2. DOMAIN form' = FormFields /\ \A g \in FormFields \ {f} : form'[g] = form[g]
  BY <1>1 DEF FormKept
<1>3. Initial' = Initial
  BY DEF Initial
<1>4. touched' # {} /\ \A g \in FormFields \ touched' : g \in FormFields \ touched /\ g # f
  BY <1>1
<1>5. edited' # None => history' # <<>> /\ \A g \in FormFields \ touched' : form'[g] = Initial'[g]
  BY <1>1, <1>2, <1>3, <1>4 DEF FormKept
<1>6. started' = None
  BY <1>1 DEF FormKept
<1> QED BY <1>1, <1>2, <1>4, <1>5, <1>6 DEF FormKept

LEMMA FormStep == RunKept /\ FormKept /\ FormNext(history) /\ UNCHANGED batchVars => FormKept'
<1> SUFFICES ASSUME RunKept, FormKept, FormNext(history), UNCHANGED batchVars PROVE FormKept'
  OBVIOUS
<1>1. UNCHANGED <<cli, history>>
  BY DEF batchVars
<1>2. CASE KeyNew
  BY <1>1, <1>2, NewFields, OpenForm DEF KeyNew
<1>3. ASSUME NEW i \in DOMAIN history, KeyEdit(history[i].job) PROVE FormKept'
  <2>1. PICK job : job = history[i].job /\ job = TemplateFromCli(cli)
    BY DEF RunKept
  <2>2. PICK values : values = FromSpec(FromJob(Deserialize(job))) /\ Open(values, job)
    BY <1>3, <2>1 DEF KeyEdit
  <2>3. history # <<>>
    OBVIOUS
  <2>4. DOMAIN values = FormFields
    BY <2>2, SpecShown
  <2> QED BY <1>1, <2>1, <2>2, <2>3, <2>4, OpenForm
<1>4. CASE Move \/ Esc
  <2>1. /\ UNCHANGED <<edited, form, error, touched, asked, started, cli, history>>
        /\ dashboard = "form" /\ dashboard' \in {"form", "idle"}
    BY <1>1, <1>4 DEF Move, Esc
  <2>2. Initial' = Initial
    BY <2>1 DEF Initial
  <2> QED BY <2>1, <2>2 DEF FormKept
<1>5. CASE Type
  BY <1>1, <1>5, TypeKeeps
<1>6. CASE Enter
  <2>1. /\ UNCHANGED <<edited, form, touched, started, cli, history>>
        /\ dashboard = "form" /\ dashboard' \in {"form", "asked"}
        /\ error' = (ToSpec(form) = None) /\ asked' = ToSpec(form)
        /\ dashboard' = "asked" => ToSpec(form) # None
    BY <1>1, <1>6 DEF Enter
  <2>2. Initial' = Initial
    BY <2>1 DEF Initial
  <2> QED BY <2>1, <2>2 DEF FormKept
<1>7. CASE Start
  <2>1. /\ UNCHANGED <<edited, form, error, touched, asked, cli, history>>
        /\ dashboard = "asked" /\ started' = FromDashboard(asked)
        /\ dashboard' = IF FromDashboard(asked) = None THEN "failed" ELSE "running"
    BY <1>1, <1>7 DEF Start
  <2>2. Initial' = Initial
    BY <2>1 DEF Initial
  <2> QED BY <2>1, <2>2 DEF FormKept
<1> QED BY <1>2, <1>3, <1>4, <1>5, <1>6, <1>7 DEF FormNext

LEMMA BatchSteps ==
    ASSUME BatchNext, IInv, RunKept
    PROVE  RunKept' /\ UNCHANGED cli /\ (history # <<>> => history' # <<>>)
<1>1. /\ UNCHANGED cli
      /\ \/ UNCHANGED history
         \/ place = "save" /\ history' = Append(history, Record)
      /\ \/ place = "start" /\ place' = "exited"
         \/ UNCHANGED place /\ UNCHANGED config
         \/ place \notin {"start", "exited"} /\ place' # "start" /\ UNCHANGED config
         \/ place = "start" /\ place' # "start" /\ Accepts(cli) /\ config' = ToConfig(cli)
  <2>1. CASE Prepare
    <3>1. RefuseSettings \/ RefuseOutput \/ RefuseClient => UNCHANGED <<cli, history>> /\ place' = "exited"
      BY Zenon DEF RefuseSettings, RefuseOutput, RefuseClient, Refuse, Exit
    <3>2. Launch => /\ UNCHANGED <<cli, history>> /\ place' # "start" /\ Accepts(cli)
                    /\ config' = ToConfig(cli)
      BY DEF Launch, Accepts
    <3>3. place = "start"
      BY <2>1 DEF Prepare
    <3> QED BY <2>1, <3>1, <3>2, <3>3 DEF Prepare
  <2>2. CASE Seeding \/ Leasing \/ Fetching
    <3>1. UNCHANGED settingVars /\ UNCHANGED history
      BY <2>2 DEF Seeding, Leasing, Fetching, Crawl
    <3>2. place \in {"sitemaps", "crawl"} /\ place' \in {"sitemaps", "crawl"}
      BY <2>2 DEF Seeding, ReadRoot, ReadChild, SeedFromSitemap, Seed, Leasing, Fetching, Crawl
    <3> QED BY <3>1, <3>2 DEF settingVars
  <2>3. CASE Ending
    <3>1. UNCHANGED <<cli, config>> /\ place \in {"crawl", "drop", "save", "report"}
      BY <2>3 DEF Ending, settingVars
    <3>2. \/ UNCHANGED history /\ place' \in {"exited", "drop", "save", place}
          \/ place = "save" /\ Save
      BY <2>3, Zenon DEF Ending, Finish, Drop, Report, Exit
    <3>3. Save => /\ place' \in {"report", "exited"}
                  /\ UNCHANGED history \/ history' = Append(history, Record)
      BY Zenon DEF Save, Exit
    <3> QED BY <3>1, <3>2, <3>3
  <2>4. CASE Signals
    <3>1. UNCHANGED <<cli, config, history>>
      BY <2>4 DEF Signals, settingVars
    <3>2. UNCHANGED place \/ (place # "exited" /\ place' = "exited")
      BY <2>4, Zenon DEF Signals, Press, Handle, Exit
    <3> QED BY <3>1, <3>2
  <2> QED BY <2>1, <2>2, <2>3, <2>4 DEF BatchNext, Working
<1>2. CASE UNCHANGED history
  BY <1>1, <1>2 DEF RunKept
<1>3. CASE place = "save" /\ history' = Append(history, Record)
  <2>1. PICK r : r = Record
    OBVIOUS
  <2>2. r.job = TemplateFromCli(cli)
    BY <2>1 DEF Record
  <2>3. history' = <<r>>
    BY <1>3, <2>1 DEF IInv, Unrecorded
  <2>4. \A i \in DOMAIN history' : history'[i].job = TemplateFromCli(cli)
    BY <2>2, <2>3
  <2>5. place' # "start" /\ Accepts(cli) /\ config = ToConfig(cli) /\ config' = config
    BY <1>1, <1>3 DEF RunKept
  <2> QED BY <1>1, <2>3, <2>4, <2>5 DEF RunKept
<1> QED BY <1>1, <1>2, <1>3

LEMMA EditStep == IInv /\ RunKept /\ FormKept /\ [Next]_vars => RunKept' /\ FormKept'
<1> SUFFICES ASSUME IInv, RunKept, FormKept, [Next]_vars PROVE RunKept' /\ FormKept'
  OBVIOUS
<1>1. ASSUME UNCHANGED cli, history # <<>> => history' # <<>>,
             UNCHANGED <<edited, form, error, touched, asked, started>>,
             UNCHANGED dashboard \/ (dashboard = "closed" /\ dashboard' = "idle")
      PROVE  FormKept'
  <2>1. Initial' = Initial
    BY <1>1 DEF Initial
  <2> QED BY <1>1, <2>1 DEF FormKept
<1>2. ASSUME UNCHANGED <<cli, history, config, place>> PROVE RunKept'
  BY <1>2 DEF RunKept
<1>3. CASE BatchNext /\ UNCHANGED formVars
  BY <1>1, <1>3, BatchSteps DEF formVars
<1>4. CASE OpenControlCenter
  <2>1. /\ UNCHANGED <<cli, history, config, place, edited, form, error, touched, asked, started>>
        /\ dashboard = "closed" /\ dashboard' = "idle"
    BY <1>4 DEF OpenControlCenter, Forget
  <2> QED BY <1>1, <1>2, <2>1
<1>5. CASE FormNext(history) /\ UNCHANGED batchVars
  BY <1>2, <1>5, FormStep DEF batchVars
<1>6. CASE UNCHANGED vars
  BY <1>1, <1>2, <1>6 DEF vars, batchVars, formVars
<1> QED BY <1>3, <1>4, <1>5, <1>6 DEF Next, Over

\* What the form and the command line agree on, in the terms of the property.
LEMMA EditKept ==
    ASSUME RunKept, FormKept, edited # None
    PROVE  /\ touched = {} => ~error /\ dashboard # "failed"
           /\ started # None =>
                /\ \A f \in DOMAIN Setting \ touched : started[Setting[f]] = config[Setting[f]]
                /\ "target" \notin touched =>
                       started.seeds = <<ParseUrl[Trim[Head(cli.seeds \o cli.sitemap)]]>>
<1>1. /\ cli \in CommandLine /\ cli.seeds \o cli.sitemap # <<>>
      /\ Accepts(cli) /\ config = ToConfig(cli)
  BY BatchAssumption DEF RunKept, FormKept
<1>2. ASSUME touched = {} PROVE ~error /\ dashboard # "failed"
  <2>1. PICK kept : kept = FromJob(Deserialize(TemplateFromCli(cli))) /\ kept \in KeptSpecs(cli)
    BY DEF KeptSpecs
  <2>2. PICK spec, rerun : spec = ToSpec(FromSpec(kept)) /\ rerun = FromDashboard(spec)
    OBVIOUS
  <2>3. spec # None /\ rerun # None
    BY <1>1, <2>1, <2>2, EditsAreAccepted, Zenon
  <2>4. ToSpec(form) = spec
    BY <1>2, <2>1, <2>2 DEF FormKept, Initial
  <2> QED BY <2>2, <2>3, <2>4 DEF FormKept
<1>3. ASSUME started # None
      PROVE  /\ \A f \in DOMAIN Setting \ touched : started[Setting[f]] = config[Setting[f]]
             /\ "target" \notin touched =>
                    started.seeds = <<ParseUrl[Trim[Head(cli.seeds \o cli.sitemap)]]>>
  <2>1. started = FromDashboard(ToSpec(form)) /\ ToSpec(form) # None
    BY <1>3 DEF FormKept
  <2>2. Fillable(form)
    BY <2>1, Zenon DEF ToSpec
  <2>3. KeepsUntouched(form, Initial, cli, config, started)
    BY <1>1, <1>3, <2>1, <2>2, UntouchedLimits, Zenon DEF Initial
  <2>4. \A f \in FormFields \ touched : form[f] = Initial[f]
    BY DEF FormKept
  <2>5. /\ "max_pages" \notin touched => started.max_pages = config.max_pages
        /\ "depth" \notin touched => started.max_depth = config.max_depth
        /\ "concurrency" \notin touched => started.concurrency = config.concurrency
        /\ "scope" \notin touched => started.scope = config.scope
        /\ "delay" \notin touched => started.per_host_delay = config.per_host_delay
        /\ "target" \notin touched =>
               started.seeds = <<ParseUrl[Trim[Head(cli.seeds \o cli.sitemap)]]>>
    BY <2>3, <2>4 DEF FormFields, KeepsUntouched
  <2>6. "robots_delay" \notin touched =>
            started.respect_crawl_delay = config.respect_crawl_delay
    BY <2>3, <2>4, Zenon DEF FormFields, KeepsUntouched
  <2>7. ASSUME NEW f \in DOMAIN Setting \ touched
        PROVE  started[Setting[f]] = config[Setting[f]]
    <3>1. f \in {"max_pages", "depth", "concurrency", "scope", "delay", "robots_delay"} /\ f \notin touched
      BY DEF Setting
    <3>2. /\ Setting["max_pages"] = "max_pages" /\ Setting["depth"] = "max_depth"
          /\ Setting["concurrency"] = "concurrency" /\ Setting["scope"] = "scope"
          /\ Setting["delay"] = "per_host_delay"
          /\ Setting["robots_delay"] = "respect_crawl_delay"
      BY DEF Setting
    <3>3. f \in {"max_pages", "depth", "concurrency"} => started[Setting[f]] = config[Setting[f]]
      BY <2>5, <3>1, <3>2, Zenon
    <3>4. f \in {"scope", "delay"} => started[Setting[f]] = config[Setting[f]]
      BY <2>5, <3>1, <3>2, Zenon
    <3>5. f = "robots_delay" => started[Setting[f]] = config[Setting[f]]
      BY <2>6, <3>1, <3>2, Zenon
    <3> QED BY <3>1, <3>3, <3>4, <3>5
  <2> QED BY <2>5, <2>7
<1> QED BY <1>2, <1>3

(* Editing a recorded job without changing it runs the same crawl again,    *)
(* and a limit left alone is the limit it had, for any settings that the    *)
(* command line accepts, any texts the user types and any number of edits   *)
(* (progress.rs, jobs.rs, main.rs).                                         *)
THEOREM EditRunsTheSameHolds == Spec => []EditRunsTheSame
<1>1. Init => RunKept /\ FormKept
  BY RunInit, FormInit_
<1>2. RunKept /\ FormKept => EditRunsTheSame
  <2> SUFFICES ASSUME RunKept, FormKept PROVE EditRunsTheSame
    OBVIOUS
  <2>1. ASSUME started # None PROVE started.respect_robots
    <3>1. started = FromDashboard(asked)
      BY <2>1 DEF FormKept
    <3>2. started.respect_robots = TRUE
      BY <2>1, <3>1, DashboardFields, Zenon
    <3> QED BY <3>2
  <2> QED BY <2>1, EditKept DEF EditRunsTheSame
<1> QED BY <1>1, <1>2, EditStep, InitInv, StepInv, PTL DEF Spec

-----------------------------------------------------------------------------
(* What is read in a sitemap: the library's fold of S!After over its events *)
(* unfolds, event by event.                                                 *)

(* Induction on the natural numbers, for a set instead of an operator: the  *)
(* least number that is not in it would follow one that is.                 *)
LEMMA NatSetInduction ==
    ASSUME NEW K \in SUBSET Nat, 0 \in K, \A n \in K : n + 1 \in K
    PROVE  K = Nat
<1> SUFFICES ASSUME Nat \ K # {} PROVE FALSE
  OBVIOUS
<1>1. PICK m \in Nat \ K : \A n \in Nat \ K : ~(<<n, m>> \in OpToRel(<, Nat))
  BY NatLessThanWellFounded, WFMin
<1>2. \A n \in Nat \ K : ~(n < m)
  BY <1>1 DEF OpToRel
<1>3. m - 1 \in Nat /\ m - 1 < m
  OBVIOUS
<1> QED BY <1>2, <1>3

Parsed(events) == S!FoldLeft(S!After, S!Empty, events)

\* The recursive function inside the fold.
IsParse(g, events) ==
    g = [T \in SUBSET DOMAIN events |->
           IF T = {} THEN S!Empty ELSE S!After(g[T \ {S!Max(T)}], events[S!Max(T)])]

ParseOf(events) == CHOOSE g : IsParse(g, events)

LEMMA FoldIsParse == ASSUME NEW events PROVE Parsed(events) = ParseOf(events)[DOMAIN events]
BY DEF Parsed, S!FoldLeft, S!MapThenFoldSet, ParseOf, IsParse

LEMMA MaxIsLast ==
    ASSUME NEW n \in Nat, NEW T \in SUBSET (1..(n + 1)), n + 1 \in T
    PROVE  S!Max(T) = n + 1 /\ T \ {S!Max(T)} \in SUBSET (1..n)
<1>1. \A x \in T : x \in 1..(n + 1)
  OBVIOUS
<1>2. \A x \in T : (\A y \in T : x >= y) <=> x = n + 1
  BY <1>1
<1>3. S!Max(T) = n + 1
  BY <1>2 DEF S!Max
<1> QED BY <1>3

(* The recursion has a solution: one for the sets of the first n positions  *)
(* extends to those with the position after them.                           *)
LEMMA ParseExists ==
    ASSUME NEW events, NEW len \in Nat, DOMAIN events = 1..len
    PROVE  \E g : IsParse(g, events)
<1> DEFINE Term(g, T) == IF T = {} THEN S!Empty
                         ELSE S!After(g[T \ {S!Max(T)}], events[S!Max(T)])
           Partial(g, n) == g = [T \in SUBSET (1..n) |-> Term(g, T)]
           K == {n \in Nat : \E g : Partial(g, n)}
<1>1. 0 \in K
  <2>1. \A T \in SUBSET (1..0) : T = {}
    OBVIOUS
  <2>2. \A g, T : T = {} => Term(g, T) = S!Empty
    OBVIOUS
  <2>3. Partial([T \in SUBSET (1..0) |-> S!Empty], 0)
    <3> HIDE DEF Term
    <3> QED BY <2>1, <2>2
  <2> QED BY <2>3
<1>2. ASSUME NEW n \in K PROVE n + 1 \in K
  <2>1. PICK g : Partial(g, n)
    OBVIOUS
  <2> DEFINE h == [T \in SUBSET (1..(n + 1)) |-> Term(g, T)]
  <2>2. \A T \in SUBSET (1..n) : T \in SUBSET (1..(n + 1)) /\ h[T] = g[T]
    <3>1. \A T \in SUBSET (1..n) : T \in SUBSET (1..(n + 1))
      OBVIOUS
    <3>2. \A T \in SUBSET (1..n) : g[T] = Term(g, T)
      <4> HIDE DEF Term
      <4> QED BY <2>1
    <3> HIDE DEF Term
    <3> QED BY <3>1, <3>2
  <2>3. \A T \in SUBSET (1..(n + 1)) : T # {} => T \ {S!Max(T)} \in SUBSET (1..n)
    <3> SUFFICES ASSUME NEW T \in SUBSET (1..(n + 1)), T # {} PROVE T \ {S!Max(T)} \in SUBSET (1..n)
      OBVIOUS
    <3>1. CASE n + 1 \in T
      BY <3>1, MaxIsLast
    <3>2. CASE n + 1 \notin T
      <4>1. T \in SUBSET (1..n)
        BY <3>2
      <4> QED BY <4>1
    <3> QED BY <3>1, <3>2
  <2>4. \A T \in SUBSET (1..(n + 1)) : Term(g, T) = Term(h, T)
    BY <2>2, <2>3
  <2>5. Partial(h, n + 1)
    <3> HIDE DEF Term
    <3> QED BY <2>4
  <2>6. n + 1 \in Nat /\ \E k : Partial(k, n + 1)
    <3> HIDE DEF Partial, h
    <3> QED BY <2>5
  <2> QED BY <2>6
<1>3. K = Nat
  <2> HIDE DEF K
  <2>1. K \in SUBSET Nat
    BY DEF K
  <2> QED BY <1>1, <1>2, <2>1, NatSetInduction
<1>4. len \in K
  <2> HIDE DEF K
  <2> QED BY <1>3
<1>5. PICK g : Partial(g, len)
  BY <1>4
<1>6. g = [T \in SUBSET DOMAIN events |-> Term(g, T)]
  <2> HIDE DEF Term
  <2> QED BY <1>5
<1> QED BY <1>6 DEF IsParse

\* What is known after the first n events.
ParsedUpto(events, n) == ParseOf(events)[1..n]

LEMMA ParseUnfolds ==
    ASSUME NEW events, NEW len \in Nat, DOMAIN events = 1..len
    PROVE  /\ Parsed(events) = ParsedUpto(events, len)
           /\ ParsedUpto(events, 0) = S!Empty
           /\ \A n \in 0..(len - 1) :
                  ParsedUpto(events, n + 1) = S!After(ParsedUpto(events, n), events[n + 1])
<1>1. IsParse(ParseOf(events), events)
  BY ParseExists DEF ParseOf
<1>2. \A T \in SUBSET DOMAIN events :
        ParseOf(events)[T] = IF T = {} THEN S!Empty
                             ELSE S!After(ParseOf(events)[T \ {S!Max(T)}], events[S!Max(T)])
  BY <1>1 DEF IsParse
<1>3. Parsed(events) = ParsedUpto(events, len)
  BY FoldIsParse DEF ParsedUpto
<1>4. ParsedUpto(events, 0) = S!Empty
  <2>1. 1..0 = {} /\ {} \in SUBSET DOMAIN events
    OBVIOUS
  <2> QED BY <1>2, <2>1 DEF ParsedUpto
<1>5. ASSUME NEW n \in 0..(len - 1)
      PROVE  ParsedUpto(events, n + 1) = S!After(ParsedUpto(events, n), events[n + 1])
  <2> DEFINE T == 1..(n + 1)
  <2>1. T \in SUBSET DOMAIN events /\ T \in SUBSET (1..(n + 1)) /\ T # {} /\ n + 1 \in T /\ n \in Nat
    OBVIOUS
  <2>2. S!Max(T) = n + 1
    BY <2>1, MaxIsLast
  <2>3. T \ {n + 1} = 1..n
    BY <2>1
  <2>4. ParseOf(events)[T] = S!After(ParseOf(events)[T \ {S!Max(T)}], events[S!Max(T)])
    <3> HIDE DEF T
    <3> QED BY <1>2, <2>1
  <2> QED BY <2>2, <2>3, <2>4 DEF ParsedUpto
<1> QED BY <1>3, <1>4, <1>5

LEMMA EventKinds ==
    ASSUME NEW e \in Event
    PROVE  \/ e.kind = "start" /\ e.name # None /\ e = S!Start(e.name)
           \/ e.kind = "end" /\ e.name # None /\ e = S!End(e.name)
           \/ e.kind = "text" /\ e = S!Content(e.url) /\ e.url \in Url \cup {None}
           \/ e.kind \in {"other", "error"} /\ e.name = None
BY UrlsAssumption DEF Event, S!Start, S!End, S!Content

LEMMA TagsDiffer ==
    /\ \A m, n : S!Start(m) # S!End(n)
    /\ \A m, n : S!Start(m) = S!Start(n) => m = n
    /\ \A m, n : S!End(m) = S!End(n) => m = n
    /\ \A m : S!Start(m).kind = "start" /\ S!End(m).kind = "end"
<1>1. \A m : /\ S!Start(m).kind = "start" /\ S!End(m).kind = "end"
             /\ S!Start(m).name = m /\ S!End(m).name = m
  BY DEF S!Start, S!End
<1> QED BY <1>1

\* A state of parse: its two flags, the pages and the sitemaps.
Parser(a, b, p, q) == [in_loc |-> a, in_sitemap_entry |-> b, pages |-> p, sitemaps |-> q]

LEMMA OpenStep ==
    ASSUME NEW a \in BOOLEAN, NEW b \in BOOLEAN, NEW p, NEW q, NEW name
    PROVE  \E c, d \in BOOLEAN :
             /\ S!Opened(Parser(a, b, p, q), name) = Parser(c, d, p, q)
             /\ c <=> (name = "loc" \/ a)
             /\ d => (name = "sitemap" \/ b)
<1>1. CASE name = "loc"
  <2>1. S!Opened(Parser(a, b, p, q), name) = Parser(TRUE, b, p, q)
    BY <1>1 DEF S!Opened, Parser
  <2> QED BY <1>1, <2>1
<1>2. CASE name = "sitemap"
  <2>1. S!Opened(Parser(a, b, p, q), name) = Parser(a, TRUE, p, q)
    BY <1>2 DEF S!Opened, Parser
  <2> QED BY <1>2, <2>1
<1>3. CASE name = "url"
  <2>1. S!Opened(Parser(a, b, p, q), name) = Parser(a, FALSE, p, q)
    BY <1>3 DEF S!Opened, Parser
  <2> QED BY <1>3, <2>1
<1>4. CASE name \notin {"loc", "sitemap", "url"}
  <2>1. S!Opened(Parser(a, b, p, q), name) = Parser(a, b, p, q)
    BY <1>4 DEF S!Opened
  <2> QED BY <1>4, <2>1
<1> QED BY <1>1, <1>2, <1>3, <1>4

LEMMA CloseStep ==
    ASSUME NEW a \in BOOLEAN, NEW b \in BOOLEAN, NEW p, NEW q, NEW name
    PROVE  \E c, d \in BOOLEAN :
             /\ S!Closed(Parser(a, b, p, q), name) = Parser(c, d, p, q)
             /\ c <=> (name # "loc" /\ a)
             /\ d => (name # "sitemap" /\ b)
<1>1. CASE name = "loc"
  <2>1. S!Closed(Parser(a, b, p, q), name) = Parser(FALSE, b, p, q)
    BY <1>1 DEF S!Closed, Parser
  <2> QED BY <1>1, <2>1
<1>2. CASE name = "sitemap"
  <2>1. S!Closed(Parser(a, b, p, q), name) = Parser(a, FALSE, p, q)
    BY <1>2 DEF S!Closed, Parser
  <2> QED BY <1>2, <2>1
<1>3. CASE name \notin {"loc", "sitemap"}
  <2>1. S!Closed(Parser(a, b, p, q), name) = Parser(a, b, p, q)
    BY <1>3 DEF S!Closed
  <2> QED BY <1>3, <2>1
<1> QED BY <1>1, <1>2, <1>3

LEMMA TextStep ==
    ASSUME NEW a \in BOOLEAN, NEW b \in BOOLEAN, NEW p, NEW q, NEW url,
           NEW t, t = S!Located(Parser(a, b, p, q), url)
    PROVE  /\ ~a \/ url = None => t = Parser(a, b, p, q)
           /\ a /\ url # None /\ b => t = Parser(a, b, p, Append(q, url))
           /\ a /\ url # None /\ ~b => t = Parser(a, b, Append(p, url), q)
<1>1. CASE ~a \/ url = None
  BY <1>1 DEF S!Located, Parser
<1>2. CASE a /\ url # None /\ b
  BY <1>2 DEF S!Located, Parser
<1>3. CASE a /\ url # None /\ ~b
  BY <1>3 DEF S!Located, Parser
<1> QED BY <1>1, <1>2, <1>3

\* What one event adds to the pages, within a loc and outside an index entry.
NamesPage(e, a, b) == e.kind = "text" /\ e.url # None /\ a /\ ~b

\* What becomes of flags and pages with the event e.
Follows(e, a, b, p, q) ==
    \E c, d \in BOOLEAN, r, t \in Seq(Url) :
        /\ S!After(Parser(a, b, p, q), e) = Parser(c, d, r, t)
        /\ c <=> (e = S!Start("loc") \/ (a /\ e # S!End("loc")))
        /\ d => (e = S!Start("sitemap") \/ (b /\ e # S!End("sitemap")))
        /\ r = IF NamesPage(e, a, b) THEN Append(p, e.url) ELSE p

LEMMA EventStep ==
    ASSUME NEW e \in Event,
           NEW a \in BOOLEAN, NEW b \in BOOLEAN, NEW p \in Seq(Url), NEW q \in Seq(Url)
    PROVE  Follows(e, a, b, p, q)
<1>1. CASE e.kind = "start" /\ e = S!Start(e.name)
  <2>1. S!After(Parser(a, b, p, q), e) = S!Opened(Parser(a, b, p, q), e.name)
    BY <1>1 DEF S!After
  <2>2. PICK c, d \in BOOLEAN : /\ S!Opened(Parser(a, b, p, q), e.name) = Parser(c, d, p, q)
                                /\ c <=> (e.name = "loc" \/ a)
                                /\ d => (e.name = "sitemap" \/ b)
    BY OpenStep
  <2>3. \A n : (e = S!Start(n) <=> e.name = n) /\ e # S!End(n)
    BY <1>1, TagsDiffer
  <2>4. ~NamesPage(e, a, b)
    BY <1>1 DEF NamesPage
  <2> QED BY <2>1, <2>2, <2>3, <2>4 DEF Follows
<1>2. CASE e.kind = "end" /\ e = S!End(e.name)
  <2>1. S!After(Parser(a, b, p, q), e) = S!Closed(Parser(a, b, p, q), e.name)
    BY <1>2 DEF S!After
  <2>2. PICK c, d \in BOOLEAN : /\ S!Closed(Parser(a, b, p, q), e.name) = Parser(c, d, p, q)
                                /\ c <=> (e.name # "loc" /\ a)
                                /\ d => (e.name # "sitemap" /\ b)
    BY CloseStep
  <2>3. \A n : (e = S!End(n) <=> e.name = n) /\ e # S!Start(n)
    BY <1>2, TagsDiffer
  <2>4. ~NamesPage(e, a, b)
    BY <1>2 DEF NamesPage
  <2> QED BY <2>1, <2>2, <2>3, <2>4 DEF Follows
<1>3. CASE e.kind \in {"text", "other", "error"} /\ e.url \in Url \cup {None}
  <2>1. \A n : e # S!Start(n) /\ e # S!End(n)
    BY <1>3, TagsDiffer
  <2>2. CASE e.kind # "text"
    <3>1. S!After(Parser(a, b, p, q), e) = Parser(a, b, p, q)
      BY <1>3, <2>2 DEF S!After
    <3>2. ~NamesPage(e, a, b)
      BY <2>2 DEF NamesPage
    <3> QED BY <2>1, <3>1, <3>2 DEF Follows
  <2>3. CASE e.kind = "text"
    <3>1. PICK u : u = S!After(Parser(a, b, p, q), e) /\ u = S!Located(Parser(a, b, p, q), e.url)
      BY <2>3 DEF S!After
    <3> PICK url : url = e.url
      OBVIOUS
    <3>6. u = S!Located(Parser(a, b, p, q), url)
      BY <3>1
    <3>5. /\ ~a \/ url = None => u = Parser(a, b, p, q)
          /\ a /\ url # None /\ b => u = Parser(a, b, p, Append(q, url))
          /\ a /\ url # None /\ ~b => u = Parser(a, b, Append(p, url), q)
      BY <3>6, TextStep
    <3>2. CASE ~a \/ e.url = None
      <4>1. S!After(Parser(a, b, p, q), e) = Parser(a, b, p, q)
        BY <3>1, <3>2, <3>5
      <4>2. ~NamesPage(e, a, b)
        BY <3>2 DEF NamesPage
      <4> QED BY <2>1, <4>1, <4>2 DEF Follows
    <3>3. CASE a /\ e.url # None /\ b
      <4>1. S!After(Parser(a, b, p, q), e) = Parser(a, b, p, Append(q, e.url))
        BY <3>1, <3>3, <3>5
      <4>2. Append(q, e.url) \in Seq(Url)
        BY <1>3, <3>3
      <4>3. ~NamesPage(e, a, b)
        BY <3>3 DEF NamesPage
      <4> QED BY <2>1, <4>1, <4>2, <4>3 DEF Follows
    <3>4. CASE a /\ e.url # None /\ ~b
      <4>1. S!After(Parser(a, b, p, q), e) = Parser(a, b, Append(p, e.url), q)
        BY <3>1, <3>4, <3>5
      <4>2. Append(p, e.url) \in Seq(Url)
        BY <1>3, <3>4
      <4>3. NamesPage(e, a, b)
        BY <2>3, <3>4 DEF NamesPage
      <4> QED BY <2>1, <4>1, <4>2, <4>3 DEF Follows
    <3> QED BY <3>2, <3>3, <3>4
  <2> QED BY <2>2, <2>3
<1>4. e.url \in Url \cup {None}
  BY DEF Event
<1> QED BY <1>1, <1>2, <1>3, <1>4, EventKinds

LEMMA ElementsOfAppend ==
    ASSUME NEW T, NEW p \in Seq(T), NEW x \in T
    PROVE  Elements(Append(p, x)) = Elements(p) \cup {x}
<1> PICK c : c = Append(p, x)
  OBVIOUS
<1>1. /\ Len(p) \in Nat /\ DOMAIN p = 1..Len(p) /\ DOMAIN c = 1..(Len(p) + 1)
      /\ \A i \in 1..Len(p) : c[i] = p[i]
      /\ c[Len(p) + 1] = x
  <2>1. c \in Seq(T) /\ Len(c) = Len(p) + 1
    BY AppendProperties
  <2> QED BY <2>1, AppendProperties
<1> QED BY <1>1 DEF Elements

LEMMA ElementsOfConcat ==
    ASSUME NEW T, NEW p \in Seq(T), NEW q \in Seq(T)
    PROVE  Elements(p \o q) = Elements(p) \cup Elements(q)
<1> PICK c : c = p \o q
  OBVIOUS
<1>1. /\ Len(p) \in Nat /\ Len(q) \in Nat
      /\ DOMAIN p = 1..Len(p) /\ DOMAIN q = 1..Len(q)
      /\ DOMAIN c = 1..(Len(p) + Len(q))
      /\ \A i \in 1..(Len(p) + Len(q)) : c[i] = IF i <= Len(p) THEN p[i] ELSE q[i - Len(p)]
  OBVIOUS
<1>2. \A i \in DOMAIN p : c[i] = p[i] /\ i \in DOMAIN c
  BY <1>1
<1>3. \A i \in DOMAIN q : c[i + Len(p)] = q[i] /\ i + Len(p) \in DOMAIN c
  BY <1>1
<1>4. \A i \in DOMAIN c : \/ i \in DOMAIN p /\ c[i] = p[i]
                          \/ i - Len(p) \in DOMAIN q /\ c[i] = q[i - Len(p)]
  <2> SUFFICES ASSUME NEW i \in DOMAIN c
               PROVE  \/ i \in DOMAIN p /\ c[i] = p[i]
                      \/ i - Len(p) \in DOMAIN q /\ c[i] = q[i - Len(p)]
    OBVIOUS
  <2>1. CASE i <= Len(p)
    BY <1>1, <2>1
  <2>2. CASE ~(i <= Len(p))
    BY <1>1, <2>2
  <2> QED BY <2>1, <2>2
<1>5. \A x \in Elements(c) : x \in Elements(p) \cup Elements(q)
  BY <1>4 DEF Elements
<1>6. \A x \in Elements(p) \cup Elements(q) : x \in Elements(c)
  BY <1>2, <1>3 DEF Elements
<1> QED BY <1>5, <1>6

LEMMA InsideStep ==
    ASSUME NEW events, NEW name, NEW n \in Nat
    PROVE  /\ ~S!Inside(events, name, 0)
           /\ S!Inside(events, name, n + 1) <=>
                \/ events[n + 1] = S!Start(name)
                \/ S!Inside(events, name, n) /\ events[n + 1] # S!End(name)
<1>1. ~S!Inside(events, name, 0)
  BY DEF S!Inside
<1>2. ASSUME S!Inside(events, name, n + 1)
      PROVE  \/ events[n + 1] = S!Start(name)
             \/ S!Inside(events, name, n) /\ events[n + 1] # S!End(name)
  <2>1. PICK j \in 1..(n + 1) : /\ events[j] = S!Start(name)
                                /\ \A k \in j..(n + 1) : events[k] # S!End(name)
    BY <1>2 DEF S!Inside
  <2>2. CASE j = n + 1
    BY <2>1, <2>2
  <2>3. CASE j # n + 1
    <3>1. j \in 1..n /\ n + 1 \in j..(n + 1) /\ \A k \in j..n : k \in j..(n + 1)
      BY <2>3
    <3> QED BY <2>1, <3>1 DEF S!Inside
  <2> QED BY <2>2, <2>3
<1>3. ASSUME events[n + 1] = S!Start(name) PROVE S!Inside(events, name, n + 1)
  <2>1. n + 1 \in 1..(n + 1) /\ \A k \in (n + 1)..(n + 1) : k = n + 1
    OBVIOUS
  <2> QED BY <1>3, <2>1, TagsDiffer DEF S!Inside
<1>4. ASSUME S!Inside(events, name, n), events[n + 1] # S!End(name)
      PROVE  S!Inside(events, name, n + 1)
  <2>1. PICK j \in 1..n : /\ events[j] = S!Start(name)
                          /\ \A k \in j..n : events[k] # S!End(name)
    BY <1>4 DEF S!Inside
  <2>2. j \in 1..(n + 1) /\ \A k \in j..(n + 1) : k \in j..n \/ k = n + 1
    OBVIOUS
  <2> QED BY <1>4, <2>1, <2>2 DEF S!Inside
<1> QED BY <1>1, <1>2, <1>3, <1>4

\* The flags and the pages after n events, by the elements they lie in.
ParsedWell(events, n) ==
    \E a, b \in BOOLEAN, p, q \in Seq(Url) :
        /\ ParsedUpto(events, n) = Parser(a, b, p, q)
        /\ a <=> S!Inside(events, "loc", n)
        /\ b => S!Inside(events, "sitemap", n)
        /\ \A x \in Elements(p) : \E i \in 1..n : S!Located_(events, i) /\ events[i].url = x
        /\ \A i \in 1..n :
               S!Located_(events, i) /\ ~S!Inside(events, "sitemap", i) => events[i].url \in Elements(p)

LEMMA ParsedWellStep ==
    ASSUME NEW events \in Seq(Event), NEW n \in Nat, n < Len(events), ParsedWell(events, n)
    PROVE  ParsedWell(events, n + 1)
<1>1. PICK a, b \in BOOLEAN, p, q \in Seq(Url) :
        /\ ParsedUpto(events, n) = Parser(a, b, p, q)
        /\ a <=> S!Inside(events, "loc", n)
        /\ b => S!Inside(events, "sitemap", n)
        /\ \A x \in Elements(p) : \E i \in 1..n : S!Located_(events, i) /\ events[i].url = x
        /\ \A i \in 1..n :
               S!Located_(events, i) /\ ~S!Inside(events, "sitemap", i) => events[i].url \in Elements(p)
  BY DEF ParsedWell
<1>2. PICK e \in Event : e = events[n + 1]
  BY ElementOfSeq
<1>3. PICK c, d \in BOOLEAN, r, t \in Seq(Url) :
        /\ S!After(Parser(a, b, p, q), e) = Parser(c, d, r, t)
        /\ c <=> (e = S!Start("loc") \/ (a /\ e # S!End("loc")))
        /\ d => (e = S!Start("sitemap") \/ (b /\ e # S!End("sitemap")))
        /\ r = IF NamesPage(e, a, b) THEN Append(p, e.url) ELSE p
  <2>1. Follows(e, a, b, p, q)
    BY EventStep
  <2> QED BY <2>1, Zenon DEF Follows
<1>4. ParsedUpto(events, n + 1) = Parser(c, d, r, t)
  <2>1. Len(events) \in Nat /\ DOMAIN events = 1..Len(events) /\ n \in 0..(Len(events) - 1)
    OBVIOUS
  <2> QED BY <1>1, <1>2, <1>3, <2>1, ParseUnfolds
<1>5. c <=> S!Inside(events, "loc", n + 1)
  BY <1>1, <1>2, <1>3, InsideStep
<1>6. d => S!Inside(events, "sitemap", n + 1)
  BY <1>1, <1>2, <1>3, InsideStep
<1>7. e.kind = "text" => \A name : S!Inside(events, name, n + 1) <=> S!Inside(events, name, n)
  BY <1>2, InsideStep, TagsDiffer
<1>8. Elements(r) = IF NamesPage(e, a, b) THEN Elements(p) \cup {e.url} ELSE Elements(p)
  <2>1. NamesPage(e, a, b) => e.url \in Url
    BY DEF Event, NamesPage
  <2>2. CASE NamesPage(e, a, b)
    <3>1. PICK url \in Url : url = e.url
      BY <2>1, <2>2
    <3>2. r = Append(p, url)
      BY <1>3, <2>2, <3>1
    <3> QED BY <2>2, <3>1, <3>2, ElementsOfAppend
  <2>3. CASE ~NamesPage(e, a, b)
    BY <1>3, <2>3
  <2> QED BY <2>2, <2>3
<1>9. NamesPage(e, a, b) => S!Located_(events, n + 1) /\ events[n + 1].url = e.url
  BY <1>1, <1>2, <1>7 DEF NamesPage, S!Located_
<1>10. S!Located_(events, n + 1) /\ ~S!Inside(events, "sitemap", n + 1) => NamesPage(e, a, b)
  BY <1>1, <1>2, <1>7 DEF NamesPage, S!Located_
<1>11. \A i \in 1..(n + 1) : i \in 1..n \/ i = n + 1
  OBVIOUS
<1>12. \A x \in Elements(r) : \E i \in 1..(n + 1) : S!Located_(events, i) /\ events[i].url = x
  <2>1. \A i \in 1..n : i \in 1..(n + 1)
    OBVIOUS
  <2>2. n + 1 \in 1..(n + 1)
    OBVIOUS
  <2> QED BY <1>1, <1>8, <1>9, <2>1, <2>2
<1>13. \A i \in 1..(n + 1) :
         S!Located_(events, i) /\ ~S!Inside(events, "sitemap", i) => events[i].url \in Elements(r)
  BY <1>1, <1>2, <1>8, <1>10, <1>11
<1> QED BY <1>4, <1>5, <1>6, <1>12, <1>13 DEF ParsedWell

\* A sitemap that is parsed: nothing but what its locs name, and every page they name.
LEMMA ParsedAll ==
    ASSUME NEW events \in Seq(Event), NEW sitemap, sitemap = Parsed(events)
    PROVE  /\ sitemap.pages \in Seq(Url) /\ sitemap.sitemaps \in Seq(Url)
           /\ Elements(sitemap.pages) \subseteq S!Advertised(events)
           /\ S!AdvertisedPages(events) \subseteq Elements(sitemap.pages)
<1> DEFINE K == {n \in Nat : n <= Len(events) => ParsedWell(events, n)}
<1>1. DOMAIN events = 1..Len(events) /\ Len(events) \in Nat
  OBVIOUS
<1>2. ParsedWell(events, 0)
  <2>1. ParsedUpto(events, 0) = Parser(FALSE, FALSE, <<>>, <<>>)
    <3>1. ParsedUpto(events, 0) = S!Empty
      BY <1>1, ParseUnfolds
    <3> QED BY <3>1 DEF S!Empty, Parser
  <2>2. Elements(<<>>) = {} /\ <<>> \in Seq(Url)
    BY DEF Elements
  <2>3. 1..0 = {}
    OBVIOUS
  <2>4. ~S!Inside(events, "loc", 0) /\ ~S!Inside(events, "sitemap", 0)
    BY InsideStep
  <2>5. PICK a, b \in BOOLEAN, p \in Seq(Url) : a = FALSE /\ b = FALSE /\ p = <<>>
    BY <2>2
  <2> QED BY <2>1, <2>2, <2>3, <2>4, <2>5 DEF ParsedWell
<1>3. ASSUME NEW n \in K PROVE n + 1 \in K
  BY <1>1, ParsedWellStep
<1>4. Len(events) \in K
  <2>1. 0 \in K /\ K \in SUBSET Nat
    BY <1>2
  <2>2. K = Nat
    <3> HIDE DEF K
    <3> QED BY <1>3, <2>1, NatSetInduction
  <2> QED BY <1>1, <2>2
<1>5. ParsedWell(events, Len(events))
  BY <1>1, <1>4
<1>6. PICK a, b \in BOOLEAN, p, q \in Seq(Url) :
        /\ ParsedUpto(events, Len(events)) = Parser(a, b, p, q)
        /\ \A x \in Elements(p) : \E i \in 1..Len(events) : S!Located_(events, i) /\ events[i].url = x
        /\ \A i \in 1..Len(events) :
               S!Located_(events, i) /\ ~S!Inside(events, "sitemap", i) => events[i].url \in Elements(p)
  BY <1>5, Zenon DEF ParsedWell
<1>7. sitemap = Parser(a, b, p, q)
  BY <1>1, <1>6, ParseUnfolds
<1>8. sitemap.pages = p /\ sitemap.sitemaps = q
  BY <1>7 DEF Parser
<1>9. Elements(p) \subseteq S!Advertised(events)
  BY <1>1, <1>6 DEF S!Advertised, S!AdvertisedPages, S!AdvertisedSitemaps
<1>10. S!AdvertisedPages(events) \subseteq Elements(p)
  BY <1>1, <1>6 DEF S!AdvertisedPages
<1> QED BY <1>8, <1>9, <1>10

LEMMA LeastExists ==
    ASSUME NEW I \in SUBSET Nat, I # {}
    PROVE  S!Min(I) \in I
<1>1. PICK m \in I : \A n \in I : ~(<<n, m>> \in OpToRel(<, Nat))
  BY NatLessThanWellFounded, WFMin
<1>2. \A n \in I : ~(n < m)
  BY <1>1 DEF OpToRel
<1>3. \A n \in I : m =< n
  BY <1>2
<1> QED BY <1>3 DEF S!Min

LEMMA PrefixAdvertises ==
    ASSUME NEW events \in Seq(Event), NEW m \in 1..Len(events), NEW prefix,
           prefix = SubSeq(events, 1, m)
    PROVE  prefix \in Seq(Event) /\ S!Advertised(prefix) \subseteq S!Advertised(events)
<1>1. Len(events) \in Nat /\ DOMAIN events = 1..Len(events) /\ \A i \in 1..m : events[i] \in Event
  BY ElementOfSeq
<1>2. prefix \in Seq(Event) /\ DOMAIN prefix = 1..m /\ \A i \in 1..m : prefix[i] = events[i]
  <2>1. /\ prefix \in Seq(Event)
        /\ Len(prefix) = m
        /\ \A i \in 1..m : prefix[i] = events[1 + i - 1]
    BY <1>1, SubSeqProperties
  <2> QED BY <2>1
<1>3. \A i \in 1..m : S!Inside(prefix, "loc", i) => S!Inside(events, "loc", i)
  <2> SUFFICES ASSUME NEW i \in 1..m, S!Inside(prefix, "loc", i) PROVE S!Inside(events, "loc", i)
    OBVIOUS
  <2>1. PICK j \in 1..i : prefix[j] = S!Start("loc") /\ \A k \in j..i : prefix[k] # S!End("loc")
    BY DEF S!Inside
  <2>2. j \in 1..m /\ \A k \in j..i : k \in 1..m
    OBVIOUS
  <2> QED BY <1>2, <2>1, <2>2 DEF S!Inside
<1>4. \A i \in 1..m : S!Located_(prefix, i) => S!Located_(events, i)
  BY <1>2, <1>3 DEF S!Located_
<1>5. 1..m \subseteq DOMAIN events
  BY <1>1
<1>6. \A x \in S!Advertised(prefix) : \E i \in 1..m : S!Located_(prefix, i) /\ x = prefix[i].url
  BY <1>2 DEF S!Advertised, S!AdvertisedPages, S!AdvertisedSitemaps
<1>7. \A i \in DOMAIN events : S!Located_(events, i) => events[i].url \in S!Advertised(events)
  BY DEF S!Advertised, S!AdvertisedPages, S!AdvertisedSitemaps
<1> QED BY <1>2, <1>4, <1>5, <1>6, <1>7

LEMMA SitemapIsParsed ==
    ASSUME NEW events
    PROVE  S!Sitemap(events) =
             Parsed(IF S!Whole(events) THEN events
                    ELSE SubSeq(events, 1, S!SelectInSeq(events, LAMBDA e : e = S!Error)))
BY DEF S!Sitemap, Parsed

\* What parse returns: nothing but what the locs name, and every page that they name
\* if the XML could be read to its end.
LEMMA SitemapRead ==
    ASSUME NEW events \in Seq(Event), NEW sitemap, sitemap = S!Sitemap(events)
    PROVE  /\ sitemap.pages \in Seq(Url) /\ sitemap.sitemaps \in Seq(Url)
           /\ Elements(sitemap.pages) \subseteq S!Advertised(events)
           /\ S!Whole(events) => S!AdvertisedPages(events) \subseteq Elements(sitemap.pages)
<1>1. CASE S!Whole(events)
  BY <1>1, SitemapIsParsed, ParsedAll
<1>2. CASE ~S!Whole(events)
  <2> DEFINE I == {i \in 1..Len(events) : events[i] = S!Error}
  <2>1. PICK m : m = S!SelectInSeq(events, LAMBDA e : e = S!Error)
    OBVIOUS
  <2>2. Len(events) \in Nat /\ DOMAIN events = 1..Len(events)
    OBVIOUS
  <2>3. I # {}
    BY <1>2, <2>2 DEF S!Whole
  <2>4. m = S!Min(I)
    BY <2>1, <2>3 DEF S!SelectInSeq
  <2>5. m \in 1..Len(events)
    <3>1. I \in SUBSET Nat
      BY <2>2
    <3>2. m \in I
      <4> HIDE DEF I
      <4> QED BY <2>3, <2>4, <3>1, LeastExists
    <3> QED BY <3>2
  <2>6. PICK prefix : prefix = SubSeq(events, 1, m)
    OBVIOUS
  <2>7. prefix \in Seq(Event) /\ S!Advertised(prefix) \subseteq S!Advertised(events)
    BY <2>5, <2>6, PrefixAdvertises
  <2>8. sitemap = Parsed(prefix)
    BY <1>2, <2>1, <2>6, SitemapIsParsed
  <2> QED BY <1>2, <2>7, <2>8, ParsedAll
<1> QED BY <1>1, <1>2

LEMMA ChildrenAreUrls ==
    ASSUME NEW sitemap, sitemap.sitemaps \in Seq(Url)
    PROVE  S!Children(sitemap) \in Seq(Url)
<1> PICK q \in Seq(Url) : q = sitemap.sitemaps
  OBVIOUS
<1>1. Len(q) \in Nat /\ MaxSitemaps \in Nat
  BY BatchAssumption
<1>2. PICK m : m = S!Min({MaxSitemaps, Len(q)})
  OBVIOUS
<1>3. m \in Nat /\ m <= Len(q)
  <2>1. CASE MaxSitemaps <= Len(q)
    <3>1. \A x \in {MaxSitemaps, Len(q)} : (\A y \in {MaxSitemaps, Len(q)} : x =< y) => x = MaxSitemaps
      BY <1>1, <2>1
    <3>2. m = MaxSitemaps
      BY <1>1, <1>2, <2>1, <3>1 DEF S!Min
    <3> QED BY <1>1, <2>1, <3>2
  <2>2. CASE ~(MaxSitemaps <= Len(q))
    <3>1. \A x \in {MaxSitemaps, Len(q)} : (\A y \in {MaxSitemaps, Len(q)} : x =< y) => x = Len(q)
      BY <1>1, <2>2
    <3>2. m = Len(q)
      BY <1>1, <1>2, <2>2, <3>1 DEF S!Min
    <3> QED BY <1>1, <3>2
  <2> QED BY <2>1, <2>2
<1>4. \A i \in 1..m : q[i] \in Url
  <2>1. \A i \in 1..Len(q) : q[i] \in Url
    BY ElementOfSeq
  <2>2. \A i \in 1..m : i \in 1..Len(q)
    BY <1>1, <1>3
  <2> QED BY <2>1, <2>2
<1>5. SubSeq(q, 1, m) \in Seq(Url)
  BY <1>1, <1>3, <1>4, SubSeqProperties
<1> QED BY <1>2, <1>5 DEF S!Children

-----------------------------------------------------------------------------
(* Sitemaps, on their way into the frontier.                                *)

\* What is still to be read, and what was read last.
SitemapsTyped ==
    /\ sitemaps \in Seq(Url)
    /\ children \in Seq(Url) \cup {None}
    /\ pages \in Seq(Url)

InTurn ==
    /\ place = "start" => seen = {} /\ read = {} /\ children = None /\ pages = <<>>
    /\ place = "crawl" => children = None
    /\ children # None => sitemaps # <<>>

\* What the sitemaps read so far name.
Named == UNION {S!Advertised(r.events) : r \in read}

PagesAreNamed == Elements(pages) \subseteq Named

\* The pages whose links have been taken.
Done == Past({"fetch"})

Seeds == {Normalize(s) : s \in Elements(config.seeds)}
MayCrawl(urls, u) == \E v \in urls : Normalize(v) = u /\ Allows(filter, v)

SeenWasOffered == config # None => \A u \in seen \ Seeds : MayCrawl(Offered, u)

\* A page is in the frontier, or will be when the sitemap and its children are read.
Reached(u) == Normalize(u) \in seen \/ (children # None /\ u \in Elements(pages))

PagesAreReached ==
    \A r \in read : S!Whole(r.events) =>
        \A u \in S!AdvertisedPages(r.events) : Allows(filter, u) => Reached(u)

SitemapInv == SitemapsTyped /\ InTurn /\ PagesAreNamed /\ SeenWasOffered /\ PagesAreReached

LEMMA SitemapInit == Init => SitemapInv
<1> SUFFICES ASSUME Init PROVE SitemapInv
  OBVIOUS
<1>1. /\ sitemaps = <<>> /\ children = None /\ pages = <<>> /\ seen = {} /\ read = {}
      /\ config = None
  BY DEF Init, BatchInit
<1>2. <<>> \in Seq(Url) /\ Elements(<<>>) = {}
  BY EmptySeq DEF Elements
<1>3. SitemapsTyped /\ InTurn /\ PagesAreNamed
  BY <1>1, <1>2 DEF SitemapsTyped, InTurn, PagesAreNamed
<1>4. SeenWasOffered /\ PagesAreReached
  BY <1>1 DEF SeenWasOffered, PagesAreReached
<1> QED BY <1>3, <1>4 DEF SitemapInv

LinksFrom(urls) == UNION {LinksOf(Hrefs[u]) : u \in urls}

\* What a step adds is not lost: Offered and Reached only grow.
LEMMA OfferedGrows ==
    ASSUME Done \subseteq Done', read \subseteq read'
    PROVE  Named \subseteq Named' /\ Named \subseteq Offered /\ Offered \subseteq Offered'
<1>1. Named \subseteq Named'
  BY DEF Named
<1>2. LinksFrom(Done) \subseteq LinksFrom(Done')
  BY DEF LinksFrom
<1>3. Offered = LinksFrom(Done) \cup Named
  BY DEF Offered, Unread, LinksFrom, Done, Past, Pending, Named
<1>4. Offered' = LinksFrom(Done') \cup Named'
  BY DEF Offered, Unread, LinksFrom, Done, Past, Pending, Named
<1> QED BY <1>1, <1>2, <1>3, <1>4

LEMMA WiderMayCrawl ==
    ASSUME NEW U, NEW V, U \subseteq V, NEW u, MayCrawl(U, u), UNCHANGED config
    PROVE  MayCrawl(V, u)'
BY DEF MayCrawl, filter

\* What passes the filter and is admitted may be crawled, and is in the frontier.
LEMMA AdmittedMayCrawl ==
    ASSUME NEW urls, NEW depth, Admit(Allowed(urls), depth)
    PROVE  seen \subseteq seen' /\ \A u \in seen' \ seen : MayCrawl(urls, u)
<1>1. PICK fresh : fresh = Fresh(Allowed(urls), depth) /\ seen' = seen \cup fresh
  BY Zenon DEF Admit
<1>2. \A u \in fresh : \E v \in Allowed(urls) : u = Normalize(v)
  BY <1>1 DEF Fresh
<1> QED BY <1>1, <1>2 DEF MayCrawl, Allowed

LEMMA AdmittedAtOnce ==
    ASSUME NEW urls, Admit(Allowed(urls), 0), config.max_depth \in Nat \cup {None}
    PROVE  \A u \in urls : Allows(filter, u) => Normalize(u) \in seen'
<1>1. seen' = seen \cup Fresh(Allowed(urls), 0)
  BY Zenon DEF Admit
<1>2. ~(config.max_depth # None /\ 0 > config.max_depth)
  OBVIOUS
<1>3. \A u \in Allowed(urls) : HostKey(Normalize(u)) # None
  BY DEF Allowed, Allows, InScope, HostKey, Normalize
<1>4. \A u \in Allowed(urls) : Normalize(u) \in seen'
  BY <1>1, <1>2, <1>3 DEF Fresh
<1> QED BY <1>4 DEF Allowed

\* A step that takes in no page keeps what holds of the seen URLs.
LEMMA SeenKept ==
    ASSUME SeenWasOffered, UNCHANGED <<seen, config>>, Done \subseteq Done', read \subseteq read'
    PROVE  SeenWasOffered'
<1>1. Seeds' = Seeds
  BY DEF Seeds
<1>2. \A u : MayCrawl(Offered, u) => MayCrawl(Offered', u)
  BY OfferedGrows DEF MayCrawl
<1>3. \A u : MayCrawl(Offered', u) => MayCrawl(Offered, u)'
  BY DEF MayCrawl, filter
<1> QED BY <1>1, <1>2, <1>3 DEF SeenWasOffered

LEMMA ReachedKept ==
    ASSUME PagesAreReached, UNCHANGED <<config, read, children, pages>>, seen \subseteq seen'
    PROVE  PagesAreReached'
<1>1. \A u : Reached(u) => Reached(u)'
  BY DEF Reached
<1>2. filter' = filter
  BY DEF filter
<1> QED BY <1>1, <1>2 DEF PagesAreReached

\* What fetch_and_parse returns, and what it read.
LEMMA ReadAdds ==
    ASSUME NEW u \in Url, NEW events \in SitemapAt[u], Note(u, events),
           NEW more, more = IF events = None THEN <<>> ELSE S!Sitemap(events).pages
    PROVE  /\ more \in Seq(Url)
           /\ Elements(more) \subseteq Named'
           /\ read \subseteq read'
           /\ \A r \in read' \ read :
                  S!Whole(r.events) => S!AdvertisedPages(r.events) \subseteq Elements(more)
           /\ events # None => S!Children(S!Sitemap(events)) \in Seq(Url)
<1>1. CASE events = None
  <2>1. more = <<>> /\ read' = read
    BY <1>1 DEF Note
  <2>2. <<>> \in Seq(Url) /\ Elements(<<>>) = {}
    BY EmptySeq DEF Elements
  <2>3. more \in Seq(Url) /\ Elements(more) = {}
    BY <2>1, <2>2
  <2> QED BY <1>1, <2>1, <2>3
<1>2. CASE events # None
  <2>1. events \in Seq(Event)
    BY <1>2, BatchAssumption
  <2>2. PICK sitemap : sitemap = S!Sitemap(events)
    OBVIOUS
  <2>3. /\ sitemap.pages \in Seq(Url) /\ sitemap.sitemaps \in Seq(Url)
        /\ Elements(sitemap.pages) \subseteq S!Advertised(events)
        /\ S!Whole(events) => S!AdvertisedPages(events) \subseteq Elements(sitemap.pages)
    BY <2>1, <2>2, SitemapRead
  <2>4. S!Children(sitemap) \in Seq(Url)
    BY <2>3, ChildrenAreUrls
  <2>5. more = sitemap.pages
    BY <1>2, <2>2
  <2>6. PICK r : r = [url |-> u, events |-> events]
    OBVIOUS
  <2>7. read' = read \cup {r} /\ r.events = events
    BY <1>2, <2>6 DEF Note
  <2>8. S!Advertised(events) \subseteq Named'
    BY <2>7 DEF Named
  <2>9. ASSUME NEW w \in read' \ read, S!Whole(w.events)
        PROVE  S!AdvertisedPages(w.events) \subseteq Elements(more)
    BY <2>3, <2>5, <2>7, <2>9
  <2> QED BY <2>2, <2>3, <2>4, <2>5, <2>7, <2>8, <2>9
<1> QED BY <1>1, <1>2

LEMMA ReadRootKeeps ==
    ASSUME SitemapInv, place = "sitemaps", ReadRoot, UNCHANGED config
    PROVE  SitemapInv'
<1>1. /\ children = None /\ sitemaps # <<>> /\ sitemaps \in Seq(Url)
      /\ UNCHANGED <<place, sitemaps, waiting, busy, seen>>
  BY DEF ReadRoot, crawlVars, SitemapInv, SitemapsTyped
<1>2. PICK url \in Url : url = Head(sitemaps)
  BY <1>1, HeadTailProperties
<1>3. PICK events \in SitemapAt[url] :
        /\ Note(url, events)
        /\ pages' = IF events = None THEN <<>> ELSE S!Sitemap(events).pages
        /\ children' = IF events = None THEN <<>> ELSE S!Children(S!Sitemap(events))
  BY <1>2, Zenon DEF ReadRoot
<1>4. /\ pages' \in Seq(Url) /\ Elements(pages') \subseteq Named' /\ read \subseteq read'
      /\ \A r \in read' \ read :
             S!Whole(r.events) => S!AdvertisedPages(r.events) \subseteq Elements(pages')
      /\ events # None => S!Children(S!Sitemap(events)) \in Seq(Url)
  BY <1>3, ReadAdds
<1>5. children' \in Seq(Url) /\ children' # None
  <2>1. <<>> \in Seq(Url) /\ None \notin Seq(Url)
    BY EmptySeq, BatchAssumption
  <2> QED BY <1>3, <1>4, <2>1
<1>6. SitemapsTyped' /\ InTurn' /\ PagesAreNamed'
  BY <1>1, <1>4, <1>5 DEF SitemapInv, SitemapsTyped, InTurn, PagesAreNamed
<1>7. Done' = Done
  BY <1>1 DEF Done, Past, Pending
<1>8. SeenWasOffered'
  BY <1>1, <1>4, <1>7, SeenKept DEF SitemapInv
<1>9. filter' = filter
  BY DEF filter
<1>10. \A u : Reached(u) => Reached(u)'
  BY <1>1 DEF Reached
<1>11. PagesAreReached'
  <2> SUFFICES ASSUME NEW r \in read', S!Whole(r.events),
                      NEW u \in S!AdvertisedPages(r.events), Allows(filter, u)
               PROVE  Reached(u)'
    BY <1>9 DEF PagesAreReached
  <2>1. CASE r \in read
    BY <1>10, <2>1 DEF SitemapInv, PagesAreReached
  <2>2. CASE r \notin read
    BY <1>4, <1>5, <2>2 DEF Reached
  <2> QED BY <2>1, <2>2
<1> QED BY <1>6, <1>8, <1>11 DEF SitemapInv

LEMMA ReadChildKeeps ==
    ASSUME SitemapInv, place = "sitemaps", ReadChild, UNCHANGED config
    PROVE  SitemapInv'
<1>1. /\ children # None /\ children # <<>> /\ children \in Seq(Url) /\ children' = Tail(children)
      /\ sitemaps \in Seq(Url) /\ pages \in Seq(Url)
      /\ UNCHANGED <<place, sitemaps, waiting, busy, seen>>
  BY DEF ReadChild, crawlVars, SitemapInv, SitemapsTyped
<1>2. PICK url \in Url : url = Head(children)
  BY <1>1, HeadTailProperties
<1>3. PICK more : \E events \in SitemapAt[url] :
        /\ Note(url, events)
        /\ more = IF events = None THEN <<>> ELSE S!Sitemap(events).pages
        /\ pages' = pages \o more
  BY <1>2, Zenon DEF ReadChild
<1>4. /\ more \in Seq(Url) /\ Elements(more) \subseteq Named' /\ read \subseteq read'
      /\ \A r \in read' \ read :
             S!Whole(r.events) => S!AdvertisedPages(r.events) \subseteq Elements(more)
      /\ pages' = pages \o more
  <2>1. PICK events \in SitemapAt[url] :
          /\ Note(url, events)
          /\ more = IF events = None THEN <<>> ELSE S!Sitemap(events).pages
          /\ pages' = pages \o more
    BY <1>3
  <2> QED BY <2>1, ReadAdds
<1>5. children' \in Seq(Url) /\ children' # None
  <2>1. PICK rest \in Seq(Url) : rest = Tail(children)
    BY <1>1, HeadTailProperties
  <2>2. None \notin Seq(Url)
    BY BatchAssumption
  <2> QED BY <1>1, <2>1, <2>2
<1>6. pages' \in Seq(Url) /\ Elements(pages') = Elements(pages) \cup Elements(more)
  BY <1>1, <1>4, ConcatProperties, ElementsOfConcat
<1>7. Done' = Done
  BY <1>1 DEF Done, Past, Pending
<1>8. Named \subseteq Named'
  BY <1>4, <1>7, OfferedGrows
<1>9. SitemapsTyped' /\ InTurn' /\ PagesAreNamed'
  BY <1>1, <1>4, <1>5, <1>6, <1>8 DEF SitemapInv, SitemapsTyped, InTurn, PagesAreNamed
<1>10. SeenWasOffered'
  BY <1>1, <1>4, <1>7, SeenKept DEF SitemapInv
<1>11. filter' = filter
  BY DEF filter
<1>12. \A u : Reached(u) \/ u \in Elements(more) => Reached(u)'
  BY <1>1, <1>5, <1>6 DEF Reached
<1>13. PagesAreReached'
  <2> SUFFICES ASSUME NEW r \in read', S!Whole(r.events),
                      NEW u \in S!AdvertisedPages(r.events), Allows(filter, u)
               PROVE  Reached(u)'
    BY <1>11 DEF PagesAreReached
  <2>1. CASE r \in read
    BY <1>12, <2>1 DEF SitemapInv, PagesAreReached
  <2>2. CASE r \notin read
    BY <1>4, <1>12, <2>2
  <2> QED BY <2>1, <2>2
<1> QED BY <1>9, <1>10, <1>13 DEF SitemapInv

LEMMA AdmittedWasOffered ==
    ASSUME SeenWasOffered, NEW urls, NEW depth, Admit(Allowed(urls), depth),
           UNCHANGED config, Done \subseteq Done', read \subseteq read', urls \subseteq Offered'
    PROVE  SeenWasOffered'
<1>1. Seeds' = Seeds /\ Offered \subseteq Offered'
  BY OfferedGrows DEF Seeds
<1>2. \A u \in seen' \ seen : MayCrawl(Offered, u)'
  BY AdmittedMayCrawl, WiderMayCrawl
<1>3. config # None => \A u \in seen \ Seeds : MayCrawl(Offered, u)'
  BY <1>1, WiderMayCrawl DEF SeenWasOffered
<1> QED BY <1>1, <1>2, <1>3 DEF SeenWasOffered

LEMMA AdmittedPast ==
    ASSUME NEW urls, NEW depth, Admit(urls, depth), UNCHANGED busy
    PROVE  Done \subseteq Done'
<1>1. PICK fresh : Accepted(fresh, depth)
  BY AdmitAccepts
<1>2. \A t \in busy' : t.step \in {"fetch"} => t.url \in Pending({"fetch"})
  BY DEF Pending
<1>3. Past({"fetch"}) \subseteq Past({"fetch"})'
  BY <1>1, <1>2, PastGrows
<1> QED BY <1>3 DEF Done

LEMMA SeedFromSitemapKeeps ==
    ASSUME SitemapInv, IInv, place = "sitemaps", SeedFromSitemap, UNCHANGED config,
           config.max_depth \in Nat \cup {None}
    PROVE  SitemapInv'
<1>1. /\ children = <<>> /\ children' = None /\ sitemaps' = Tail(sitemaps)
      /\ Admit(Allowed(Elements(pages)), 0)
      /\ UNCHANGED <<place, pages, read, busy>>
  BY DEF SeedFromSitemap
<1>2. Done \subseteq Done'
  BY <1>1, AdmittedPast
<1>3. /\ pages \in Seq(Url) /\ sitemaps' \in Seq(Url)
      /\ Elements(pages) \subseteq Offered /\ Offered \subseteq Offered'
  <2>1. children # None
    BY <1>1, EmptySeq, BatchAssumption
  <2>2. sitemaps \in Seq(Url) /\ sitemaps # <<>>
    BY <2>1 DEF SitemapInv, SitemapsTyped, InTurn
  <2>3. sitemaps' \in Seq(Url)
    BY <1>1, <2>2, HeadTailProperties
  <2>4. Named \subseteq Offered /\ Offered \subseteq Offered'
    BY <1>1, <1>2, OfferedGrows
  <2>5. Elements(pages) \subseteq Named
    BY DEF SitemapInv, PagesAreNamed
  <2> QED BY <2>3, <2>4, <2>5 DEF SitemapInv, SitemapsTyped
<1>4. SitemapsTyped' /\ InTurn' /\ PagesAreNamed'
  BY <1>1, <1>3 DEF SitemapInv, SitemapsTyped, InTurn, PagesAreNamed, Named
<1>5. SeenWasOffered'
  BY <1>1, <1>2, <1>3, AdmittedWasOffered DEF SitemapInv
<1>6. PagesAreReached'
  <2>1. seen \subseteq seen' /\ \A u \in Elements(pages) : Allows(filter, u) => Normalize(u) \in seen'
    BY <1>1, AdmittedMayCrawl, AdmittedAtOnce
  <2>2. \A u : Allows(filter, u) /\ Reached(u) => Reached(u)'
    BY <2>1 DEF Reached
  <2>3. filter' = filter
    BY DEF filter
  <2> QED BY <1>1, <2>2, <2>3 DEF SitemapInv, PagesAreReached
<1> QED BY <1>4, <1>5, <1>6 DEF SitemapInv

LEMMA SeedKeeps ==
    ASSUME SitemapInv, IInv, place = "sitemaps", Seed, UNCHANGED config
    PROVE  SitemapInv'
<1>1. /\ children = None /\ place' = "crawl" /\ Admit(Elements(config.seeds), 0)
      /\ UNCHANGED <<sitemaps, children, pages, read, busy>>
  BY DEF Seed, sitemapVars
<1>2. seen \subseteq seen' /\ \A u \in seen' \ seen : u \in Seeds
  <2>1. seen' = seen \cup Fresh(Elements(config.seeds), 0)
    BY <1>1, Zenon DEF Admit
  <2>2. Fresh(Elements(config.seeds), 0) \subseteq Seeds
    BY DEF Fresh, Seeds
  <2> QED BY <2>1, <2>2
<1>3. Done \subseteq Done'
  BY <1>1, AdmittedPast
<1>4. SitemapsTyped' /\ InTurn' /\ PagesAreNamed'
  BY <1>1 DEF SitemapInv, SitemapsTyped, InTurn, PagesAreNamed, Named
<1>5. SeenWasOffered'
  <2>1. Seeds' = Seeds /\ Offered \subseteq Offered'
    BY <1>1, <1>3, OfferedGrows DEF Seeds
  <2>2. config # None => \A u \in seen \ Seeds : MayCrawl(Offered, u)'
    BY <2>1, WiderMayCrawl DEF SeenWasOffered, SitemapInv
  <2> QED BY <1>2, <2>1, <2>2 DEF SeenWasOffered
<1>6. PagesAreReached'
  BY <1>1, <1>2, ReachedKept DEF SitemapInv
<1> QED BY <1>4, <1>5, <1>6 DEF SitemapInv

\* A page is past its links, and stays past them, while they are taken ...
LEMMA EnqueuedPast ==
    ASSUME TasksOK, NEW task \in busy, Enqueue(task)
    PROVE  Done \subseteq Done' /\ task.url \in Done'
<1>1. PICK fresh : Accepted(fresh, task.depth + 1)
  BY AdmitAccepts DEF Enqueue
<1>2. PICK more : more = {AtStep(task, "count")} /\ Stepped(task, more)
  BY DEF Enqueue, MoveOn, Stepped
<1>3. task.step \in {"fetch"} /\ \A t \in more : t.step \notin {"fetch"}
  BY <1>2 DEF Enqueue, AtStep
<1>4. \A t \in busy' : t.step \in {"fetch"} => t.url \in Pending({"fetch"})
  BY <1>2, <1>3, StepIsForward
<1>5. Past({"fetch"}) \subseteq Past({"fetch"})'
  BY <1>1, <1>4, PastGrows
<1>6. task.url \in Past({"fetch"})'
  BY <1>1, <1>2, <1>3, NowPast
<1> QED BY <1>5, <1>6 DEF Done

\* ... and with every other step of a worker.
LEMMA SteppedPast ==
    ASSUME NEW task \in busy, Process(task), ~Enqueue(task)
    PROVE  Done \subseteq Done'
<1>1. UNCHANGED <<waiting, seen>>
  BY DEF Process, Miss, Count, CallSink, Write, Fail
<1>2. Accepted({}, 0)
  BY <1>1, NothingAccepted
<1>3. \/ busy' = busy
      \/ \E more : Stepped(task, more) /\ \A t \in more : t.step # "fetch"
  <2>1. ASSUME NEW step, MoveOn(task, step), step # "fetch"
        PROVE  \E more : Stepped(task, more) /\ \A t \in more : t.step # "fetch"
    <3>1. PICK more : more = {AtStep(task, step)} /\ Stepped(task, more)
      BY <2>1 DEF MoveOn, Stepped
    <3>2. \A t \in more : t.step # "fetch"
      BY <2>1, <3>1 DEF AtStep
    <3> QED BY <3>1, <3>2
  <2>2. busy' = busy \ {task} => Stepped(task, {})
    BY DEF Stepped
  <2>3. \/ busy' \in {busy, busy \ {task}}
        \/ \E step \in {"count", "sink", "write", "fail"} : MoveOn(task, step)
    BY DEF Process, Miss, Count, CallSink, Write, Fail
  <2> QED BY <2>1, <2>2, <2>3
<1>4. \A t \in busy' : t.step \in {"fetch"} => t.url \in Pending({"fetch"})
  <2>1. CASE busy' = busy
    BY <2>1 DEF Pending
  <2>2. ASSUME NEW more, Stepped(task, more), \A t \in more : t.step # "fetch"
        PROVE  \A t \in busy' : t.step \in {"fetch"} => t.url \in Pending({"fetch"})
    BY <2>2, StepIsForward
  <2> QED BY <1>3, <2>1, <2>2
<1>5. Past({"fetch"}) \subseteq Past({"fetch"})'
  BY <1>2, <1>4, PastGrows
<1> QED BY <1>5 DEF Done

LEMMA EnqueueReaches ==
    ASSUME SitemapInv, IInv, place = "crawl", NEW task \in busy, Crawl(Enqueue(task))
    PROVE  SitemapInv'
<1>1. /\ Enqueue(task) /\ Admit(Allowed(LinksOf(Hrefs[task.url])), task.depth + 1)
      /\ UNCHANGED <<config, place, sitemaps, children, pages, read>>
  BY DEF Crawl, Enqueue, Found, settingVars, sitemapVars
<1>2. Done \subseteq Done' /\ task.url \in Done'
  BY <1>1, EnqueuedPast DEF IInv
<1>3. LinksOf(Hrefs[task.url]) \subseteq Offered'
  <2>1. task.url \in (seen \ Unread)'
    BY <1>2 DEF Done, Past, Pending, Unread
  <2> QED BY <2>1 DEF Offered
<1>4. SitemapsTyped' /\ InTurn' /\ PagesAreNamed'
  BY <1>1 DEF SitemapInv, SitemapsTyped, InTurn, PagesAreNamed, Named
<1>5. SeenWasOffered'
  BY <1>1, <1>2, <1>3, AdmittedWasOffered DEF SitemapInv
<1>6. PagesAreReached'
  <2>1. seen \subseteq seen'
    BY <1>1, AdmittedMayCrawl
  <2> QED BY <1>1, <2>1, ReachedKept DEF SitemapInv
<1> QED BY <1>4, <1>5, <1>6 DEF SitemapInv

\* The steps that read no sitemap and take in no URL.
LEMMA NothingNewKeeps ==
    ASSUME SitemapInv, UNCHANGED <<config, sitemaps, children, pages, read, seen>>,
           Done \subseteq Done', place' = place \/ place' \notin {"start", "crawl"}
    PROVE  SitemapInv'
<1>1. SitemapsTyped' /\ InTurn' /\ PagesAreNamed'
  BY DEF SitemapInv, SitemapsTyped, InTurn, PagesAreNamed, Named
<1>2. SeenWasOffered'
  BY SeenKept DEF SitemapInv
<1>3. PagesAreReached'
  BY ReachedKept DEF SitemapInv
<1> QED BY <1>1, <1>2, <1>3 DEF SitemapInv

\* Nor is there anything to lose before the settings are known, or after the process ended.
LEMMA NothingYetKeeps ==
    ASSUME seen' = {}, read' = {}, children' = None, pages' = <<>>, sitemaps' \in Seq(Url)
    PROVE  SitemapInv'
<1>1. <<>> \in Seq(Url) /\ Elements(<<>>) = {}
  BY EmptySeq DEF Elements
<1>2. SitemapsTyped' /\ InTurn' /\ PagesAreNamed'
  BY <1>1 DEF SitemapsTyped, InTurn, PagesAreNamed
<1>3. SeenWasOffered' /\ PagesAreReached'
  BY DEF SeenWasOffered, PagesAreReached
<1> QED BY <1>2, <1>3 DEF SitemapInv

LEMMA SitemapUrlsAreUrls ==
    ASSUME NEW c \in CommandLine, Parses(c.sitemap)
    PROVE  SitemapUrls(c) \in Seq(Url)
<1>1. PICK texts \in Seq(Text) : texts = c.sitemap
  BY DEF CommandLine
<1>2. \A i \in 1..Len(texts) : ParseUrl[texts[i]] \in Url
  <2> SUFFICES ASSUME NEW i \in 1..Len(texts) PROVE ParseUrl[texts[i]] \in Url
    OBVIOUS
  <2>1. texts[i] \in Text /\ i \in DOMAIN texts
    BY ElementOfSeq
  <2>2. ParseUrl[texts[i]] # None
    BY <1>1, <2>1 DEF Parses, Elements
  <2>3. ParseUrl \in [Text -> Url \cup {None}]
    BY SettingsAssumption
  <2>4. ParseUrl[texts[i]] \in Url \cup {None}
    BY <2>1, <2>3
  <2> QED BY <2>2, <2>4
<1>3. DOMAIN texts = 1..Len(texts) /\ Len(texts) \in Nat
  OBVIOUS
<1>4. [i \in 1..Len(texts) |-> ParseUrl[texts[i]]] \in Seq(Url)
  BY <1>2, <1>3, IsASeq
<1> QED BY <1>1, <1>3, <1>4 DEF SitemapUrls, Parse

LEMMA SitemapStep == SitemapInv /\ IInv /\ RunKept /\ [Next]_vars => SitemapInv'
<1> SUFFICES ASSUME SitemapInv, IInv, RunKept, [Next]_vars PROVE SitemapInv'
  OBVIOUS
<1>1. CASE Prepare
  <2>1. /\ seen = {} /\ read = {} /\ children = None /\ pages = <<>> /\ sitemaps \in Seq(Url)
        /\ cli \in CommandLine
    BY <1>1, BatchAssumption DEF Prepare, SitemapInv, InTurn, SitemapsTyped, RunKept
  <2>2. UNCHANGED <<seen, read, children, pages>>
    BY <1>1 DEF Prepare, RefuseSettings, RefuseOutput, RefuseClient, Refuse, Launch, crawlVars,
                sitemapVars
  <2>3. UNCHANGED sitemaps \/ (sitemaps' = SitemapUrls(cli) /\ Parses(cli.sitemap))
    BY <1>1 DEF Prepare, RefuseSettings, RefuseOutput, RefuseClient, Refuse, Launch, sitemapVars
  <2>4. sitemaps' \in Seq(Url)
    BY <2>1, <2>3, SitemapUrlsAreUrls
  <2> QED BY <2>1, <2>2, <2>4, NothingYetKeeps
<1>2. CASE Seeding
  <2>1. place = "sitemaps" /\ UNCHANGED config
    BY <1>2 DEF Seeding, settingVars
  <2>2. config.max_depth \in Nat \cup {None}
    <3>1. cli \in CommandLine /\ Accepts(cli) /\ config = ToConfig(cli)
      BY <2>1, BatchAssumption DEF RunKept
    <3>2. config.max_depth = cli.depth
      BY <3>1, ConfigFields
    <3>3. cli.depth \in Nat \cup {None}
      BY <3>1 DEF CommandLine
    <3> QED BY <3>2, <3>3
  <2>3. ReadRoot \/ ReadChild \/ SeedFromSitemap \/ Seed
    BY <1>2 DEF Seeding
  <2> QED BY <2>1, <2>2, <2>3, ReadRootKeeps, ReadChildKeeps, SeedFromSitemapKeeps, SeedKeeps
<1>3. ASSUME NEW task \in waiting, Crawl(Begin(task)) PROVE SitemapInv'
  <2>1. /\ UNCHANGED <<config, place, sitemaps, children, pages, read, seen>>
        /\ waiting' = waiting \ {task} /\ busy' = busy \cup {AtStep(task, "fetch")}
    BY <1>3 DEF Crawl, Begin, settingVars, sitemapVars
  <2>2. Done \subseteq Done'
    BY <2>1, PastOfBegun DEF Done
  <2> QED BY <2>1, <2>2, NothingNewKeeps
<1>4. ASSUME NEW task \in busy, Crawl(Process(task)) PROVE SitemapInv'
  <2>1. place = "crawl" /\ Process(task) /\ UNCHANGED <<config, place, sitemaps, children, pages, read>>
    BY <1>4 DEF Crawl, settingVars, sitemapVars
  <2>2. CASE Enqueue(task)
    <3>1. Crawl(Enqueue(task))
      BY <1>4, <2>2, Zenon DEF Crawl
    <3> QED BY <2>1, <3>1, EnqueueReaches
  <2>3. CASE ~Enqueue(task)
    <3>1. UNCHANGED seen
      BY <2>1, <2>3 DEF Process, Miss, Count, CallSink, Write, Fail
    <3>2. Done \subseteq Done'
      BY <2>1, <2>3, SteppedPast
    <3> QED BY <2>1, <3>1, <3>2, NothingNewKeeps
  <2> QED BY <2>2, <2>3
<1>5. CASE Leasing \/ Fetching
  <2>1. Leasing => \E task \in waiting : Crawl(Begin(task))
    BY Zenon DEF Leasing, Crawl
  <2>2. Fetching => \E task \in busy : Crawl(Process(task))
    BY Zenon DEF Fetching, Crawl
  <2> QED BY <1>3, <1>4, <1>5, <2>1, <2>2
<1>6. ASSUME UNCHANGED <<config, sitemaps, children, pages, read, seen, waiting, busy>>,
             place' = place \/ place' \in {"drop", "save", "report", "exited"}
      PROVE  SitemapInv'
  <2>1. Done' = Done
    BY <1>6 DEF Done, Past, Pending
  <2> QED BY <1>6, <2>1, NothingNewKeeps
<1>7. CASE Ending
  <2>1. UNCHANGED <<config, sitemaps, children, pages, read, seen, waiting, busy>>
    BY <1>7 DEF Ending, settingVars, sitemapVars, crawlVars
  <2>2. place' = place \/ place' \in {"drop", "save", "report", "exited"}
    BY <1>7, Zenon DEF Ending, Finish, Drop, Save, Report, Exit
  <2> QED BY <1>6, <2>1, <2>2
<1>8. CASE Signals
  <2>1. UNCHANGED <<config, sitemaps, children, pages, read, seen, waiting, busy>>
    BY <1>8 DEF Signals, settingVars, sitemapVars, crawlVars
  <2>2. place' = place \/ place' = "exited"
    BY <1>8, Zenon DEF Signals, Press, Handle, Exit
  <2> QED BY <1>6, <2>1, <2>2
<1>9. CASE OpenControlCenter
  <2>1. /\ seen' = {} /\ read' = {} /\ children' = None /\ pages' = <<>> /\ sitemaps' = <<>>
    BY <1>9 DEF OpenControlCenter, Forget
  <2>2. <<>> \in Seq(Url)
    BY EmptySeq
  <2> QED BY <2>1, <2>2, NothingYetKeeps
<1>10. CASE UNCHANGED batchVars
  BY <1>6, <1>10 DEF batchVars
<1> QED BY <1>1, <1>2, <1>5, <1>7, <1>8, <1>9, <1>10 DEF Next, BatchNext, Working, Over, vars

LEMMA AllInvs == Spec => [](SitemapInv /\ IInv /\ RunKept /\ FormKept)
<1>1. Init => SitemapInv /\ IInv /\ RunKept /\ FormKept
  BY SitemapInit, InitInv, RunInit, FormInit_
<1> QED BY <1>1, SitemapStep, EditStep, StepInv, PTL DEF Spec

(* Whatever a crawl takes in besides its seeds is of the scope and of http  *)
(* or https, and was named, in a spelling the patterns allow, by a page that *)
(* was done with or a sitemap that was read: for any site, any sitemaps and *)
(* any order of the workers (engine.rs, filter.rs, sitemap.rs).             *)
THEOREM BoundsHoldHolds == Spec => []BoundsHold
<1>1. SitemapInv => BoundsHold
  <2> SUFFICES ASSUME SitemapInv, config # None, NEW u \in seen \ Seeds
               PROVE  /\ u.scheme \in Http
                      /\ InScope(filter, u)
                      /\ \E v \in Offered :
                             Normalize(v) = u /\ ~Excluded(filter, v) /\ Included(filter, v)
    BY DEF BoundsHold, Seeds
  <2>1. PICK v \in Offered : Normalize(v) = u /\ Allows(filter, v)
    BY DEF SitemapInv, SeenWasOffered, MayCrawl
  <2>2. u.scheme = v.scheme /\ u.host = v.host
    BY <2>1 DEF Normalize
  <2>3. v.scheme \in Http /\ InScope(filter, v) /\ ~Excluded(filter, v) /\ Included(filter, v)
    BY <2>1 DEF Allows
  <2>4. InScope(filter, u)
    BY <2>2, <2>3 DEF InScope
  <2> QED BY <2>1, <2>2, <2>3, <2>4
<1> QED BY <1>1, AllInvs, PTL

(* Every page that a well-formed sitemap advertises, or one of the first    *)
(* MaxSitemaps an index names, is in the frontier before the crawl begins,  *)
(* if the filter allows it: the two flags of parse tell pages from sitemaps *)
(* as the elements do, for any nesting of them (sitemap.rs, engine.rs).     *)
THEOREM SitemapIsSeededHolds == Spec => []SitemapIsSeeded
<1>1. SitemapInv => SitemapIsSeeded
  BY DEF SitemapInv, InTurn, PagesAreReached, Reached, SitemapIsSeeded
<1> QED BY <1>1, AllInvs, PTL
=============================================================================
