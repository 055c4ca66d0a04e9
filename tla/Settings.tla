------------------------------ MODULE Settings ------------------------------
(***************************************************************************)
(* How the settings of a crawl travel through rustcrawl: from the command   *)
(* line (cli.rs) or the dashboard's form (progress.rs) through the checks   *)
(* of CrawlConfigBuilder (config.rs) into a CrawlConfig, into the record of *)
(* the finished job (jobs.rs), and from the record back into a form.        *)
(*                                                                         *)
(* Texts are abstract; functions say what the parsers make of them, with    *)
(* None for an error.  Durations are milliseconds.                          *)
(***************************************************************************)
EXTENDS Urls, Naturals

CONSTANTS
    Text,         \* what a user may type, or a record may hold; "" among them
    Trim,         \* Trim[t]: t without the white space around it
    Lower,        \* Lower[t]: t in lower case
    ParseUrl,     \* ParseUrl[t]: Url::parse
    ParseTime,    \* ParseTime[t]: humantime::parse_duration
    FormatTime,   \* FormatTime[d]: humantime::format_duration
    Duration,     \* the durations in use
    Broken        \* the patterns that do not compile

MAX_CONCURRENCY == 1024
DEFAULT_CONCURRENCY == 16
Scopes == {"host", "domain", "any"}

\* What CrawlConfigBuilder holds, and CrawlConfig.
CrawlConfig ==
    [seeds : Seq(Url), max_depth : Nat \cup {None}, max_pages : Nat \cup {None}, concurrency : Nat,
     per_host_delay : Nat, request_timeout : Nat, user_agent : Text \cup {None},
     respect_robots : BOOLEAN, respect_crawl_delay : BOOLEAN, scope : Scopes,
     include : Seq(Pattern \cup Broken), exclude : Seq(Pattern \cup Broken),
     max_retries : Nat, max_body_bytes : Nat]

\* What a form can be turned into.
NewJobSpec ==
    [target : Text, max_pages : Nat \cup {None}, depth : Nat \cup {None},
     concurrency : 1..MAX_CONCURRENCY, scope : Scopes, delay : Text,
     respect_crawl_delay : BOOLEAN, output : Text \cup {None}, save : BOOLEAN]

(***************************************************************************)
(* What the libraries promise about these conversions.                      *)
(***************************************************************************)
ASSUME SettingsAssumption ==
    /\ {"", "host", "domain", "any", "y", "n", "250ms"} \subseteq Text
    /\ Trim \in [Text -> Text]
    /\ \A t \in Text : Trim[Trim[t]] = Trim[t]
    /\ \A t \in {"", "host", "domain", "any", "y", "n", "250ms"} : Trim[t] = t /\ Lower[t] = t
    /\ Lower \in [Text -> Text]
    /\ ParseUrl \in [Text -> Url \cup {None}]
    /\ \A t \in Text : ParseUrl[t] # None =>
           ParseUrl[Trim[t]] # None /\ ParseUrl[Trim[t]].scheme = ParseUrl[t].scheme
    /\ ParseUrl[""] = None
    /\ ParseTime \in [Text -> Duration \cup {None}]
    /\ FormatTime \in [Duration -> Text \ {""}]
    /\ \A d \in Duration : Trim[FormatTime[d]] = FormatTime[d] /\ ParseTime[FormatTime[d]] = d
    /\ Duration \subseteq Nat
    /\ 250 \in Duration
    /\ ParseTime["250ms"] = 250
    /\ None \notin Text /\ None \notin Url /\ None \notin Nat /\ None \notin BOOLEAN
    /\ None \notin CrawlConfig /\ None \notin NewJobSpec

\* Whatever clap accepts: a Cli.
CommandLine ==
    [seeds : Seq(Text), sitemap : Seq(Text), depth : Nat \cup {None}, max_pages : Nat \cup {None},
     concurrency : 1..MAX_CONCURRENCY, delay : Duration, timeout : Duration, scope : Scopes,
     user_agent : Text \cup {None}, ignore_robots : BOOLEAN, ignore_crawl_delay : BOOLEAN,
     include : Seq(Pattern \cup Broken), exclude : Seq(Pattern \cup Broken),
     output : Text \cup {None}, retries : Nat, max_body : Nat, no_save : BOOLEAN]

-----------------------------------------------------------------------------
(* config.rs *)

Defaults ==
    [seeds |-> <<>>, max_depth |-> None, max_pages |-> None, concurrency |-> DEFAULT_CONCURRENCY,
     per_host_delay |-> 250, request_timeout |-> 30000, user_agent |-> None,
     respect_robots |-> TRUE, respect_crawl_delay |-> TRUE, scope |-> "domain",
     include |-> <<>>, exclude |-> <<>>, max_retries |-> 2, max_body_bytes |-> 8 * 1024 * 1024]

Acceptable(b) ==
    /\ b.seeds # <<>>
    /\ b.concurrency \in 1..MAX_CONCURRENCY
    /\ \A u \in Elements(b.seeds) : u.scheme \in Http
    /\ Elements(b.include) \cup Elements(b.exclude) \subseteq Pattern

\* CrawlConfigBuilder::build; None is its error.
Build(b) == IF Acceptable(b) THEN b ELSE None

Parse(texts) == [i \in DOMAIN texts |-> ParseUrl[texts[i]]]
Parses(texts) == \A t \in Elements(texts) : ParseUrl[t] # None

-----------------------------------------------------------------------------
(* cli.rs *)

SitemapUrls(cli) == Parse(cli.sitemap)

\* Without a seed, the root of each sitemap's origin is one.
SeedUrls(cli) ==
    IF cli.seeds # <<>> THEN Parse(cli.seeds)
    ELSE [i \in DOMAIN cli.sitemap |-> OriginRoot(SitemapUrls(cli)[i])]

ToConfig(cli) ==
    IF ~Parses(IF cli.seeds # <<>> THEN cli.seeds ELSE cli.sitemap) THEN None
    ELSE Build([seeds |-> SeedUrls(cli), max_depth |-> cli.depth, max_pages |-> cli.max_pages,
                concurrency |-> cli.concurrency, per_host_delay |-> cli.delay,
                request_timeout |-> cli.timeout, user_agent |-> cli.user_agent,
                respect_robots |-> ~cli.ignore_robots,
                respect_crawl_delay |-> ~cli.ignore_robots /\ ~cli.ignore_crawl_delay,
                scope |-> cli.scope, include |-> cli.include, exclude |-> cli.exclude,
                max_retries |-> cli.retries, max_body_bytes |-> cli.max_body])

-----------------------------------------------------------------------------
(* jobs.rs: what is recorded of a run, here without its results. *)

TemplateFromCli(cli) ==
    [seeds |-> cli.seeds, sitemaps |-> cli.sitemap, max_pages |-> cli.max_pages,
     max_depth |-> cli.depth, concurrency |-> cli.concurrency, scope |-> cli.scope,
     delay |-> FormatTime[cli.delay],
     respect_crawl_delay |-> ~cli.ignore_robots /\ ~cli.ignore_crawl_delay,
     output |-> cli.output]

TemplateFromNewJob(spec) ==
    [seeds |-> <<spec.target>>, sitemaps |-> <<>>, max_pages |-> spec.max_pages,
     max_depth |-> spec.depth, concurrency |-> spec.concurrency, scope |-> spec.scope,
     delay |-> spec.delay, respect_crawl_delay |-> spec.respect_crawl_delay,
     output |-> spec.output]

Or(value, default) == IF value = None THEN default ELSE value

\* What serde makes of a record; None marks a field that an old version did not write.
Deserialize(job) ==
    [job EXCEPT !.concurrency = Or(@, DEFAULT_CONCURRENCY), !.respect_crawl_delay = Or(@, TRUE)]

TargetLabel(job) ==
    IF job.seeds # <<>> THEN Head(job.seeds)
    ELSE IF job.sitemaps # <<>> THEN Head(job.sitemaps) ELSE "(no target)"

-----------------------------------------------------------------------------
(* main.rs and progress.rs: the settings a user can edit. *)

\* Some(spec), since a crawl has a target.
EditableSpec(cli) ==
    [target |-> Head(cli.seeds \o cli.sitemap), max_pages |-> cli.max_pages, depth |-> cli.depth,
     concurrency |-> cli.concurrency, scope |-> cli.scope, delay |-> FormatTime[cli.delay],
     respect_crawl_delay |-> ~cli.ignore_robots /\ ~cli.ignore_crawl_delay,
     output |-> cli.output, save |-> ~cli.no_save]

\* NewJobSpec::from_job: scope and delay are missing in records of old versions.
FromJob(job) ==
    [target |-> TargetLabel(job), max_pages |-> job.max_pages, depth |-> job.max_depth,
     concurrency |-> job.concurrency, scope |-> Or(job.scope, "domain"),
     delay |-> Or(job.delay, "250ms"), respect_crawl_delay |-> job.respect_crawl_delay,
     output |-> job.output, save |-> TRUE]

\* PreparedRun::from_dashboard, up to the sink.
FromDashboard(spec) ==
    IF \/ spec.scope \notin Scopes
       \/ ParseTime[spec.delay] = None
       \/ ParseUrl[spec.target] = None
    THEN None
    ELSE Build([seeds |-> <<ParseUrl[spec.target]>>, max_depth |-> spec.depth,
                max_pages |-> spec.max_pages, concurrency |-> spec.concurrency,
                per_host_delay |-> ParseTime[spec.delay],
                request_timeout |-> Defaults.request_timeout,
                user_agent |-> Defaults.user_agent, respect_robots |-> Defaults.respect_robots,
                respect_crawl_delay |-> spec.respect_crawl_delay, scope |-> spec.scope,
                include |-> Defaults.include, exclude |-> Defaults.exclude,
                max_retries |-> Defaults.max_retries,
                max_body_bytes |-> Defaults.max_body_bytes])

-----------------------------------------------------------------------------
(* NewJobForm.  A field for a number holds digits, nothing, or something    *)
(* that is no number; the others hold texts.                                *)

Digits(n) == [kind |-> "digits", number |-> n]
Blank == [kind |-> "blank", number |-> None]
Garbage == [kind |-> "garbage", number |-> None]

Shown(n) == IF n = None THEN Blank ELSE Digits(n)
YesNo(b) == IF b THEN "y" ELSE "n"

NewForm ==
    [target |-> "", max_pages |-> Digits(100), depth |-> Digits(1),
     concurrency |-> Digits(DEFAULT_CONCURRENCY), scope |-> "domain", delay |-> "250ms",
     robots_delay |-> "y", output |-> "", save |-> "y"]

\* Mutant of FromSpec: the robots delay is left as in a new form.
FromSpecMutant(spec) ==
    [target |-> spec.target, max_pages |-> Shown(spec.max_pages), depth |-> Shown(spec.depth),
     concurrency |-> Digits(spec.concurrency), scope |-> spec.scope, delay |-> spec.delay,
     robots_delay |-> NewForm.robots_delay, output |-> Or(spec.output, ""),
     save |-> YesNo(spec.save)]

FromSpec(spec) ==
    [target |-> spec.target, max_pages |-> Shown(spec.max_pages), depth |-> Shown(spec.depth),
     concurrency |-> Digits(spec.concurrency), scope |-> spec.scope, delay |-> spec.delay,
     robots_delay |-> YesNo(spec.respect_crawl_delay), output |-> Or(spec.output, ""),
     save |-> YesNo(spec.save)]

Yes == {"", "yes", "y", "true", "1"}
No == {"no", "n", "false", "0"}
SaysYes(text) == Lower[Trim[text]] \in Yes

ParseOptional(field) == field.number

\* The checks of to_spec.
Fillable(form) ==
    /\ Trim[form.target] # ""
    /\ Garbage \notin {form.max_pages, form.depth}
    /\ form.concurrency.kind = "digits" /\ form.concurrency.number \in 1..MAX_CONCURRENCY
    /\ Lower[Trim[form.scope]] \in Scopes
    /\ Trim[form.delay] # ""
    /\ Lower[Trim[form.robots_delay]] \in Yes \cup No
    /\ Lower[Trim[form.save]] \in Yes \cup No

ToSpec(form) ==
    IF ~Fillable(form) THEN None
    ELSE [target |-> Trim[form.target], max_pages |-> ParseOptional(form.max_pages),
          depth |-> ParseOptional(form.depth), concurrency |-> form.concurrency.number,
          scope |-> Lower[Trim[form.scope]], delay |-> Trim[form.delay],
          respect_crawl_delay |-> SaysYes(form.robots_delay),
          output |-> IF Trim[form.output] = "" THEN None ELSE Trim[form.output],
          save |-> SaysYes(form.save)]
=============================================================================
