---- MODULE SourceCache ----
(***************************************************************************)
(* The persistent half of the system: the source cache ([cache] dir,       *)
(* internal/updater/cache.go) under the boot sequence (internal/boot Run)  *)
(* and the live loops, across crashes, restarts and changes of the         *)
(* configured URL.  Three files, each a payload and a .meta.json written   *)
(* after it: the GTFS ZIP, the OSM extract and the graph-source image that *)
(* replaces the extract once a graph with live updates has been built.     *)
(*                                                                         *)
(* Data is what it came from: a URL and the number of its publication.     *)
(***************************************************************************)
EXTENDS Integers

CONSTANTS
  URLs,        \* the URLs an operator may configure
  LiveURLs,    \* those whose extracts name a Geofabrik replication stream
  Setups,      \* sets of resources one configuration fetches from a URL
  MaxVersion,  \* bound: publications at one URL
  MaxSwitches, \* bound: changes of configuration
  MaxCrashes,  \* bound: crashes (or restarts)
  MaxFaults    \* bound: fetches, reads and writes that fail

Resources == {"osm", "gtfs"}
Files == {"zip", "pbf", "gts"}

ASSUME ConstantsAssumption ==
  /\ LiveURLs \subseteq URLs /\ "none" \notin URLs
  /\ Setups \subseteq SUBSET Resources
  /\ MaxVersion \in Nat /\ MaxSwitches \in Nat /\ MaxCrashes \in Nat /\ MaxFaults \in Nat

VARIABLES
  newest,   \* newest[u]: last publication at u (external)
  remote,   \* the resources fetched from a URL; the others are local
  config,   \* config[r]: the URL configured for r
  budget,   \* switches, crashes and faults still to come
  payload,  \* payload[n]: content of cache file n
  meta,     \* meta[n]: what its .meta.json says
  loose,    \* history: the files whose metadata are older than their payload
  bred,     \* history: the origin of the graph the image was saved from
  pc,       \* pc[r]: where boot, or r's live loop, stands
  had,      \* had[r]: was there a cached file when the retries began?
  tag,      \* tag[r]: the validators sent; for a booted feed, feedData's
  got,      \* got[r]: downloaded, or built from, and not yet in place
  served,   \* served[r]: what queries are answered from
  origin    \* history: how served[r] came to be served

disk == <<payload, meta, loose, bred>>
process == <<pc, had, tag, got, served, origin>>
vars == <<newest, remote, config, budget, disk, process>>

Data == [url : URLs \cup {"none"}, ver : Nat]
None == [url |-> "none", ver |-> 0]
Newest(r) == [url |-> config[r], ver |-> newest[config[r]]]

\* A file whose metadata is about another source than its payload.
Torn(n) ==
  /\ payload[n] # None
  /\ meta[n] # None
  /\ meta[n].url # payload[n].url

Cached(n) == payload[n] # None

\* Why data read from file n can be another source's: its payload was replaced
\* and its metadata never were, or they were, of data that was foreign already.
Trusted(n, how) == IF ~Torn(n) THEN how ELSE IF n \in loose THEN "torn" ELSE "mislabelled"

\* Mutant of Meta: the URL is not looked at.
MetaOfAnySource(n, url) == meta[n]

\* Cache.Meta: metadata about another URL is ignored.
Meta(n, url) == IF meta[n].url = url THEN meta[n] ELSE None

Down == [r \in Resources |-> "down"]
Nothing == [r \in Resources |-> None]

Init ==
  /\ newest = [u \in URLs |-> 1]
  /\ remote \in Setups
  /\ config \in [Resources -> URLs]
  /\ budget = [switches |-> MaxSwitches, crashes |-> MaxCrashes, faults |-> MaxFaults]
  /\ payload = [n \in Files |-> None]
  /\ meta = [n \in Files |-> None]
  /\ loose = {} /\ bred = "none"
  /\ pc = Down
  /\ had = [r \in Resources |-> FALSE]
  /\ tag = Nothing /\ got = Nothing /\ served = Nothing
  /\ origin = [r \in Resources |-> "none"]

Spend(what) ==
  /\ budget[what] > 0
  /\ budget' = [budget EXCEPT ![what] = @ - 1]

\* Writing a file and, in a second step, its metadata.
Store(n, d) == payload' = [payload EXCEPT ![n] = d] /\ loose' = loose \cup {n}
Label(n, d) == meta' = [meta EXCEPT ![n] = d] /\ loose' = loose \ {n}

Goto(r, label) == pc' = [pc EXCEPT ![r] = label]

\* Data d becomes what r serves, from a fetch or from cache file n.
Serve(r, d, from) ==
  /\ served' = [served EXCEPT ![r] = d]
  /\ origin' = [origin EXCEPT ![r] = from]
  /\ got' = [got EXCEPT ![r] = None]

-----------------------------------------------------------------------------
(* The world around the process.                                           *)

Publish(u) ==
  /\ newest[u] < MaxVersion
  /\ newest' = [newest EXCEPT ![u] = @ + 1]
  /\ UNCHANGED <<remote, config, budget, disk, process>>

\* The operator edits the configuration of a stopped server.
SwitchURL(r) ==
  /\ r \in remote
  /\ pc = Down
  /\ Spend("switches")
  /\ \E u \in URLs \ {config[r]} : config' = [config EXCEPT ![r] = u]
  /\ UNCHANGED <<newest, remote, disk, process>>

\* The process dies, and with it everything in RAM.  A crash inside
\* writeMeta can leave the metadata truncated, which reads as none.
Crash ==
  /\ pc # Down
  /\ Spend("crashes")
  /\ \/ meta' = meta
     \/ /\ pc["gtfs"] = "label"
        /\ meta' = [meta EXCEPT !["zip"] = None]
     \/ /\ pc["osm"] \in {"label", "relabel"}
        /\ meta' = [meta EXCEPT !["gts"] = None]
     \/ /\ pc["osm"] = "labelPBF"
        /\ meta' = [meta EXCEPT !["pbf"] = None]
  /\ pc' = Down
  /\ had' = [r \in Resources |-> FALSE]
  /\ tag' = Nothing /\ got' = Nothing /\ served' = Nothing
  /\ origin' = [r \in Resources |-> "none"]
  /\ UNCHANGED <<newest, remote, config, payload, loose, bred>>

\* Run begins, with the street graph.
Boot ==
  /\ pc = Down
  /\ pc' = [r \in Resources |-> IF r \notin remote THEN "up"
                                ELSE IF r = "osm" THEN "image" ELSE "queued"]
  /\ UNCHANGED <<newest, remote, config, budget, disk, had, tag, got, served, origin>>

-----------------------------------------------------------------------------
(* Boot, the street graph.                                                 *)

\* LoadCachedGraphSource: an image whose metadata names the configured URL.
LoadImage ==
  /\ pc["osm"] = "image"
  /\ Cached("gts") /\ Meta("gts", config["osm"]) # None
  /\ Serve("osm", payload["gts"], Trusted("gts", "cache"))
  /\ Goto("osm", "up")
  /\ UNCHANGED <<newest, remote, config, budget, disk, had, tag>>

\* The image does not decode: it is removed.
DiscardImage ==
  /\ pc["osm"] = "image"
  /\ Cached("gts") /\ Meta("gts", config["osm"]) # None
  /\ Spend("faults")
  /\ payload' = [payload EXCEPT !["gts"] = None]
  /\ meta' = [meta EXCEPT !["gts"] = None]
  /\ loose' = loose \ {"gts"}
  /\ had' = [had EXCEPT !["osm"] = Cached("pbf")]
  /\ tag' = [tag EXCEPT !["osm"] = IF Cached("pbf") THEN Meta("pbf", config["osm"]) ELSE None]
  /\ Goto("osm", "fetch")
  /\ UNCHANGED <<newest, remote, config, bred, got, served, origin>>

\* No image of this source: turn to the extract, with its validators if it
\* is in the cache.
SeekExtract ==
  /\ pc["osm"] = "image"
  /\ ~Cached("gts") \/ Meta("gts", config["osm"]) = None
  /\ had' = [had EXCEPT !["osm"] = Cached("pbf")]
  /\ tag' = [tag EXCEPT !["osm"] = IF Cached("pbf") THEN Meta("pbf", config["osm"]) ELSE None]
  /\ Goto("osm", "fetch")
  /\ UNCHANGED <<newest, remote, config, budget, disk, got, served, origin>>

\* Revalidation fails: the cached extract is used, whatever it is.
ExtractFallback ==
  /\ pc["osm"] = "fetch"
  /\ had["osm"]
  /\ Spend("faults")
  /\ got' = [got EXCEPT !["osm"] = payload["pbf"]]
  /\ origin' = [origin EXCEPT !["osm"] = Trusted("pbf", "fallback")]
  /\ Goto("osm", "build")
  /\ UNCHANGED <<newest, remote, config, disk, had, tag, served>>

\* 304.
ExtractUnchanged ==
  /\ pc["osm"] = "fetch"
  /\ had["osm"] /\ tag["osm"] = Newest("osm")
  /\ got' = [got EXCEPT !["osm"] = payload["pbf"]]
  /\ origin' = [origin EXCEPT !["osm"] = Trusted("pbf", "cache")]
  /\ Goto("osm", "build")
  /\ UNCHANGED <<newest, remote, config, budget, disk, had, tag, served>>

\* 200; AdoptFile moves the download into place ...
AdoptExtract ==
  /\ pc["osm"] = "fetch"
  /\ tag["osm"] # Newest("osm")
  /\ got' = [got EXCEPT !["osm"] = Newest("osm")]
  /\ Store("pbf", Newest("osm"))
  /\ Goto("osm", "labelPBF")
  /\ UNCHANGED <<newest, remote, config, budget, meta, bred, had, tag, served, origin>>

\* ... and writes its metadata.
LabelExtract ==
  /\ pc["osm"] = "labelPBF"
  /\ Label("pbf", got["osm"])
  /\ origin' = [origin EXCEPT !["osm"] = "fetch"]
  /\ Goto("osm", "build")
  /\ UNCHANGED <<newest, remote, config, budget, payload, bred, had, tag, got, served>>

\* The metadata cannot be written: retryForever downloads again.
LabelExtractFails ==
  /\ pc["osm"] = "labelPBF"
  /\ Spend("faults")
  /\ meta' \in {meta, [meta EXCEPT !["pbf"] = None]}
  /\ got' = [got EXCEPT !["osm"] = None]
  /\ Goto("osm", "fetch")
  /\ UNCHANGED <<newest, remote, config, payload, loose, bred, had, tag, served, origin>>

\* Mutant of BuildGraph: the extract is dropped before its image exists.
DropEarly ==
  /\ pc["osm"] = "build"
  /\ payload' = [payload EXCEPT !["pbf"] = None]
  /\ Goto("osm", "save")
  /\ UNCHANGED <<newest, remote, config, budget, meta, loose, bred, had, tag, got, served, origin>>

\* BuildFromPBF; only a graph with live updates gets an image.
BuildGraph ==
  /\ pc["osm"] = "build"
  /\ IF got["osm"].url \in LiveURLs
     THEN Goto("osm", "save") /\ UNCHANGED <<got, served, origin>>
     ELSE Goto("osm", "up") /\ Serve("osm", got["osm"], origin["osm"])
  /\ UNCHANGED <<newest, remote, config, budget, disk, had, tag>>

\* StoreGenerated, at boot and in the live loop: the image, then its metadata,
\* which bind it to the configured URL.
SaveImage ==
  /\ pc["osm"] \in {"save", "resave"}
  /\ Store("gts", got["osm"])
  /\ bred' = origin["osm"]
  /\ Goto("osm", IF pc["osm"] = "save" THEN "label" ELSE "relabel")
  /\ UNCHANGED <<newest, remote, config, budget, meta, had, tag, got, served, origin>>

LabelImage ==
  /\ pc["osm"] \in {"label", "relabel"}
  /\ Label("gts", [url |-> config["osm"], ver |-> 0])
  /\ IF pc["osm"] = "label"
     THEN Goto("osm", "drop") /\ UNCHANGED <<got, served, origin>>
     ELSE Goto("osm", "up") /\ Serve("osm", got["osm"], origin["osm"])
  /\ UNCHANGED <<newest, remote, config, budget, payload, bred, had, tag>>

\* Either write fails: the image stays in RAM, and at boot the extract in
\* the cache.
ImageFails ==
  /\ pc["osm"] \in {"save", "label", "resave", "relabel"}
  /\ Spend("faults")
  /\ \/ meta' = meta
     \/ pc["osm"] \in {"label", "relabel"} /\ meta' = [meta EXCEPT !["gts"] = None]
  /\ Serve("osm", got["osm"], origin["osm"])
  /\ Goto("osm", "up")
  /\ UNCHANGED <<newest, remote, config, payload, loose, bred, had, tag>>

\* Cache.Remove: the extract's payload, then its metadata.
DropExtract ==
  /\ pc["osm"] = "drop"
  /\ payload' = [payload EXCEPT !["pbf"] = None]
  /\ loose' = loose \ {"pbf"}
  /\ Goto("osm", "dropMeta")
  /\ UNCHANGED <<newest, remote, config, budget, meta, bred, had, tag, got, served, origin>>

DropExtractMeta ==
  /\ pc["osm"] = "dropMeta"
  /\ meta' = [meta EXCEPT !["pbf"] = None]
  /\ Serve("osm", got["osm"], origin["osm"])
  /\ Goto("osm", "up")
  /\ UNCHANGED <<newest, remote, config, budget, payload, loose, bred, had, tag>>

\* The live loop follows the stream the graph itself names.
FollowDiffs ==
  /\ pc["osm"] = "up"
  /\ served["osm"].url \in LiveURLs
  /\ served["osm"].ver < newest[served["osm"].url]
  /\ got' = [got EXCEPT !["osm"] = [@ EXCEPT !.url = served["osm"].url,
                                            !.ver = newest[served["osm"].url]]]
  /\ Goto("osm", "resave")
  /\ UNCHANGED <<newest, remote, config, budget, disk, had, tag, served, origin>>

-----------------------------------------------------------------------------
(* Boot, a GTFS feed, and its live loop.                                   *)

\* The graph is there: seed the conditional GET with the cached validators.
SeedFeed ==
  /\ pc["gtfs"] = "queued" /\ pc["osm"] = "up"
  /\ had' = [had EXCEPT !["gtfs"] = Cached("zip")]
  /\ tag' = [tag EXCEPT !["gtfs"] = IF Cached("zip") THEN Meta("zip", config["gtfs"]) ELSE None]
  /\ Goto("gtfs", "fetch")
  /\ UNCHANGED <<newest, remote, config, budget, disk, got, served, origin>>

\* Mutant of FeedFallback: the validators kept are not those of the metadata
\* but of what the failed request asked for.
FallbackAsNewest ==
  /\ pc["gtfs"] = "fetch"
  /\ had["gtfs"]
  /\ Spend("faults")
  /\ Serve("gtfs", payload["zip"], Trusted("zip", "fallback"))
  /\ tag' = [tag EXCEPT !["gtfs"] = Newest("gtfs")]
  /\ Goto("gtfs", "up")
  /\ UNCHANGED <<newest, remote, config, disk, had>>

\* Revalidation fails: the cached ZIP is installed, whatever it is, with the
\* validators its metadata have for the configured URL.
FeedFallback ==
  /\ pc["gtfs"] = "fetch"
  /\ had["gtfs"]
  /\ Spend("faults")
  /\ Serve("gtfs", payload["zip"], Trusted("zip", "fallback"))
  /\ Goto("gtfs", "up")
  /\ UNCHANGED <<newest, remote, config, disk, had, tag>>

\* 304, or the same bytes again.
FeedUnchanged ==
  /\ pc["gtfs"] = "fetch"
  /\ had["gtfs"] /\ tag["gtfs"] = Newest("gtfs")
  /\ Serve("gtfs", payload["zip"], Trusted("zip", "cache"))
  /\ Goto("gtfs", "up")
  /\ UNCHANGED <<newest, remote, config, budget, disk, had, tag>>

\* 200, at boot or at a live poll.
FeedChanged ==
  /\ pc["gtfs"] \in {"fetch", "up"} /\ "gtfs" \in remote
  /\ tag["gtfs"] # Newest("gtfs")
  /\ got' = [got EXCEPT !["gtfs"] = Newest("gtfs")]
  /\ Goto("gtfs", "store")
  /\ UNCHANGED <<newest, remote, config, budget, disk, had, tag, served, origin>>

\* StoreBytes: the payload ...
StoreFeed ==
  /\ pc["gtfs"] = "store"
  /\ Store("zip", got["gtfs"])
  /\ Goto("gtfs", "label")
  /\ UNCHANGED <<newest, remote, config, budget, meta, bred, had, tag, got, served, origin>>

\* ... and its validators; then the feed is installed and compiled.
LabelFeed ==
  /\ pc["gtfs"] = "label"
  /\ Label("zip", got["gtfs"])
  /\ tag' = [tag EXCEPT !["gtfs"] = got["gtfs"]]
  /\ Serve("gtfs", got["gtfs"], "fetch")
  /\ Goto("gtfs", "up")
  /\ UNCHANGED <<newest, remote, config, budget, payload, bred, had>>

\* Mutant of StoreFails: the validators are written although the payload
\* could not be.
LabelAnyway ==
  /\ pc["gtfs"] = "store"
  /\ Spend("faults")
  /\ Label("zip", got["gtfs"])
  /\ tag' = [tag EXCEPT !["gtfs"] = got["gtfs"]]
  /\ Serve("gtfs", got["gtfs"], "fetch")
  /\ Goto("gtfs", "up")
  /\ UNCHANGED <<newest, remote, config, payload, bred, had>>

\* Either write fails: the bytes are installed from RAM.
StoreFails ==
  /\ pc["gtfs"] \in {"store", "label"}
  /\ Spend("faults")
  /\ \/ meta' = meta
     \/ pc["gtfs"] = "label" /\ meta' = [meta EXCEPT !["zip"] = None]
  /\ tag' = [tag EXCEPT !["gtfs"] = got["gtfs"]]
  /\ Serve("gtfs", got["gtfs"], "fetch")
  /\ Goto("gtfs", "up")
  /\ UNCHANGED <<newest, remote, config, payload, loose, bred, had>>

-----------------------------------------------------------------------------
OSM ==
  \/ LoadImage \/ DiscardImage \/ SeekExtract
  \/ ExtractFallback \/ ExtractUnchanged \/ AdoptExtract \/ LabelExtract \/ LabelExtractFails
  \/ BuildGraph \/ SaveImage \/ LabelImage \/ ImageFails \/ DropExtract \/ DropExtractMeta
  \/ FollowDiffs

Feed ==
  \/ SeedFeed \/ FeedFallback \/ FeedUnchanged \/ FeedChanged
  \/ StoreFeed \/ LabelFeed \/ StoreFails

Next ==
  \/ \E u \in URLs : Publish(u)
  \/ \E r \in Resources : SwitchURL(r)
  \/ Crash
  \/ Boot
  \/ OSM
  \/ Feed

Spec == Init /\ [][Next]_vars

\* A stopped server is started again; its goroutines run.
FairSpec == Spec /\ WF_vars(Boot) /\ WF_vars(OSM) /\ WF_vars(Feed)

-----------------------------------------------------------------------------
(* Properties.                                                             *)

OSMLabels == {"down", "image", "fetch", "labelPBF", "build", "save", "label", "drop",
              "dropMeta", "resave", "relabel", "up"}
Origins == {"none", "fetch", "cache", "fallback", "torn", "mislabelled"}
FeedLabels == {"down", "queued", "fetch", "store", "label", "up"}

\* Every variable has its type (the three cache files, the locals of Run and
\* syncRemoteFeed, what the engine serves); a process that is down holds
\* nothing, and one that has nothing at hand is not building or saving it.
TypeOK ==
  /\ newest \in [URLs -> Nat] /\ remote \in Setups /\ config \in [Resources -> URLs]
  /\ budget \in [{"switches", "crashes", "faults"} -> Nat]
  /\ payload \in [Files -> Data] /\ meta \in [Files -> Data]
  /\ loose \subseteq Files /\ bred \in Origins
  /\ pc \in [Resources -> OSMLabels \cup FeedLabels]
  /\ pc["osm"] \in OSMLabels /\ pc["gtfs"] \in FeedLabels
  /\ had \in [Resources -> BOOLEAN] /\ tag \in [Resources -> Data]
  /\ got \in [Resources -> Data] /\ served \in [Resources -> Data]
  /\ origin \in [Resources -> Origins]
  /\ \A r \in Resources : pc[r] = "down" => got[r] = None /\ served[r] = None
  /\ pc["osm"] \in {"labelPBF", "build", "save", "label", "drop", "dropMeta", "resave", "relabel"}
       => got["osm"] # None
  /\ pc["gtfs"] \in {"store", "label"} => got["gtfs"] # None

\* r answers queries from a source that is not the one configured.
Stale(r) == served[r] # None /\ served[r].url # config[r]

\* An image keeps the data of a graph that was foreign when it was saved.
Foreign == {"fallback", "torn", "mislabelled"}

\* Why r serves, or is building, another source's data.
Cause(r) ==
  \/ origin[r] \in {"fallback", "torn"}
  \/ r = "osm" /\ origin[r] = "mislabelled" /\ bred \in Foreign

\* What a server serves comes from the configured source, however often it
\* crashed and was reconfigured, but for three causes: it could not reach the
\* source at boot and fell back on the cache; it trusted a file whose metadata
\* name the configured URL because a crash or a failed write kept those of the
\* payload from being written (cache.go Meta); or it loaded an image saved from
\* a graph that was foreign for such a cause, which StoreGenerated labels with
\* the configured URL all the same (boot.go), so that it stays foreign when the
\* source is back. A feed knows no third cause: its label is that of its bytes.
StaleHasCause == \A r \in Resources : Stale(r) => Cause(r)

\* A feed whose next poll would be answered 304 serves the newest ZIP, whatever
\* write failed and wherever a crash fell between StoreBytes' two writes. One
\* exception: a ZIP of another source under the configured one's validators,
\* left by such a crash (or failed write) before the configuration came back to
\* the source those validators are of; only a new publication ends that.
ValidatorsHonest ==
  pc["gtfs"] = "up" /\ tag["gtfs"] = Newest("gtfs") =>
    \/ served["gtfs"] \in {None, tag["gtfs"]}
    \/ Stale("gtfs") /\ origin["gtfs"] = "torn"

\* Once an extract has reached the cache it is dropped only for its image: at
\* every instant a crash finds one of the two (boot.go's order of
\* SetGraphSource and cache.Remove), unless the image turned out unreadable.
ExtractOrImage ==
  [][(Cached("pbf") \/ Cached("gts")) /\ ~DiscardImage => (Cached("pbf") \/ Cached("gts"))']_vars

\* However it booted, a server that stays up ends up serving the newest
\* publication of the configured feed, and of the extract if it has live
\* updates, unless it trusted another source's ZIP under the configured one's
\* validators, or its graph is another source's (fallback, torn extract or
\* image, or image of such a graph): the loop follows the stream of that one.
Recovers ==
  <>[](/\ \A r \in remote : pc[r] = "up"
       /\ "gtfs" \in remote =>
            served["gtfs"] = Newest("gtfs") \/ (Stale("gtfs") /\ origin["gtfs"] = "torn")
       /\ "osm" \in remote /\ config["osm"] \in LiveURLs =>
            served["osm"] = Newest("osm") \/ Stale("osm"))

\* "A meta whose URL no longer matches the config is ignored, so switching
\* sources never serves stale data" (cache.go): true at least of a server that
\* reached its sources.
SwitchNeverServesStale == \A r \in Resources : Stale(r) => origin[r] = "fallback"

-----------------------------------------------------------------------------
(* The inductive invariant behind the safety properties (SourceCacheProofs). *)

\* Data that exists was published.
Published(d) == d = None \/ (d.url \in URLs /\ d.ver <= newest[d.url])

\* Validators are those of the configured source; a process that is down has
\* none.
DataInv ==
  /\ \A n \in Files : Published(payload[n]) /\ Published(meta[n])
  /\ \A r \in Resources : /\ Published(tag[r]) /\ Published(got[r])
                          /\ tag[r] # None => pc[r] # "down" /\ tag[r].url = config[r]

\* Validators on disk or sent lag behind the bytes they stand beside, never
\* ahead of them.
FeedInv ==
  /\ payload["zip"] # None /\ meta["zip"].url = payload["zip"].url
       => meta["zip"].ver <= payload["zip"].ver
  /\ pc["gtfs"] = "fetch" => /\ tag["gtfs"] # None => tag["gtfs"] = meta["zip"]
                             /\ had["gtfs"] => Cached("zip")
  /\ pc["gtfs"] \in {"store", "label"} =>
       /\ got["gtfs"].url = config["gtfs"]
       /\ meta["zip"].url = got["gtfs"].url => meta["zip"].ver <= got["gtfs"].ver
  /\ pc["gtfs"] = "label" => payload["zip"] = got["gtfs"]

\* The validators sent for the extract are those of the cached one, or too old
\* to be answered 304; what is built comes from the configured source, or is
\* known not to; an image that replaces the extract is there; nothing is served
\* before the boot of the graph is over.
ExtractInv ==
  /\ pc["osm"] \in {"fetch", "labelPBF"} /\ had["osm"] => Cached("pbf")
  /\ pc["osm"] \in {"fetch", "labelPBF"} /\ tag["osm"] # None =>
       \/ pc["osm"] = "fetch" /\ tag["osm"] = meta["pbf"]
       \/ tag["osm"].ver < newest[config["osm"]]
  /\ pc["osm"] = "labelPBF" => got["osm"].url = config["osm"]
  /\ pc["osm"] # "labelPBF" /\ got["osm"] # None => got["osm"].url = config["osm"] \/ Cause("osm")
  /\ pc["osm"] \in {"label", "relabel", "drop", "dropMeta"} => Cached("gts")
  /\ pc["osm"] \notin {"resave", "relabel", "up"} => served["osm"] = None

\* A file whose metadata are of another source than its payload is one whose
\* metadata are older, or an image of a foreign graph.
LabelInv ==
  /\ \A n \in {"zip", "pbf"} : Torn(n) => n \in loose
  /\ Torn("gts") => "gts" \in loose \/ bred \in Foreign
  /\ pc["osm"] = "labelPBF" => payload["pbf"] = got["osm"]
  /\ pc["osm"] \in {"label", "relabel"} => payload["gts"] = got["osm"] /\ bred = origin["osm"]

IInv ==
  /\ TypeOK /\ DataInv /\ FeedInv /\ ExtractInv /\ LabelInv
  /\ StaleHasCause /\ ValidatorsHonest
====
