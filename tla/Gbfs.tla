---- MODULE Gbfs ----
(***************************************************************************)
(* internal/gbfs Manager, one shared-mobility system: its poller discovers *)
(* the documents the operator links, fetches them side by side and, when   *)
(* the whole set is there and parses, commits and publishes them.  Systems *)
(* share only the lock under which a feed is put into the snapshot.        *)
(*                                                                         *)
(* A document is the generation of the URLs it was fetched from, its age   *)
(* and whether its body has any bytes: an empty answer counts as fetched   *)
(* and reads as missing.  system_information, vehicle_types,               *)
(* station_information and geofencing_zones are one document, static.      *)
(* Times are ages, which stop growing when they no longer matter.          *)
(***************************************************************************)
EXTENDS Naturals

CONSTANTS
  Layouts,       \* the sets of documents an operator may link
  Stamped,       \* the documents that carry last_updated
  MaxAge,        \* Source.MaxAge
  StaticAge,     \* static documents are fetched again at this age
  DiscoveryAge,  \* and the links, at this one
  MaxMoves,      \* bound: changes of the operator's links
  MaxFaults      \* bound: fetches and parses that fail for no lasting reason

Dynamic == {"station_status", "vehicle_status", "free_bike_status"}
Names == Dynamic \cup {"static"}

ASSUME ConstantsAssumption ==
  /\ Layouts \subseteq SUBSET Names \ {{}} /\ Stamped \subseteq Names
  /\ MaxAge \in Nat \ {0} /\ StaticAge \in Nat \ {0} /\ DiscoveryAge \in Nat \ {0}
  /\ MaxMoves \in Nat /\ MaxFaults \in Nat

VARIABLES
  site,          \* what gbfs.json links: document names, generation (external)
  dataAge,       \* age of the documents the operator serves (external)
  faults,        \* failures so far
  pc,            \* is the poller between polls, or fetching documents?
  links,         \* sourceState.links
  linkAge,       \* ... and the time since they were discovered
  refreshStatic, \* the local flag of refreshSource
  pending,       \* documents asked for and not yet answered
  incoming,      \* the local copy of docs the answers go into
  docs,          \* sourceState.docs
  staticAge,     \* time since sourceState.staticAt
  feed,          \* the feed in the published snapshot
  staticLost     \* history: a refresh that had to fetch static has failed,
                 \* and no such refresh has succeeded since

operator == <<site, dataAge>>
refresh == <<refreshStatic, pending, incoming>>
committed == <<docs, staticAge, feed>>
vars == <<operator, faults, pc, links, linkAge, refresh, committed, staticLost>>

NoDoc == [gen |-> 0, age |-> 0, body |-> FALSE]
NoDocs == [n \in Names |-> NoDoc]
NoLinks == [names |-> {}, gen |-> 0]

\* linked: the documents linked when it was fetched (history).
NoFeed == [fetched |-> FALSE, age |-> 0, docs |-> NoDocs, linked |-> {}]

Init ==
  /\ \E names \in Layouts : site = [names |-> names, gen |-> 1]
  /\ dataAge = 0
  /\ faults = 0
  /\ pc = "idle"
  /\ links = NoLinks /\ linkAge = DiscoveryAge
  /\ refreshStatic = FALSE /\ pending = {} /\ incoming = NoDocs
  /\ docs = NoDocs /\ staticAge = StaticAge
  /\ feed = NoFeed
  /\ staticLost = FALSE

Fault ==
  /\ faults < MaxFaults
  /\ faults' = faults + 1

-----------------------------------------------------------------------------
(* Time, and the operator.                                                 *)

Older(age, limit) == IF age < limit THEN age + 1 ELSE age

Aged(d) == [n \in Names |-> IF d[n] = NoDoc THEN NoDoc
                            ELSE [d[n] EXCEPT !.age = Older(@, MaxAge + 1)]]

\* A unit of time is longer than a refresh, whose fetches are given 20 s.
Tick ==
  /\ pc = "idle"
  /\ dataAge' = Older(dataAge, MaxAge + 1)
  /\ linkAge' = Older(linkAge, DiscoveryAge)
  /\ staticAge' = Older(staticAge, StaticAge)
  /\ docs' = Aged(docs)
  /\ feed' = IF feed.fetched
             THEN [feed EXCEPT !.age = Older(@, MaxAge + 1), !.docs = Aged(@)]
             ELSE feed
  /\ UNCHANGED <<site, faults, pc, links, refresh, staticLost>>

Update ==
  /\ dataAge' = 0
  /\ UNCHANGED <<site, faults, pc, links, linkAge, refresh, committed, staticLost>>

\* Other documents are linked, or all of them have moved to new URLs.
Move ==
  /\ site.gen <= MaxMoves
  /\ \E names \in Layouts : site' = [names |-> names, gen |-> site.gen + 1]
  /\ UNCHANGED <<dataAge, faults, pc, links, linkAge, refresh, committed, staticLost>>

-----------------------------------------------------------------------------
(* refreshSource.                                                          *)

NeedsDiscovery == links.names = {} \/ linkAge >= DiscoveryAge

\* The documents to fetch: all that change, and the static ones if they are
\* due or not there.
Wanted(names, static) ==
  {n \in names : n \in Dynamic \/ static \/ ~docs[n].body}

Fetch(names, static) ==
  /\ refreshStatic' = static
  /\ pending' = Wanted(names, static)
  /\ incoming' = docs
  /\ pc' = "fetch"

\* Mutant of Discover: the static documents keep their own rhythm.
DiscoverLinksOnly ==
  /\ pc = "idle"
  /\ NeedsDiscovery
  /\ links' = site
  /\ linkAge' = 0
  /\ Fetch(site.names, docs = NoDocs \/ staticAge >= StaticAge)
  /\ UNCHANGED <<operator, faults, committed, staticLost>>

\* Mutant of Discover: links once known are kept.
DiscoverOnce ==
  /\ pc = "idle"
  /\ links.names = {}
  /\ links' = site
  /\ linkAge' = 0
  /\ Fetch(site.names, TRUE)
  /\ UNCHANGED <<operator, faults, committed, staticLost>>

\* gbfs.json answers; its links replace the ones known, whatever becomes of
\* the documents.
Discover ==
  /\ pc = "idle"
  /\ NeedsDiscovery
  /\ links' = site
  /\ linkAge' = 0
  /\ Fetch(site.names, TRUE)
  /\ UNCHANGED <<operator, faults, committed, staticLost>>

DiscoverFails ==
  /\ pc = "idle"
  /\ NeedsDiscovery
  /\ Fault
  /\ UNCHANGED <<operator, pc, links, linkAge, refresh, committed, staticLost>>

BeginRefresh ==
  /\ pc = "idle"
  /\ ~NeedsDiscovery
  /\ Fetch(links.names, docs = NoDocs \/ staticAge >= StaticAge)
  /\ UNCHANGED <<operator, faults, links, linkAge, committed, staticLost>>

Answer(n, d) ==
  /\ n \in pending
  /\ incoming' = [incoming EXCEPT ![n] = d]
  /\ pending' = pending \ {n}
  /\ UNCHANGED <<operator, pc, links, linkAge, refreshStatic, committed, staticLost>>

\* An operator that has moved may keep the URLs of before alive for a while.
FetchDoc(n) ==
  /\ Answer(n, [gen |-> links.gen, age |-> IF n \in Stamped THEN dataAge ELSE 0, body |-> TRUE])
  /\ UNCHANGED faults

\* A successful answer without a body.
FetchEmpty(n) ==
  /\ Fault
  /\ Answer(n, [gen |-> links.gen, age |-> 0, body |-> FALSE])

\* refreshSource returns an error: what was fetched is dropped, the feed
\* published before stays (recordError changes its LastError only).
GiveUp ==
  /\ pc' = "idle"
  /\ refreshStatic' = FALSE /\ pending' = {} /\ incoming' = NoDocs
  /\ staticLost' = (staticLost \/ refreshStatic)
  /\ UNCHANGED <<operator, links, linkAge, docs, staticAge>>

\* Mutant of FetchFails: what could be fetched is good enough.
FetchSkipped(n) ==
  /\ n \in pending
  /\ IF links.gen = site.gen THEN Fault ELSE UNCHANGED faults
  /\ pending' = pending \ {n}
  /\ UNCHANGED <<operator, pc, links, linkAge, refreshStatic, incoming, committed, staticLost>>

\* Mutant of FetchFails: recordError stamps the copy it publishes.
FailureStamped(n) ==
  /\ n \in pending
  /\ IF links.gen = site.gen THEN Fault ELSE UNCHANGED faults
  /\ GiveUp
  /\ feed' = [feed EXCEPT !.age = 0]

\* The fetch of n fails; that needs no fault once the operator has moved.
FetchFails(n) ==
  /\ n \in pending
  /\ IF links.gen = site.gen THEN Fault ELSE UNCHANGED faults
  /\ GiveUp
  /\ UNCHANGED feed

Fetched == pc = "fetch" /\ pending = {}
Availability(d) == \E n \in Dynamic : d[n].body

\* parseFeed fails, or there is no availability in the set.
ParseFails ==
  /\ Fetched
  /\ IF Availability(incoming) THEN Fault ELSE UNCHANGED faults
  /\ GiveUp
  /\ UNCHANGED feed

\* Commit the documents, publish the feed made of them.
Install ==
  /\ Fetched
  /\ Availability(incoming)
  /\ docs' = incoming
  /\ staticAge' = IF refreshStatic THEN 0 ELSE staticAge
  /\ feed' = [fetched |-> TRUE, age |-> 0, docs |-> incoming, linked |-> links.names]
  /\ staticLost' = (staticLost /\ ~refreshStatic)
  /\ pc' = "idle"
  /\ refreshStatic' = FALSE /\ incoming' = NoDocs
  /\ UNCHANGED <<operator, faults, pending, links, linkAge>>

Refresh ==
  \/ Discover \/ DiscoverFails \/ BeginRefresh
  \/ \E n \in Names : FetchDoc(n) \/ FetchEmpty(n) \/ FetchFails(n)
  \/ ParseFails \/ Install

Next ==
  \/ Tick \/ Update \/ Move
  \/ Refresh

Spec == Init /\ [][Next]_vars

\* Time passes, also between refreshes, and the poller's ticker fires.
FairSpec == Spec /\ SF_vars(Tick) /\ WF_vars(Refresh)

-----------------------------------------------------------------------------
(* What queries make of the feed.                                          *)

\* parseFeed reads free_bike_status only when there is no vehicle_status.
Read(n) ==
  /\ feed.docs[n].body
  /\ n = "free_bike_status" => ~feed.docs["vehicle_status"].body

Dated == {n \in Stamped : Read(n)}

\* Feed.Fresh: by the newest availability document, else by the newest
\* document, else by the refresh.
Fresh ==
  /\ feed.fetched
  /\ IF Dated \cap Dynamic # {} THEN \E n \in Dated \cap Dynamic : feed.docs[n].age <= MaxAge
     ELSE IF Dated # {} THEN \E n \in Dated : feed.docs[n].age <= MaxAge
     ELSE feed.age <= MaxAge

\* endpointStale
EndpointStale(n) ==
  IF n \in Stamped THEN feed.docs[n].age > MaxAge ELSE feed.age > MaxAge

\* Stations or vehicles of document n may be promised to riders.
Offered(n) == Read(n) /\ Fresh /\ ~EndpointStale(n)

-----------------------------------------------------------------------------
(* Properties.                                                             *)

Doc == [gen : Nat, age : 0..(MaxAge + 1), body : BOOLEAN]
Docs == [Names -> Doc]

\* Every variable has its type (Manager, sourceState, the locals of
\* refreshSource); the locals are gone when the poller waits.
TypeOK ==
  /\ site \in [names : SUBSET Names, gen : Nat] /\ dataAge \in 0..(MaxAge + 1)
  /\ faults \in Nat /\ pc \in {"idle", "fetch"}
  /\ links \in [names : SUBSET Names, gen : Nat] /\ linkAge \in 0..DiscoveryAge
  /\ refreshStatic \in BOOLEAN /\ pending \subseteq links.names
  /\ incoming \in Docs /\ docs \in Docs /\ staticAge \in 0..StaticAge
  /\ feed \in [fetched : BOOLEAN, age : 0..(MaxAge + 1), docs : Docs, linked : SUBSET Names]
  /\ staticLost \in BOOLEAN
  /\ pc = "idle" => pending = {} /\ incoming = NoDocs /\ ~refreshStatic

\* "Readers only ever observe complete snapshots: a half-downloaded GBFS
\* update is never published" (manager.go), as far as completeness goes: a
\* published feed has an answer for every document that was linked (an empty
\* one will do), and some availability.
CompleteSnapshots ==
  feed.fetched =>
    /\ Availability(feed.docs)
    /\ \A n \in feed.linked : feed.docs[n] # NoDoc

\* No rider is promised what nobody has seen for longer than MaxAge: neither
\* failed refreshes nor documents carried over after their link went keep
\* availability alive, but for a carried document that bears no time stamp
\* (model.go Fresh, query.go endpointStale).
OfferedIsRecent ==
  \A n \in Dynamic :
    Offered(n) => feed.docs[n].age <= MaxAge \/ n \notin Stamped \cup feed.linked

\* The linked documents of the published feed are of one generation, unless a
\* refresh that was to fetch the static ones failed after its discovery had
\* already been recorded.
MixedHasCause ==
  ~staticLost => \A m, n \in feed.linked : feed.docs[m].gen = feed.docs[n].gen

\* When an operator's links have changed for the last time, every document it
\* links reaches the published feed and is read, whichever answers were empty
\* in between, but for a free_bike_status that the vehicle_status of earlier
\* times shadows.
CatchesUp ==
  <>[](\A n \in site.names :
         /\ feed.docs[n].gen = site.gen
         /\ Read(n) \/ n = "free_bike_status")

\* "a half-downloaded GBFS update is never published" (manager.go): what is
\* published together was linked together.
HalfUpdateNeverPublished ==
  \A m, n \in feed.linked : feed.docs[m].gen = feed.docs[n].gen

-----------------------------------------------------------------------------
(* The inductive invariant behind the theorems of GbfsProofs.              *)

\* Links, once known, have a generation.
LinkInv == site.gen > 0 /\ (links.names # {} => links.gen > 0)

\* The answers that are in are those the links lead to; without news of its
\* time, a document is as old as the refresh, which is over in no time.
FetchInv ==
  pc = "fetch" =>
    \A n \in links.names \ pending :
      /\ incoming[n] # NoDoc
      /\ refreshStatic \/ n \in Dynamic => incoming[n].gen = links.gen
      /\ ~refreshStatic /\ n = "static" => incoming[n].gen \in {links.gen, docs[n].gen}
      /\ n \in Dynamic \ Stamped => incoming[n].age = 0

\* No refresh in want of the static documents having failed, the ones at hand
\* are of the links' generation.
StaticInv ==
  ~staticLost /\ ~(pc = "fetch" /\ refreshStatic) /\ "static" \in links.names
    => docs["static"].gen = links.gen

\* Published availability that bears no time ages with its refresh.
FeedInv ==
  feed.fetched =>
    \A n \in (feed.linked \cap Dynamic) \ Stamped : feed.docs[n].age = feed.age

IInv ==
  /\ TypeOK /\ LinkInv /\ FetchInv /\ StaticInv /\ FeedInv
  /\ CompleteSnapshots /\ MixedHasCause
====
