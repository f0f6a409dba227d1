---- MODULE Updater ----
(***************************************************************************)
(* internal/updater: the live-update loops of a booted server.  One        *)
(* goroutine per GTFS feed polls its source, one goroutine follows the     *)
(* OSM diffs; all of them rebuild and swap the timetable bundle, and the   *)
(* OSM one swaps the graph bundle, under the readers of internal/engine.   *)
(*                                                                         *)
(* Data is abstracted to versions: the n-th ZIP an agency published is n,  *)
(* an OSM image is its replication sequence and the set of diffs folded    *)
(* into it.  Version 0 means "nothing there".                              *)
(***************************************************************************)
EXTENDS Integers

CONSTANTS
  NFeeds,        \* number of [[feed]] entries; a feed is its index
  LocalFeeds,    \* the feeds read in place from a local path
  CacheEnabled,  \* is [cache] dir configured?
  MaxVersion,    \* bound: ZIPs an agency publishes
  MaxSeq,        \* bound: diffs the replication server publishes
  MaxFaults      \* bound: I/O, parse and compile failures in a run

Feeds == 1..NFeeds
OSM   == 0                      \* the OSM goroutine
Loops == Feeds \cup {OSM}
NoLoop == -1

ASSUME ConstantsAssumption ==
  /\ NFeeds \in Nat
  /\ LocalFeeds \subseteq Feeds
  /\ CacheEnabled \in BOOLEAN
  /\ MaxVersion \in Nat /\ MaxSeq \in Nat /\ MaxFaults \in Nat

VARIABLES
  upstream,   \* upstream[f]: newest version published by the agency (external)
  remoteSeq,  \* sequence in the replication server's state.txt (external)
  faults,     \* failures so far
  pc,         \* pc[l]: where the goroutine of loop l stands
  fetched,    \* fetched[f]: the version a poll has just downloaded
  disk,       \* disk[f]: payload of gtfs-<f>.zip in the cache directory
  fdFile,     \* fdFile[f]: feedData.path is set (the ZIP is read from disk)
  fdZip,      \* fdZip[f]: feedData.zip, the bytes kept in RAM
  known,      \* known[f]: version of feedData's validators, or of its mtime
  diskSrc,    \* image in graph-source.gts
  srcFile,    \* srcPath is set (the image is read from disk)
  srcBlob,    \* srcBlob, the image kept in RAM
  target,     \* the sequence the OSM goroutine is catching up with
  candidate,  \* the image it has folded the pending diffs into
  graph,      \* engine.gb: image the served graph was assembled from
  ttFeeds,    \* engine.tb: versions the served timetable was compiled from
  ttAnchor,   \* engine.tb: sequence of the graph it was compiled against
  rebuildMu,  \* which loop is inside RebuildTimetable
  base,       \* base[l]: the graph l's rebuild captured
  nread,      \* nread[l]: how many feeds l's rebuild has parsed
  parsed,     \* parsed[l][f]: the version of f it parsed
  rebuildErr  \* history: did the last finished rebuild return an error?

envVars  == <<upstream, remoteSeq>>
feedVars == <<fetched, disk, fdFile, fdZip, known>>
srcVars  == <<diskSrc, srcFile, srcBlob, target, candidate>>
ttVars   == <<ttFeeds, ttAnchor>>
jobVars  == <<rebuildMu, base, nread, parsed, rebuildErr>>
vars == <<envVars, faults, pc, feedVars, srcVars, graph, ttVars, jobVars>>

Image == [seq : Nat, diffs : SUBSET Nat]
NoImage == [seq |-> 0, diffs |-> {}]

\* The extract a server boots from already holds every diff up to its own.
BootImage == [seq |-> 1, diffs |-> {1}]

\* What LoadFeeds reads for f: a local feed's own path, else the cached ZIP
\* if feedData.path is set, else the bytes in RAM.
Readable(f) ==
  IF f \in LocalFeeds THEN upstream[f]
  ELSE IF fdFile[f] THEN disk[f] ELSE fdZip[f]

\* What loadGraphSource decodes.
GraphSource == IF srcFile THEN diskSrc ELSE srcBlob

\* The state boot hands to Start: every feed installed and compiled, the
\* graph and its image at hand, on disk or (cache off, or its write failed)
\* in RAM.
Init ==
  /\ upstream = [f \in Feeds |-> 1]
  /\ remoteSeq = 1
  /\ faults = 0
  /\ pc = [l \in Loops |-> "idle"]
  /\ fetched = [f \in Feeds |-> 0]
  /\ disk \in [Feeds -> {0, 1}]
  /\ fdFile = [f \in Feeds |-> f \notin LocalFeeds /\ disk[f] = 1]
  /\ fdZip = [f \in Feeds |-> IF f \in LocalFeeds \/ fdFile[f] THEN 0 ELSE 1]
  /\ \A f \in Feeds : disk[f] = 1 => CacheEnabled /\ f \notin LocalFeeds
  /\ known = [f \in Feeds |-> 1]
  /\ srcFile \in BOOLEAN
  /\ srcFile => CacheEnabled
  /\ diskSrc = IF srcFile THEN BootImage ELSE NoImage
  /\ srcBlob = IF srcFile THEN NoImage ELSE BootImage
  /\ target = 0
  /\ candidate = NoImage
  /\ graph = BootImage
  /\ ttFeeds = [f \in Feeds |-> 1]
  /\ ttAnchor = 1
  /\ rebuildMu = NoLoop
  /\ base = [l \in Loops |-> 0]
  /\ nread = [l \in Loops |-> 0]
  /\ parsed = [l \in Loops |-> [f \in Feeds |-> 0]]
  /\ rebuildErr = FALSE

Goto(l, label) == pc' = [pc EXCEPT ![l] = label]

Fault ==
  /\ faults < MaxFaults
  /\ faults' = faults + 1

-----------------------------------------------------------------------------
(* The outside world: versions only grow (an agency that goes back to an   *)
(* old timetable publishes it anew).                                       *)

PublishFeed(f) ==
  /\ upstream[f] < MaxVersion
  /\ upstream' = [upstream EXCEPT ![f] = @ + 1]
  /\ UNCHANGED <<remoteSeq, faults, pc, feedVars, srcVars, graph, ttVars, jobVars>>

PublishDiff ==
  /\ remoteSeq < MaxSeq
  /\ remoteSeq' = remoteSeq + 1
  /\ UNCHANGED <<upstream, faults, pc, feedVars, srcVars, graph, ttVars, jobVars>>

-----------------------------------------------------------------------------
(* The GTFS loops.  A poll that fails, is answered 304, or downloads the   *)
(* content it already has leaves everything as it was.                     *)

\* syncRemoteFeed up to the answer: the validators sent are those of known.
PollRemoteFeed(f) ==
  /\ f \notin LocalFeeds
  /\ pc[f] = "idle"
  /\ upstream[f] # known[f]
  /\ fetched' = [fetched EXCEPT ![f] = upstream[f]]
  /\ Goto(f, "store")
  /\ UNCHANGED <<envVars, faults, disk, fdFile, fdZip, known, srcVars, graph, ttVars, jobVars>>

\* Cache.StoreBytes succeeds: payload renamed into place, validators written.
StoreFeed(f) ==
  /\ CacheEnabled
  /\ pc[f] = "store"
  /\ disk' = [disk EXCEPT ![f] = fetched[f]]
  /\ Goto(f, "installFile")
  /\ UNCHANGED <<envVars, faults, fetched, fdFile, fdZip, known, srcVars, graph, ttVars, jobVars>>

\* Mutant of StoreFeedInRAM: the result of StoreBytes is not looked at.
StoreErrorIgnored(f) ==
  /\ pc[f] = "store"
  /\ Goto(f, "installFile")
  /\ \/ ~CacheEnabled /\ UNCHANGED faults
     \/ CacheEnabled /\ Fault
  /\ UNCHANGED <<envVars, fetched, disk, fdFile, fdZip, known, srcVars, graph, ttVars, jobVars>>

\* Cache.StoreBytes fails, before the rename or (writing the validators)
\* after it, or there is no cache: the bytes stay in RAM.
StoreFeedInRAM(f) ==
  /\ pc[f] = "store"
  /\ Goto(f, "installZip")
  /\ \/ ~CacheEnabled /\ UNCHANGED <<faults, disk>>
     \/ CacheEnabled /\ Fault /\ UNCHANGED disk
     \/ CacheEnabled /\ Fault /\ disk' = [disk EXCEPT ![f] = fetched[f]]
  /\ UNCHANGED <<envVars, fetched, fdFile, fdZip, known, srcVars, graph, ttVars, jobVars>>

InstallFeedFile(f) ==
  /\ pc[f] = "installFile"
  /\ fdFile' = [fdFile EXCEPT ![f] = TRUE]
  /\ fdZip' = [fdZip EXCEPT ![f] = 0]
  /\ known' = [known EXCEPT ![f] = fetched[f]]
  /\ fetched' = [fetched EXCEPT ![f] = 0]
  /\ Goto(f, "wait")
  /\ UNCHANGED <<envVars, faults, disk, srcVars, graph, ttVars, jobVars>>

InstallFeedZip(f) ==
  /\ pc[f] = "installZip"
  /\ fdFile' = [fdFile EXCEPT ![f] = FALSE]
  /\ fdZip' = [fdZip EXCEPT ![f] = fetched[f]]
  /\ known' = [known EXCEPT ![f] = fetched[f]]
  /\ fetched' = [fetched EXCEPT ![f] = 0]
  /\ Goto(f, "wait")
  /\ UNCHANGED <<envVars, faults, disk, srcVars, graph, ttVars, jobVars>>

\* syncLocalFeed: the new mtime is recorded before the rebuild it triggers.
SyncLocalFeed(f) ==
  /\ f \in LocalFeeds
  /\ pc[f] = "idle"
  /\ upstream[f] # known[f]
  /\ known' = [known EXCEPT ![f] = upstream[f]]
  /\ Goto(f, "wait")
  /\ UNCHANGED <<envVars, faults, fetched, disk, fdFile, fdZip, srcVars, graph, ttVars, jobVars>>

-----------------------------------------------------------------------------
(* The OSM loop.                                                           *)

\* Mutant of PollOSM: the last published diff is always left for later.
LastDiffLeft ==
  /\ pc[OSM] = "idle"
  /\ remoteSeq > graph.seq + 1
  /\ target' = remoteSeq - 1
  /\ Goto(OSM, "fold")
  /\ UNCHANGED <<envVars, faults, feedVars, diskSrc, srcFile, srcBlob, candidate, graph, ttVars, jobVars>>

\* syncOSM finds the server ahead of the graph it serves.
PollOSM ==
  /\ pc[OSM] = "idle"
  /\ remoteSeq > graph.seq
  /\ target' = remoteSeq
  /\ Goto(OSM, "fold")
  /\ UNCHANGED <<envVars, faults, feedVars, diskSrc, srcFile, srcBlob, candidate, graph, ttVars, jobVars>>

\* loadGraphSource, then every pending diff is fetched and folded in.
FoldDiffs ==
  /\ pc[OSM] = "fold"
  /\ candidate' = [seq |-> target,
                   diffs |-> GraphSource.diffs \cup ((graph.seq + 1)..target)]
  /\ Goto(OSM, "save")
  /\ UNCHANGED <<envVars, faults, feedVars, diskSrc, srcFile, srcBlob, target, graph, ttVars, jobVars>>

\* The image cannot be read, or a diff cannot be fetched or parsed: the
\* diffs folded so far are dropped with the goroutine's copy.
FoldFails ==
  /\ pc[OSM] = "fold"
  /\ Fault
  /\ Goto(OSM, "idle")
  /\ UNCHANGED <<envVars, feedVars, srcVars, graph, ttVars, jobVars>>

\* SetGraphSource, file-backed.
SaveGraphSource ==
  /\ CacheEnabled
  /\ pc[OSM] = "save"
  /\ diskSrc' = candidate
  /\ srcFile' = TRUE
  /\ srcBlob' = NoImage
  /\ Goto(OSM, "setGraph")
  /\ UNCHANGED <<envVars, faults, feedVars, target, candidate, graph, ttVars, jobVars>>

\* Mutant of SaveGraphSourceInRAM: srcPath is not cleared, so the file, left
\* behind by the failed write, goes on being the one that is read.
StalePathKept ==
  /\ pc[OSM] = "save"
  /\ \/ ~CacheEnabled /\ UNCHANGED faults
     \/ CacheEnabled /\ Fault
  /\ srcBlob' = candidate
  /\ Goto(OSM, "setGraph")
  /\ UNCHANGED <<envVars, feedVars, diskSrc, srcFile, target, candidate, graph, ttVars, jobVars>>

\* SetGraphSource without a cache, or after the cache failed to write the
\* payload or (the payload being in place) its metadata: the image stays in
\* RAM.  EncodeStore writes to memory and does not fail.
SaveGraphSourceInRAM ==
  /\ pc[OSM] = "save"
  /\ \/ ~CacheEnabled /\ UNCHANGED <<faults, diskSrc>>
     \/ CacheEnabled /\ Fault /\ UNCHANGED diskSrc
     \/ CacheEnabled /\ Fault /\ diskSrc' = candidate
  /\ srcFile' = FALSE
  /\ srcBlob' = candidate
  /\ Goto(OSM, "setGraph")
  /\ UNCHANGED <<envVars, feedVars, target, candidate, graph, ttVars, jobVars>>

\* Mutant of SwapGraph: the timetable is not recompiled after the swap.
RecompileForgotten ==
  /\ pc[OSM] = "setGraph"
  /\ graph' = candidate
  /\ candidate' = NoImage
  /\ target' = 0
  /\ Goto(OSM, "idle")
  /\ UNCHANGED <<envVars, faults, feedVars, diskSrc, srcFile, srcBlob, ttVars, jobVars>>

\* Engine.SetGraph, outside rebuildMu; the timetable still refers to nodes of
\* the graph before.
SwapGraph ==
  /\ pc[OSM] = "setGraph"
  /\ graph' = candidate
  /\ candidate' = NoImage
  /\ target' = 0
  /\ Goto(OSM, "wait")
  /\ UNCHANGED <<envVars, faults, feedVars, diskSrc, srcFile, srcBlob, ttVars, jobVars>>

-----------------------------------------------------------------------------
(* RebuildTimetable, called by every loop.                                 *)

\* Mutant of BeginRebuild: rebuilds do not exclude each other.
BeginUnlocked(l) ==
  /\ pc[l] = "wait"
  /\ rebuildMu' = l
  /\ base' = [base EXCEPT ![l] = graph.seq]
  /\ Goto(l, "rebuild")
  /\ UNCHANGED <<envVars, faults, feedVars, srcVars, graph, ttVars, nread, parsed, rebuildErr>>

\* Take rebuildMu, capture the graph bundle.
BeginRebuild(l) ==
  /\ pc[l] = "wait"
  /\ rebuildMu = NoLoop
  /\ rebuildMu' = l
  /\ base' = [base EXCEPT ![l] = graph.seq]
  /\ Goto(l, "rebuild")
  /\ UNCHANGED <<envVars, faults, feedVars, srcVars, graph, ttVars, nread, parsed, rebuildErr>>

\* One turn of LoadFeeds' loop: the next feed, in configuration order.
LoadFeed(l) ==
  LET f == nread[l] + 1 IN
  /\ pc[l] = "rebuild"
  /\ f \in Feeds
  /\ parsed' = [parsed EXCEPT ![l][f] = Readable(f)]
  /\ nread' = [nread EXCEPT ![l] = f]
  /\ UNCHANGED <<envVars, faults, pc, feedVars, srcVars, graph, ttVars, rebuildMu, base, rebuildErr>>

\* Leaving RebuildTimetable: the deferred receive frees rebuildMu and the
\* goroutine goes back to its ticker.
EndRebuild(l) ==
  /\ rebuildMu' = NoLoop
  /\ base' = [base EXCEPT ![l] = 0]
  /\ nread' = [nread EXCEPT ![l] = 0]
  /\ parsed' = [parsed EXCEPT ![l] = [f \in Feeds |-> 0]]
  /\ Goto(l, "idle")

\* A feed does not parse, or Compile rejects them.
RebuildFails(l) ==
  /\ pc[l] = "rebuild"
  /\ Fault
  /\ EndRebuild(l)
  /\ rebuildErr' = TRUE
  /\ UNCHANGED <<envVars, feedVars, srcVars, graph, ttVars>>

\* Compile, Engine.SetTimetable.
SwapTimetable(l) ==
  /\ pc[l] = "rebuild"
  /\ nread[l] = NFeeds
  /\ ttFeeds' = parsed[l]
  /\ ttAnchor' = base[l]
  /\ EndRebuild(l)
  /\ rebuildErr' = FALSE
  /\ UNCHANGED <<envVars, faults, feedVars, srcVars, graph>>

-----------------------------------------------------------------------------
FeedLoop(f) ==
  \/ PollRemoteFeed(f) \/ StoreFeed(f) \/ StoreFeedInRAM(f)
  \/ InstallFeedFile(f) \/ InstallFeedZip(f)
  \/ SyncLocalFeed(f)

OSMLoop ==
  \/ PollOSM \/ FoldDiffs \/ FoldFails
  \/ SaveGraphSource \/ SaveGraphSourceInRAM \/ SwapGraph

Rebuild(l) == BeginRebuild(l) \/ LoadFeed(l) \/ RebuildFails(l) \/ SwapTimetable(l)

Environment == PublishDiff \/ \E f \in Feeds : PublishFeed(f)

Next ==
  \/ Environment
  \/ \E f \in Feeds : FeedLoop(f)
  \/ OSMLoop
  \/ \E l \in Loops : Rebuild(l)

Spec == Init /\ [][Next]_vars

\* Tickers keep firing and goroutines keep being scheduled; a goroutine
\* blocked on rebuildMu is served in FIFO order, so it cannot be overtaken for
\* ever.  Nothing obliges anyone to publish.
Fairness ==
  /\ \A f \in Feeds : WF_vars(FeedLoop(f))
  /\ WF_vars(OSMLoop)
  /\ \A l \in Loops : SF_vars(BeginRebuild(l)) /\ WF_vars(Rebuild(l))

FairSpec == Spec /\ Fairness

-----------------------------------------------------------------------------
(* Properties.                                                             *)

GTFSLabels == {"idle", "store", "installFile", "installZip", "wait", "rebuild"}
OSMLabels == {"idle", "fold", "save", "setGraph", "wait", "rebuild"}

\* Every variable has its type (updater.go's Updater and feedData, the
\* engine's two bundles, the goroutines' local state).
TypeOK ==
  /\ upstream \in [Feeds -> Nat] /\ remoteSeq \in Nat /\ faults \in Nat
  /\ pc \in [Loops -> GTFSLabels \cup OSMLabels]
  /\ \A f \in Feeds : pc[f] \in GTFSLabels
  /\ pc[OSM] \in OSMLabels
  /\ fetched \in [Feeds -> Nat] /\ disk \in [Feeds -> Nat]
  /\ fdFile \in [Feeds -> BOOLEAN] /\ fdZip \in [Feeds -> Nat]
  /\ known \in [Feeds -> Nat]
  /\ diskSrc \in Image /\ srcFile \in BOOLEAN /\ srcBlob \in Image
  /\ target \in Nat /\ candidate \in Image /\ graph \in Image
  /\ ttFeeds \in [Feeds -> Nat] /\ ttAnchor \in Nat
  /\ rebuildMu \in Loops \cup {NoLoop}
  /\ base \in [Loops -> Nat] /\ nread \in [Loops -> 0..NFeeds]
  /\ parsed \in [Loops -> [Feeds -> Nat]]
  /\ rebuildErr \in BOOLEAN

\* Loop l has changed what a rebuild would read and not yet been through one.
Owing(l) == pc[l] \in {"wait", "rebuild"}

\* Once a feed's loop has been through its rebuild, the served timetable is at
\* least as new as the validators the next poll will send, however the
\* rebuilds of other loops overlapped with it; only a rebuild that ended in an
\* error leaves it behind (updater.go syncRemoteFeed, RebuildTimetable).
FreshWhenSettled ==
  ~rebuildErr => \A f \in Feeds : ~Owing(f) => known[f] <= ttFeeds[f]

\* Outside the OSM goroutine's own swap-then-recompile window, the timetable's
\* stops are anchored to nodes of the graph being served, even when a GTFS
\* rebuild that captured the old graph finishes after the swap (updater.go
\* syncOSM).
AnchoredWhenSettled ==
  ~rebuildErr /\ ~Owing(OSM) => ttAnchor = graph.seq

\* The validators of a feed never run ahead of the bytes LoadFeeds would
\* read: if they did, the server would answer 304 for ever to a ZIP nobody
\* reads (syncRemoteFeed's choice between InstallFeedFile and InstallFeedZip).
ValidatorsMatchData == \A f \in Feeds : known[f] <= Readable(f)

\* The served graph holds every diff up to its sequence: whatever file or
\* blob loadGraphSource picked after failed writes, no diff is skipped.
NoDiffSkipped == graph.diffs = 1..graph.seq

\* The loops implement the abstract register of served data: each swap is one
\* step, no feed and no graph ever goes back to an older version.
Served == INSTANCE ServedData WITH graphSeq <- graph.seq
ImplementsServedData == Served!Spec

\* When publishers pause, everything published is served, the timetable being
\* anchored to the newest graph, unless the last rebuild ended in an error.
Converges ==
  <>[](\/ rebuildErr
       \/ /\ ttFeeds = upstream
          /\ graph.seq = remoteSeq
          /\ ttAnchor = graph.seq)

-----------------------------------------------------------------------------
(* The inductive invariant behind the theorems of UpdaterProofs.           *)

\* rebuildMu is held by exactly the loop that is inside RebuildTimetable, and
\* only that loop has parsed anything.
LockInv ==
  \A l \in Loops :
    /\ pc[l] = "rebuild" <=> rebuildMu = l
    /\ pc[l] # "rebuild" => nread[l] = 0

\* A download is no older than what LoadFeeds reads now, nothing read has not
\* been published, and the cached payload to be installed is that download.
FeedInv(f) ==
  /\ known[f] <= Readable(f)
  /\ ttFeeds[f] <= Readable(f)
  /\ Readable(f) <= upstream[f]
  /\ pc[f] \in {"store", "installFile", "installZip"} =>
       f \notin LocalFeeds /\ Readable(f) <= fetched[f] /\ fetched[f] <= upstream[f]
  /\ pc[f] = "installFile" => disk[f] = fetched[f]

DataInv == \A f \in Feeds : FeedInv(f)

\* What the rebuild in progress has captured and parsed is no older than what
\* is served, and it has missed nothing but what a loop waits to rebuild for.
ReadInv(l, f) ==
  /\ ttFeeds[f] <= parsed[l][f] /\ parsed[l][f] <= Readable(f)
  /\ pc[f] # "wait" => known[f] <= parsed[l][f]

BaseInv(l) ==
  /\ ttAnchor <= base[l] /\ base[l] <= graph.seq
  /\ pc[OSM] # "wait" => base[l] = graph.seq

JobInv ==
  \A l \in Loops :
    rebuildMu = l =>
      /\ BaseInv(l)
      /\ \A f \in Feeds : f <= nread[l] => ReadInv(l, f)

\* The source image is the served graph's, but between its being saved and
\* the swap, when it is already the candidate's.
ImageInv ==
  /\ graph.seq <= remoteSeq
  /\ ttAnchor <= graph.seq
  /\ NoDiffSkipped
  /\ GraphSource = IF pc[OSM] = "setGraph" THEN candidate ELSE graph
  /\ pc[OSM] \in {"fold", "save", "setGraph"} =>
       graph.seq < target /\ target <= remoteSeq
  /\ pc[OSM] \in {"save", "setGraph"} => candidate = [seq |-> target, diffs |-> 1..target]

IInv ==
  /\ TypeOK /\ LockInv /\ DataInv /\ JobInv /\ ImageInv
  /\ FreshWhenSettled /\ AnchoredWhenSettled
====
