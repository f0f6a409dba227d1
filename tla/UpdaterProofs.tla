---- MODULE UpdaterProofs ----
(***************************************************************************)
(* Theorems of Updater, for any number of feeds, versions, diffs and       *)
(* failures.  Everything follows from the inductive invariant IInv.        *)
(***************************************************************************)
EXTENDS Updater, TLAPS

(* A feed's loop is a loop, other than the OSM goroutine. *)
LEMMA FeedIndex == \A f \in Feeds : f \in Loops /\ f # OSM
BY DEF Feeds, Loops, OSM

(* The OSM goroutine is a loop; the mark for a free mutex is not one. *)
LEMMA OSMIndex == OSM \in Loops /\ NoLoop \notin Loops
BY DEF Feeds, Loops, OSM, NoLoop

(* What LoadFeeds reads is a version. *)
LEMMA ReadableType ==
  ASSUME TypeOK, NEW f \in Feeds
  PROVE  Readable(f) \in Nat
<1>1. upstream[f] \in Nat /\ disk[f] \in Nat /\ fdZip[f] \in Nat
  BY DEF TypeOK
<1> QED
  BY <1>1 DEF Readable

-----------------------------------------------------------------------------
(* Every step keeps the types. *)
LEMMA TypeStep ==
  ASSUME TypeOK, [Next]_vars
  PROVE  TypeOK'
<1> USE DEF TypeOK, GTFSLabels, OSMLabels, Goto, envVars, feedVars,
        srcVars, ttVars, jobVars
<1>1. ASSUME NEW f \in Feeds, PublishFeed(f)
      PROVE  TypeOK'
  BY <1>1 DEF PublishFeed
<1>2. ASSUME PublishDiff
      PROVE  TypeOK'
  BY <1>2 DEF PublishDiff
<1>3. ASSUME NEW f \in Feeds, PollRemoteFeed(f)
      PROVE  TypeOK'
  BY <1>3, FeedIndex DEF PollRemoteFeed
<1>4. ASSUME NEW f \in Feeds, StoreFeed(f)
      PROVE  TypeOK'
  BY <1>4, FeedIndex DEF StoreFeed
<1>5. ASSUME NEW f \in Feeds, StoreFeedInRAM(f)
      PROVE  TypeOK'
  <2>1. disk' \in [Feeds -> Nat] /\ faults' \in Nat
    BY <1>5 DEF StoreFeedInRAM, Fault
  <2>2. /\ pc' \in [Loops -> GTFSLabels \cup OSMLabels]
        /\ \A g \in Feeds : pc'[g] \in GTFSLabels
        /\ pc'[OSM] \in OSMLabels
    BY <1>5, FeedIndex DEF StoreFeedInRAM
  <2> QED
    BY <1>5, <2>1, <2>2 DEF StoreFeedInRAM
<1>6. ASSUME NEW f \in Feeds, InstallFeedFile(f)
      PROVE  TypeOK'
  BY <1>6, FeedIndex DEF InstallFeedFile
<1>7. ASSUME NEW f \in Feeds, InstallFeedZip(f)
      PROVE  TypeOK'
  BY <1>7, FeedIndex DEF InstallFeedZip
<1>8. ASSUME NEW f \in Feeds, SyncLocalFeed(f)
      PROVE  TypeOK'
  BY <1>8, FeedIndex DEF SyncLocalFeed
<1>9. ASSUME PollOSM
      PROVE  TypeOK'
  <2>1. /\ pc' \in [Loops -> GTFSLabels \cup OSMLabels]
        /\ \A g \in Feeds : pc'[g] \in GTFSLabels
        /\ pc'[OSM] \in OSMLabels
    BY <1>9, FeedIndex, OSMIndex DEF PollOSM
  <2> QED
    BY <1>9, <2>1 DEF PollOSM
<1>10. ASSUME FoldDiffs
      PROVE  TypeOK'
  BY <1>10, OSMIndex DEF FoldDiffs, Image, GraphSource
<1>11. ASSUME FoldFails
      PROVE  TypeOK'
  BY <1>11, OSMIndex DEF FoldFails, Fault
<1>12. ASSUME SaveGraphSource
      PROVE  TypeOK'
  BY <1>12, OSMIndex DEF SaveGraphSource, NoImage, Image
<1>13. ASSUME SaveGraphSourceInRAM
      PROVE  TypeOK'
  <2>1. diskSrc' \in Image /\ faults' \in Nat
    BY <1>13 DEF SaveGraphSourceInRAM, Fault
  <2>2. /\ pc' \in [Loops -> GTFSLabels \cup OSMLabels]
        /\ \A g \in Feeds : pc'[g] \in GTFSLabels
        /\ pc'[OSM] \in OSMLabels
    BY <1>13, FeedIndex, OSMIndex DEF SaveGraphSourceInRAM
  <2> QED
    BY <1>13, <2>1, <2>2 DEF SaveGraphSourceInRAM
<1>14. ASSUME SwapGraph
      PROVE  TypeOK'
  BY <1>14, OSMIndex DEF SwapGraph, NoImage, Image
<1>15. ASSUME NEW l \in Loops, BeginRebuild(l)
      PROVE  TypeOK'
  BY <1>15, FeedIndex, OSMIndex DEF BeginRebuild, Image
<1>16. ASSUME NEW l \in Loops, LoadFeed(l)
      PROVE  TypeOK'
  <2> DEFINE g == nread[l] + 1
  <2>1. g \in Feeds /\ nread' = [nread EXCEPT ![l] = g]
    BY <1>16 DEF LoadFeed
  <2>2. nread' \in [Loops -> 0..NFeeds]
    <3>1. g \in 0..NFeeds
      BY <2>1, ConstantsAssumption DEF Feeds
    <3> HIDE DEF g
    <3> QED BY <2>1, <3>1
  <2>3. Readable(g) \in Nat
    <3> HIDE DEF TypeOK, g
    <3> QED BY <2>1, ReadableType
  <2>4. parsed' = [parsed EXCEPT ![l][g] = Readable(g)]
    BY <1>16 DEF LoadFeed
  <2>5. parsed[l] \in [Feeds -> Nat]
    OBVIOUS
  <2>6. [parsed[l] EXCEPT ![g] = Readable(g)] \in [Feeds -> Nat]
    BY <2>3, <2>5
  <2>7. parsed' \in [Loops -> [Feeds -> Nat]]
    <3> HIDE DEF g
    <3> QED BY <2>4, <2>6
  <2> QED
    BY <1>16, <2>2, <2>7 DEF LoadFeed
<1>17. ASSUME NEW l \in Loops, RebuildFails(l)
      PROVE  TypeOK'
  <2>1. /\ pc' \in [Loops -> GTFSLabels \cup OSMLabels]
        /\ \A g \in Feeds : pc'[g] \in GTFSLabels
        /\ pc'[OSM] \in OSMLabels
    BY <1>17 DEF RebuildFails, EndRebuild
  <2>2. /\ base' \in [Loops -> Nat]
        /\ nread' \in [Loops -> 0..NFeeds]
        /\ parsed' \in [Loops -> [Feeds -> Nat]]
    BY <1>17, ConstantsAssumption DEF RebuildFails, EndRebuild
  <2> QED
    BY <1>17, <2>1, <2>2 DEF RebuildFails, EndRebuild, Fault
<1>18. ASSUME NEW l \in Loops, SwapTimetable(l)
      PROVE  TypeOK'
  <2>1. /\ pc' \in [Loops -> GTFSLabels \cup OSMLabels]
        /\ \A g \in Feeds : pc'[g] \in GTFSLabels
        /\ pc'[OSM] \in OSMLabels
    BY <1>18 DEF SwapTimetable, EndRebuild
  <2>2. /\ base' \in [Loops -> Nat]
        /\ nread' \in [Loops -> 0..NFeeds]
        /\ parsed' \in [Loops -> [Feeds -> Nat]]
    BY <1>18, ConstantsAssumption DEF SwapTimetable, EndRebuild
  <2> QED
    BY <1>18, <2>1, <2>2 DEF SwapTimetable, EndRebuild
<1>19. CASE UNCHANGED vars
  BY <1>19 DEF vars
<1> QED
  BY <1>1, <1>2, <1>3, <1>4, <1>5, <1>6, <1>7, <1>8, <1>9, <1>10, <1>11, <1>12, <1>13, <1>14, <1>15, <1>16, <1>17, <1>18, <1>19
     DEF Next, Environment, FeedLoop, OSMLoop, Rebuild

-----------------------------------------------------------------------------
(* rebuildMu stays with the one loop inside RebuildTimetable. *)
LEMMA LockStep ==
  ASSUME TypeOK, LockInv, [Next]_vars
  PROVE  LockInv'
<1> USE DEF LockInv, Goto, envVars, feedVars, srcVars, ttVars, jobVars
<1>0. pc \in [Loops -> GTFSLabels \cup OSMLabels] /\ nread \in [Loops -> 0..NFeeds]
  BY DEF TypeOK
<1>1. ASSUME NEW f \in Feeds, PublishFeed(f)
      PROVE  LockInv'
  BY <1>1 DEF PublishFeed
<1>2. ASSUME PublishDiff
      PROVE  LockInv'
  BY <1>2 DEF PublishDiff
<1>3. ASSUME NEW f \in Feeds, PollRemoteFeed(f)
      PROVE  LockInv'
  BY <1>0, <1>3, FeedIndex DEF PollRemoteFeed
<1>4. ASSUME NEW f \in Feeds, StoreFeed(f)
      PROVE  LockInv'
  BY <1>0, <1>4, FeedIndex DEF StoreFeed
<1>5. ASSUME NEW f \in Feeds, StoreFeedInRAM(f)
      PROVE  LockInv'
  BY <1>0, <1>5, FeedIndex DEF StoreFeedInRAM
<1>6. ASSUME NEW f \in Feeds, InstallFeedFile(f)
      PROVE  LockInv'
  BY <1>0, <1>6, FeedIndex DEF InstallFeedFile
<1>7. ASSUME NEW f \in Feeds, InstallFeedZip(f)
      PROVE  LockInv'
  BY <1>0, <1>7, FeedIndex DEF InstallFeedZip
<1>8. ASSUME NEW f \in Feeds, SyncLocalFeed(f)
      PROVE  LockInv'
  BY <1>0, <1>8, FeedIndex DEF SyncLocalFeed
<1>9. ASSUME PollOSM
      PROVE  LockInv'
  BY <1>0, <1>9, OSMIndex DEF PollOSM
<1>10. ASSUME FoldDiffs
      PROVE  LockInv'
  BY <1>0, <1>10, OSMIndex DEF FoldDiffs
<1>11. ASSUME FoldFails
      PROVE  LockInv'
  BY <1>0, <1>11, OSMIndex DEF FoldFails
<1>12. ASSUME SaveGraphSource
      PROVE  LockInv'
  BY <1>0, <1>12, OSMIndex DEF SaveGraphSource
<1>13. ASSUME SaveGraphSourceInRAM
      PROVE  LockInv'
  BY <1>0, <1>13, OSMIndex DEF SaveGraphSourceInRAM
<1>14. ASSUME SwapGraph
      PROVE  LockInv'
  BY <1>0, <1>14, OSMIndex DEF SwapGraph
<1>15. ASSUME NEW l \in Loops, BeginRebuild(l)
      PROVE  LockInv'
  BY <1>0, <1>15, OSMIndex DEF BeginRebuild
<1>16. ASSUME NEW l \in Loops, LoadFeed(l)
      PROVE  LockInv'
  BY <1>0, <1>16, OSMIndex DEF LoadFeed
<1>17. ASSUME NEW l \in Loops, RebuildFails(l)
      PROVE  LockInv'
  BY <1>0, <1>17, OSMIndex DEF RebuildFails, EndRebuild
<1>18. ASSUME NEW l \in Loops, SwapTimetable(l)
      PROVE  LockInv'
  BY <1>0, <1>18, OSMIndex DEF SwapTimetable, EndRebuild
<1>19. CASE UNCHANGED vars
  BY <1>19 DEF vars
<1> QED
  BY <1>1, <1>2, <1>3, <1>4, <1>5, <1>6, <1>7, <1>8, <1>9, <1>10, <1>11, <1>12, <1>13, <1>14, <1>15, <1>16, <1>17, <1>18, <1>19
     DEF Next, Environment, FeedLoop, OSMLoop, Rebuild

-----------------------------------------------------------------------------
(* No feed's validators, served version or download runs ahead of or behind *)
(* what can be read, as FeedInv orders them.                                *)
LEMMA DataStep ==
  ASSUME IInv, [Next]_vars
  PROVE  DataInv'
<1> SUFFICES ASSUME NEW g \in Feeds
             PROVE  FeedInv(g)'
  BY DEF DataInv
<1>0. /\ FeedInv(g)
      /\ upstream[g] \in Nat /\ disk[g] \in Nat /\ fdZip[g] \in Nat
      /\ known[g] \in Nat /\ ttFeeds[g] \in Nat /\ fetched[g] \in Nat
      /\ fdFile[g] \in BOOLEAN
      /\ g \in Loops /\ g # OSM
  BY FeedIndex DEF IInv, DataInv, TypeOK
<1>t. TypeOK
  BY DEF IInv
<1> USE DEF FeedInv, Readable, Goto, envVars, feedVars, srcVars, ttVars, jobVars
<1>1. ASSUME NEW f \in Feeds, PublishFeed(f)
      PROVE  FeedInv(g)'
  BY <1>0, <1>t, <1>1 DEF PublishFeed, TypeOK
<1>2. ASSUME PublishDiff
      PROVE  FeedInv(g)'
  BY <1>0, <1>t, <1>2 DEF PublishDiff, TypeOK
<1>3. ASSUME NEW f \in Feeds, PollRemoteFeed(f)
      PROVE  FeedInv(g)'
  BY <1>0, <1>t, <1>3 DEF PollRemoteFeed, TypeOK
<1>4. ASSUME NEW f \in Feeds, StoreFeed(f)
      PROVE  FeedInv(g)'
  BY <1>0, <1>t, <1>4 DEF StoreFeed, TypeOK
<1>5. ASSUME NEW f \in Feeds, StoreFeedInRAM(f)
      PROVE  FeedInv(g)'
  BY <1>0, <1>t, <1>5 DEF StoreFeedInRAM, TypeOK
<1>6. ASSUME NEW f \in Feeds, InstallFeedFile(f)
      PROVE  FeedInv(g)'
  BY <1>0, <1>t, <1>6 DEF InstallFeedFile, TypeOK
<1>7. ASSUME NEW f \in Feeds, InstallFeedZip(f)
      PROVE  FeedInv(g)'
  BY <1>0, <1>t, <1>7 DEF InstallFeedZip, TypeOK
<1>8. ASSUME NEW f \in Feeds, SyncLocalFeed(f)
      PROVE  FeedInv(g)'
  BY <1>0, <1>t, <1>8 DEF SyncLocalFeed, TypeOK
<1>9. ASSUME PollOSM
      PROVE  FeedInv(g)'
  BY <1>0, <1>t, <1>9 DEF PollOSM, TypeOK
<1>10. ASSUME FoldDiffs
      PROVE  FeedInv(g)'
  BY <1>0, <1>t, <1>10 DEF FoldDiffs, TypeOK
<1>11. ASSUME FoldFails
      PROVE  FeedInv(g)'
  BY <1>0, <1>t, <1>11 DEF FoldFails, TypeOK
<1>12. ASSUME SaveGraphSource
      PROVE  FeedInv(g)'
  BY <1>0, <1>t, <1>12 DEF SaveGraphSource, TypeOK
<1>13. ASSUME SaveGraphSourceInRAM
      PROVE  FeedInv(g)'
  BY <1>0, <1>t, <1>13 DEF SaveGraphSourceInRAM, TypeOK
<1>14. ASSUME SwapGraph
      PROVE  FeedInv(g)'
  BY <1>0, <1>t, <1>14 DEF SwapGraph, TypeOK
<1>15. ASSUME NEW l \in Loops, BeginRebuild(l)
      PROVE  FeedInv(g)'
  BY <1>0, <1>t, <1>15 DEF BeginRebuild, TypeOK
<1>16. ASSUME NEW l \in Loops, LoadFeed(l)
      PROVE  FeedInv(g)'
  BY <1>0, <1>t, <1>16 DEF LoadFeed, TypeOK
<1>17. ASSUME NEW l \in Loops, RebuildFails(l)
      PROVE  FeedInv(g)'
  BY <1>0, <1>t, <1>17 DEF RebuildFails, EndRebuild, TypeOK
<1>18. ASSUME NEW l \in Loops, SwapTimetable(l)
      PROVE  FeedInv(g)'
  <2>1. rebuildMu = l /\ g <= nread[l]
    BY <1>18 DEF SwapTimetable, IInv, LockInv, Feeds
  <2>2. parsed[l][g] <= Readable(g)
    BY <2>1, <1>18 DEF IInv, JobInv, ReadInv
  <2>3. ttFeeds'[g] = parsed[l][g] /\ pc'[g] \in {pc[g], "idle"}
    BY <1>0, <1>t, <1>18 DEF SwapTimetable, EndRebuild, TypeOK
  <2> QED
    BY <1>0, <1>18, <2>2, <2>3 DEF SwapTimetable
<1>19. CASE UNCHANGED vars
  BY <1>0, <1>19 DEF vars
<1> QED
  BY <1>1, <1>2, <1>3, <1>4, <1>5, <1>6, <1>7, <1>8, <1>9, <1>10, <1>11, <1>12, <1>13, <1>14, <1>15, <1>16, <1>17, <1>18, <1>19
     DEF Next, Environment, FeedLoop, OSMLoop, Rebuild

(* What LoadFeeds would read for a feed never goes back to an older version. *)
LEMMA ReadableGrows ==
  ASSUME IInv, [Next]_vars, NEW g \in Feeds
  PROVE  Readable(g) <= Readable(g)'
<1>0. /\ FeedInv(g)
      /\ upstream[g] \in Nat /\ disk[g] \in Nat /\ fdZip[g] \in Nat
      /\ fetched[g] \in Nat /\ fdFile[g] \in BOOLEAN
      /\ g \in Loops /\ g # OSM
  BY FeedIndex DEF IInv, DataInv, TypeOK
<1>t. TypeOK
  BY DEF IInv
<1> USE DEF FeedInv, Readable, Goto, envVars, feedVars, srcVars, ttVars, jobVars
<1>1. ASSUME NEW f \in Feeds, PublishFeed(f)
      PROVE  Readable(g) <= Readable(g)'
  BY <1>0, <1>t, <1>1 DEF PublishFeed, TypeOK
<1>2. ASSUME PublishDiff
      PROVE  Readable(g) <= Readable(g)'
  BY <1>0, <1>t, <1>2 DEF PublishDiff, TypeOK
<1>3. ASSUME NEW f \in Feeds, PollRemoteFeed(f)
      PROVE  Readable(g) <= Readable(g)'
  BY <1>0, <1>t, <1>3 DEF PollRemoteFeed, TypeOK
<1>4. ASSUME NEW f \in Feeds, StoreFeed(f)
      PROVE  Readable(g) <= Readable(g)'
  BY <1>0, <1>t, <1>4 DEF StoreFeed, TypeOK
<1>5. ASSUME NEW f \in Feeds, StoreFeedInRAM(f)
      PROVE  Readable(g) <= Readable(g)'
  BY <1>0, <1>t, <1>5 DEF StoreFeedInRAM, TypeOK
<1>6. ASSUME NEW f \in Feeds, InstallFeedFile(f)
      PROVE  Readable(g) <= Readable(g)'
  BY <1>0, <1>t, <1>6 DEF InstallFeedFile, TypeOK
<1>7. ASSUME NEW f \in Feeds, InstallFeedZip(f)
      PROVE  Readable(g) <= Readable(g)'
  BY <1>0, <1>t, <1>7 DEF InstallFeedZip, TypeOK
<1>8. ASSUME NEW f \in Feeds, SyncLocalFeed(f)
      PROVE  Readable(g) <= Readable(g)'
  BY <1>0, <1>t, <1>8 DEF SyncLocalFeed, TypeOK
<1>9. ASSUME PollOSM
      PROVE  Readable(g) <= Readable(g)'
  BY <1>0, <1>t, <1>9 DEF PollOSM, TypeOK
<1>10. ASSUME FoldDiffs
      PROVE  Readable(g) <= Readable(g)'
  BY <1>0, <1>t, <1>10 DEF FoldDiffs, TypeOK
<1>11. ASSUME FoldFails
      PROVE  Readable(g) <= Readable(g)'
  BY <1>0, <1>t, <1>11 DEF FoldFails, TypeOK
<1>12. ASSUME SaveGraphSource
      PROVE  Readable(g) <= Readable(g)'
  BY <1>0, <1>t, <1>12 DEF SaveGraphSource, TypeOK
<1>13. ASSUME SaveGraphSourceInRAM
      PROVE  Readable(g) <= Readable(g)'
  BY <1>0, <1>t, <1>13 DEF SaveGraphSourceInRAM, TypeOK
<1>14. ASSUME SwapGraph
      PROVE  Readable(g) <= Readable(g)'
  BY <1>0, <1>t, <1>14 DEF SwapGraph, TypeOK
<1>15. ASSUME NEW l \in Loops, BeginRebuild(l)
      PROVE  Readable(g) <= Readable(g)'
  BY <1>0, <1>t, <1>15 DEF BeginRebuild, TypeOK
<1>16. ASSUME NEW l \in Loops, LoadFeed(l)
      PROVE  Readable(g) <= Readable(g)'
  BY <1>0, <1>t, <1>16 DEF LoadFeed, TypeOK
<1>17. ASSUME NEW l \in Loops, RebuildFails(l)
      PROVE  Readable(g) <= Readable(g)'
  BY <1>0, <1>t, <1>17 DEF RebuildFails, EndRebuild, TypeOK
<1>18. ASSUME NEW l \in Loops, SwapTimetable(l)
      PROVE  Readable(g) <= Readable(g)'
  BY <1>0, <1>t, <1>18 DEF SwapTimetable, EndRebuild, TypeOK
<1>19. CASE UNCHANGED vars
  BY <1>0, <1>19 DEF vars
<1> QED
  BY <1>1, <1>2, <1>3, <1>4, <1>5, <1>6, <1>7, <1>8, <1>9, <1>10, <1>11, <1>12, <1>13, <1>14, <1>15, <1>16, <1>17, <1>18, <1>19
     DEF Next, Environment, FeedLoop, OSMLoop, Rebuild

-----------------------------------------------------------------------------
(* The image the OSM goroutine works on holds every diff and no gap. *)
LEMMA ImageStep ==
  ASSUME IInv, [Next]_vars
  PROVE  ImageInv'
<1>0. /\ ImageInv
      /\ graph.seq \in Nat
      /\ remoteSeq \in Nat /\ target \in Nat /\ ttAnchor \in Nat
      /\ pc \in [Loops -> GTFSLabels \cup OSMLabels]
  BY DEF IInv, TypeOK, Image
<1> USE DEF ImageInv, GraphSource, NoDiffSkipped, Goto, envVars, feedVars, srcVars,
        ttVars, jobVars
<1>1. ASSUME NEW f \in Feeds, PublishFeed(f)
      PROVE  ImageInv'
  BY <1>0, OSMIndex, <1>1 DEF PublishFeed
<1>2. ASSUME PublishDiff
      PROVE  ImageInv'
  BY <1>0, OSMIndex, <1>2 DEF PublishDiff
<1>3. ASSUME NEW f \in Feeds, PollRemoteFeed(f)
      PROVE  ImageInv'
  BY <1>0, FeedIndex, <1>3 DEF PollRemoteFeed
<1>4. ASSUME NEW f \in Feeds, StoreFeed(f)
      PROVE  ImageInv'
  BY <1>0, FeedIndex, <1>4 DEF StoreFeed
<1>5. ASSUME NEW f \in Feeds, StoreFeedInRAM(f)
      PROVE  ImageInv'
  BY <1>0, FeedIndex, <1>5 DEF StoreFeedInRAM
<1>6. ASSUME NEW f \in Feeds, InstallFeedFile(f)
      PROVE  ImageInv'
  BY <1>0, FeedIndex, <1>6 DEF InstallFeedFile
<1>7. ASSUME NEW f \in Feeds, InstallFeedZip(f)
      PROVE  ImageInv'
  BY <1>0, FeedIndex, <1>7 DEF InstallFeedZip
<1>8. ASSUME NEW f \in Feeds, SyncLocalFeed(f)
      PROVE  ImageInv'
  BY <1>0, FeedIndex, <1>8 DEF SyncLocalFeed
<1>9. ASSUME PollOSM
      PROVE  ImageInv'
  BY <1>0, OSMIndex, <1>9 DEF PollOSM
<1>10. ASSUME FoldDiffs
      PROVE  ImageInv'
  <2>1. pc[OSM] = "fold" /\ GraphSource = graph /\ graph.diffs = 1..graph.seq
    BY <1>0, <1>10 DEF FoldDiffs
  <2>2. graph.seq < target
    BY <1>0, <1>10 DEF FoldDiffs
  <2>3. (1..graph.seq) \cup ((graph.seq + 1)..target) = 1..target
    BY <1>0, <2>2
  <2>4. candidate' = [seq |-> target, diffs |-> 1..target]
    BY <1>10, <2>1, <2>3 DEF FoldDiffs
  <2> QED
    BY <1>0, OSMIndex, <1>10, <2>4 DEF FoldDiffs
<1>11. ASSUME FoldFails
      PROVE  ImageInv'
  BY <1>0, OSMIndex, <1>11 DEF FoldFails
<1>12. ASSUME SaveGraphSource
      PROVE  ImageInv'
  BY <1>0, OSMIndex, <1>12 DEF SaveGraphSource
<1>13. ASSUME SaveGraphSourceInRAM
      PROVE  ImageInv'
  BY <1>0, OSMIndex, <1>13 DEF SaveGraphSourceInRAM
<1>14. ASSUME SwapGraph
      PROVE  ImageInv'
  <2>1. graph' = [seq |-> target, diffs |-> 1..target]
    BY <1>0, <1>14 DEF SwapGraph
  <2>2. GraphSource' = graph' /\ pc'[OSM] = "wait"
    BY <1>0, OSMIndex, <1>14 DEF SwapGraph
  <2>3. graph'.seq <= remoteSeq /\ ttAnchor <= graph'.seq /\ graph'.diffs = 1..graph'.seq
    BY <1>0, <1>14, <2>1 DEF SwapGraph
  <2> QED
    BY <1>14, <2>2, <2>3 DEF SwapGraph
<1>15. ASSUME NEW l \in Loops, BeginRebuild(l)
      PROVE  ImageInv'
  BY <1>0, OSMIndex, <1>15 DEF BeginRebuild
<1>16. ASSUME NEW l \in Loops, LoadFeed(l)
      PROVE  ImageInv'
  BY <1>0, OSMIndex, <1>16 DEF LoadFeed
<1>17. ASSUME NEW l \in Loops, RebuildFails(l)
      PROVE  ImageInv'
  BY <1>0, OSMIndex, <1>17 DEF RebuildFails, EndRebuild
<1>18. ASSUME NEW l \in Loops, SwapTimetable(l)
      PROVE  ImageInv'
  <2>1. base[l] <= graph.seq
    BY <1>18 DEF SwapTimetable, IInv, LockInv, JobInv, BaseInv
  <2> QED
    BY <1>0, OSMIndex, <1>18, <2>1 DEF SwapTimetable, EndRebuild
<1>19. CASE UNCHANGED vars
  BY <1>0, <1>19 DEF vars
<1> QED
  BY <1>1, <1>2, <1>3, <1>4, <1>5, <1>6, <1>7, <1>8, <1>9, <1>10, <1>11, <1>12, <1>13, <1>14, <1>15, <1>16, <1>17, <1>18, <1>19
     DEF Next, Environment, FeedLoop, OSMLoop, Rebuild

-----------------------------------------------------------------------------
(* The rebuild in progress stays ahead of what is served and has missed    *)
(* only what some loop is waiting to rebuild for.                          *)
LEMMA BaseStep ==
  ASSUME IInv, [Next]_vars, NEW m \in Loops, rebuildMu' = m
  PROVE  BaseInv(m)'
<1>0. /\ ImageInv /\ LockInv /\ ttAnchor \in Nat /\ graph.seq \in Nat
      /\ pc \in [Loops -> GTFSLabels \cup OSMLabels]
      /\ base \in [Loops -> Nat]
      /\ rebuildMu = m => BaseInv(m)
  BY DEF IInv, TypeOK, Image, JobInv
<1> USE DEF BaseInv, Owing, Goto, envVars, feedVars, srcVars, ttVars, jobVars
<1>1. ASSUME NEW f \in Feeds, PublishFeed(f)
      PROVE  BaseInv(m)'
  BY <1>0, OSMIndex, <1>1 DEF PublishFeed
<1>2. ASSUME PublishDiff
      PROVE  BaseInv(m)'
  BY <1>0, OSMIndex, <1>2 DEF PublishDiff
<1>3. ASSUME NEW f \in Feeds, PollRemoteFeed(f)
      PROVE  BaseInv(m)'
  BY <1>0, FeedIndex, <1>3 DEF PollRemoteFeed
<1>4. ASSUME NEW f \in Feeds, StoreFeed(f)
      PROVE  BaseInv(m)'
  BY <1>0, FeedIndex, <1>4 DEF StoreFeed
<1>5. ASSUME NEW f \in Feeds, StoreFeedInRAM(f)
      PROVE  BaseInv(m)'
  BY <1>0, FeedIndex, <1>5 DEF StoreFeedInRAM
<1>6. ASSUME NEW f \in Feeds, InstallFeedFile(f)
      PROVE  BaseInv(m)'
  BY <1>0, FeedIndex, <1>6 DEF InstallFeedFile
<1>7. ASSUME NEW f \in Feeds, InstallFeedZip(f)
      PROVE  BaseInv(m)'
  BY <1>0, FeedIndex, <1>7 DEF InstallFeedZip
<1>8. ASSUME NEW f \in Feeds, SyncLocalFeed(f)
      PROVE  BaseInv(m)'
  BY <1>0, FeedIndex, <1>8 DEF SyncLocalFeed
<1>9. ASSUME PollOSM
      PROVE  BaseInv(m)'
  BY <1>0, OSMIndex, <1>9 DEF PollOSM
<1>10. ASSUME FoldDiffs
      PROVE  BaseInv(m)'
  BY <1>0, OSMIndex, <1>10 DEF FoldDiffs
<1>11. ASSUME FoldFails
      PROVE  BaseInv(m)'
  BY <1>0, OSMIndex, <1>11 DEF FoldFails
<1>12. ASSUME SaveGraphSource
      PROVE  BaseInv(m)'
  BY <1>0, OSMIndex, <1>12 DEF SaveGraphSource
<1>13. ASSUME SaveGraphSourceInRAM
      PROVE  BaseInv(m)'
  BY <1>0, OSMIndex, <1>13 DEF SaveGraphSourceInRAM
<1>14. ASSUME SwapGraph
      PROVE  BaseInv(m)'
  <2>1. graph'.seq \in Nat /\ graph.seq <= graph'.seq
    BY <1>0, <1>14 DEF SwapGraph, ImageInv, IInv, TypeOK, Image
  <2>2. pc'[OSM] = "wait" /\ rebuildMu = m
    BY <1>0, OSMIndex, <1>14 DEF SwapGraph
  <2> QED
    BY <1>0, <1>14, <2>1, <2>2 DEF SwapGraph
<1>15. ASSUME NEW l \in Loops, BeginRebuild(l)
      PROVE  BaseInv(m)'
  BY <1>0, OSMIndex, <1>15 DEF BeginRebuild, LockInv, ImageInv
<1>16. ASSUME NEW l \in Loops, LoadFeed(l)
      PROVE  BaseInv(m)'
  BY <1>0, OSMIndex, <1>16 DEF LoadFeed
<1>17. ASSUME NEW l \in Loops, RebuildFails(l)
      PROVE  BaseInv(m)'
  BY <1>0, OSMIndex, <1>17 DEF RebuildFails, EndRebuild
<1>18. ASSUME NEW l \in Loops, SwapTimetable(l)
      PROVE  BaseInv(m)'
  BY <1>0, OSMIndex, <1>18 DEF SwapTimetable, EndRebuild
<1>19. CASE UNCHANGED vars
  BY <1>0, <1>19 DEF vars
<1> QED
  BY <1>1, <1>2, <1>3, <1>4, <1>5, <1>6, <1>7, <1>8, <1>9, <1>10, <1>11, <1>12, <1>13, <1>14, <1>15, <1>16, <1>17, <1>18, <1>19
     DEF Next, Environment, FeedLoop, OSMLoop, Rebuild

(* What the rebuild holding the mutex has read is still what is loaded. *)
LEMMA ReadStep ==
  ASSUME IInv, [Next]_vars, NEW m \in Loops, rebuildMu' = m,
         NEW g \in Feeds, g <= nread'[m]
  PROVE  ReadInv(m, g)'
<1>0. /\ LockInv /\ FeedInv(g)
      /\ pc \in [Loops -> GTFSLabels \cup OSMLabels]
      /\ nread \in [Loops -> 0..NFeeds]
      /\ parsed \in [Loops -> [Feeds -> Nat]]
      /\ ttFeeds[g] \in Nat /\ known \in [Feeds -> Nat]
  BY DEF IInv, TypeOK, DataInv
<1>i. g \in Nat /\ g > 0 /\ g \in Loops /\ g # OSM
  BY FeedIndex DEF Feeds
<1>j. rebuildMu = m /\ g <= nread[m] => ReadInv(m, g)
  BY DEF IInv, JobInv
<1>r. Readable(g) <= Readable(g)' /\ Readable(g) \in Nat /\ Readable(g)' \in Nat
  <2>1. upstream'[g] \in Nat /\ disk'[g] \in Nat /\ fdZip'[g] \in Nat
    BY TypeStep DEF IInv, TypeOK
  <2>2. Readable(g)' \in Nat
    BY <2>1 DEF Readable
  <2> QED
    BY <2>2, ReadableGrows, ReadableType DEF IInv
<1> USE DEF ReadInv, Owing, Goto, envVars, feedVars, srcVars, ttVars, jobVars
<1>1. ASSUME NEW f \in Feeds, PublishFeed(f)
      PROVE  ReadInv(m, g)'
  BY <1>0, <1>i, <1>j, <1>r, OSMIndex, <1>1 DEF PublishFeed
<1>2. ASSUME PublishDiff
      PROVE  ReadInv(m, g)'
  BY <1>0, <1>i, <1>j, <1>r, OSMIndex, <1>2 DEF PublishDiff
<1>3. ASSUME NEW f \in Feeds, PollRemoteFeed(f)
      PROVE  ReadInv(m, g)'
  BY <1>0, <1>i, <1>j, <1>r, OSMIndex, <1>3 DEF PollRemoteFeed
<1>4. ASSUME NEW f \in Feeds, StoreFeed(f)
      PROVE  ReadInv(m, g)'
  BY <1>0, <1>i, <1>j, <1>r, OSMIndex, <1>4 DEF StoreFeed
<1>5. ASSUME NEW f \in Feeds, StoreFeedInRAM(f)
      PROVE  ReadInv(m, g)'
  BY <1>0, <1>i, <1>j, <1>r, OSMIndex, <1>5 DEF StoreFeedInRAM
<1>6. ASSUME NEW f \in Feeds, InstallFeedFile(f)
      PROVE  ReadInv(m, g)'
  BY <1>0, <1>i, <1>j, <1>r, OSMIndex, <1>6 DEF InstallFeedFile
<1>7. ASSUME NEW f \in Feeds, InstallFeedZip(f)
      PROVE  ReadInv(m, g)'
  BY <1>0, <1>i, <1>j, <1>r, OSMIndex, <1>7 DEF InstallFeedZip
<1>8. ASSUME NEW f \in Feeds, SyncLocalFeed(f)
      PROVE  ReadInv(m, g)'
  BY <1>0, <1>i, <1>j, <1>r, OSMIndex, <1>8 DEF SyncLocalFeed
<1>9. ASSUME PollOSM
      PROVE  ReadInv(m, g)'
  BY <1>0, <1>i, <1>j, <1>r, OSMIndex, <1>9 DEF PollOSM
<1>10. ASSUME FoldDiffs
      PROVE  ReadInv(m, g)'
  BY <1>0, <1>i, <1>j, <1>r, OSMIndex, <1>10 DEF FoldDiffs
<1>11. ASSUME FoldFails
      PROVE  ReadInv(m, g)'
  BY <1>0, <1>i, <1>j, <1>r, OSMIndex, <1>11 DEF FoldFails
<1>12. ASSUME SaveGraphSource
      PROVE  ReadInv(m, g)'
  BY <1>0, <1>i, <1>j, <1>r, OSMIndex, <1>12 DEF SaveGraphSource
<1>13. ASSUME SaveGraphSourceInRAM
      PROVE  ReadInv(m, g)'
  BY <1>0, <1>i, <1>j, <1>r, OSMIndex, <1>13 DEF SaveGraphSourceInRAM
<1>14. ASSUME SwapGraph
      PROVE  ReadInv(m, g)'
  BY <1>0, <1>i, <1>j, <1>r, OSMIndex, <1>14 DEF SwapGraph
<1>15. ASSUME NEW l \in Loops, BeginRebuild(l)
      PROVE  ReadInv(m, g)'
  BY <1>0, <1>i, <1>j, <1>r, OSMIndex, <1>15 DEF BeginRebuild, LockInv
<1>16. ASSUME NEW l \in Loops, LoadFeed(l)
      PROVE  ReadInv(m, g)'
  <2>1. l = m /\ rebuildMu = m
    BY <1>0, <1>16 DEF LoadFeed, LockInv
  <2>2. CASE g = nread[m] + 1
    <3>1. parsed'[m][g] = Readable(g)
      BY <1>0, <1>16, <2>1, <2>2 DEF LoadFeed
    <3> QED
      BY <1>0, <1>16, <1>r, <3>1 DEF LoadFeed, FeedInv
  <2>3. CASE g # nread[m] + 1
    <3>1. nread'[m] = nread[m] + 1 /\ nread[m] \in Nat
      BY <1>0, <1>16, <2>1 DEF LoadFeed
    <3>2. g <= nread[m]
      BY <1>i, <2>3, <3>1
    <3>3. parsed'[m][g] = parsed[m][g] /\ parsed[m][g] \in Nat
      BY <1>0, <1>16, <2>1, <2>3 DEF LoadFeed
    <3> QED
      BY <1>0, <1>16, <1>j, <1>r, <2>1, <3>2, <3>3 DEF LoadFeed
  <2> QED
    BY <2>2, <2>3
<1>17. ASSUME NEW l \in Loops, RebuildFails(l)
      PROVE  ReadInv(m, g)'
  BY <1>0, <1>i, <1>j, <1>r, OSMIndex, <1>17 DEF RebuildFails, EndRebuild
<1>18. ASSUME NEW l \in Loops, SwapTimetable(l)
      PROVE  ReadInv(m, g)'
  BY <1>0, <1>i, <1>j, <1>r, OSMIndex, <1>18 DEF SwapTimetable, EndRebuild
<1>19. CASE UNCHANGED vars
  BY <1>0, <1>j, <1>r, <1>19 DEF vars
<1> QED
  BY <1>1, <1>2, <1>3, <1>4, <1>5, <1>6, <1>7, <1>8, <1>9, <1>10, <1>11, <1>12, <1>13, <1>14, <1>15, <1>16, <1>17, <1>18, <1>19
     DEF Next, Environment, FeedLoop, OSMLoop, Rebuild

(* Every step keeps JobInv: the job in hand is the one its loop downloaded. *)
LEMMA JobStep ==
  ASSUME IInv, [Next]_vars
  PROVE  JobInv'
BY BaseStep, ReadStep DEF JobInv

-----------------------------------------------------------------------------
(* A settled feed is served at least as new as its validators. *)
LEMMA FreshStep ==
  ASSUME IInv, [Next]_vars
  PROVE  FreshWhenSettled'
<1> SUFFICES ASSUME NEW g \in Feeds, ~rebuildErr', ~Owing(g)'
             PROVE  known'[g] <= ttFeeds'[g]
  BY DEF FreshWhenSettled
<1>0. /\ g \in Loops /\ g # OSM
      /\ pc \in [Loops -> GTFSLabels \cup OSMLabels]
      /\ known \in [Feeds -> Nat] /\ ttFeeds[g] \in Nat
  BY FeedIndex DEF IInv, TypeOK
<1>1. ~rebuildErr /\ ~Owing(g) => known[g] <= ttFeeds[g]
  BY DEF IInv, FreshWhenSettled
<1> USE DEF Owing, Goto, envVars, feedVars, srcVars, ttVars, jobVars
<1>2. CASE \E l \in Loops : SwapTimetable(l)
  <2> PICK l \in Loops : SwapTimetable(l)
    BY <1>2
  <2>1. rebuildMu = l /\ g <= nread[l]
    BY DEF SwapTimetable, IInv, LockInv, Feeds
  <2>2. ReadInv(l, g)
    BY <2>1 DEF IInv, JobInv
  <2>3. ttFeeds'[g] = parsed[l][g] /\ known' = known
    BY DEF SwapTimetable
  <2>4. pc[g] # "wait"
    BY <1>0 DEF SwapTimetable, EndRebuild
  <2> QED
    BY <2>2, <2>3, <2>4 DEF ReadInv
<1>3. CASE \E l \in Loops : RebuildFails(l)
  BY <1>3 DEF RebuildFails
<1>4. ASSUME NEW f \in Feeds, PublishFeed(f)
      PROVE  known'[g] <= ttFeeds'[g]
  BY <1>0, <1>1, OSMIndex, <1>4 DEF PublishFeed
<1>5. ASSUME PublishDiff
      PROVE  known'[g] <= ttFeeds'[g]
  BY <1>0, <1>1, OSMIndex, <1>5 DEF PublishDiff
<1>6. ASSUME NEW f \in Feeds, PollRemoteFeed(f)
      PROVE  known'[g] <= ttFeeds'[g]
  BY <1>0, <1>1, OSMIndex, <1>6 DEF PollRemoteFeed
<1>7. ASSUME NEW f \in Feeds, StoreFeed(f)
      PROVE  known'[g] <= ttFeeds'[g]
  BY <1>0, <1>1, OSMIndex, <1>7 DEF StoreFeed
<1>8. ASSUME NEW f \in Feeds, StoreFeedInRAM(f)
      PROVE  known'[g] <= ttFeeds'[g]
  BY <1>0, <1>1, OSMIndex, <1>8 DEF StoreFeedInRAM
<1>9. ASSUME NEW f \in Feeds, InstallFeedFile(f)
      PROVE  known'[g] <= ttFeeds'[g]
  BY <1>0, <1>1, OSMIndex, <1>9 DEF InstallFeedFile
<1>10. ASSUME NEW f \in Feeds, InstallFeedZip(f)
      PROVE  known'[g] <= ttFeeds'[g]
  BY <1>0, <1>1, OSMIndex, <1>10 DEF InstallFeedZip
<1>11. ASSUME NEW f \in Feeds, SyncLocalFeed(f)
      PROVE  known'[g] <= ttFeeds'[g]
  BY <1>0, <1>1, OSMIndex, <1>11 DEF SyncLocalFeed
<1>12. ASSUME PollOSM
      PROVE  known'[g] <= ttFeeds'[g]
  BY <1>0, <1>1, OSMIndex, <1>12 DEF PollOSM
<1>13. ASSUME FoldDiffs
      PROVE  known'[g] <= ttFeeds'[g]
  BY <1>0, <1>1, OSMIndex, <1>13 DEF FoldDiffs
<1>14. ASSUME FoldFails
      PROVE  known'[g] <= ttFeeds'[g]
  BY <1>0, <1>1, OSMIndex, <1>14 DEF FoldFails
<1>15. ASSUME SaveGraphSource
      PROVE  known'[g] <= ttFeeds'[g]
  BY <1>0, <1>1, OSMIndex, <1>15 DEF SaveGraphSource
<1>16. ASSUME SaveGraphSourceInRAM
      PROVE  known'[g] <= ttFeeds'[g]
  BY <1>0, <1>1, OSMIndex, <1>16 DEF SaveGraphSourceInRAM
<1>17. ASSUME SwapGraph
      PROVE  known'[g] <= ttFeeds'[g]
  BY <1>0, <1>1, OSMIndex, <1>17 DEF SwapGraph
<1>18. ASSUME NEW l \in Loops, BeginRebuild(l)
      PROVE  known'[g] <= ttFeeds'[g]
  BY <1>0, <1>1, OSMIndex, <1>18 DEF BeginRebuild
<1>19. ASSUME NEW l \in Loops, LoadFeed(l)
      PROVE  known'[g] <= ttFeeds'[g]
  BY <1>0, <1>1, OSMIndex, <1>19 DEF LoadFeed
<1>20. CASE UNCHANGED vars
  BY <1>1, <1>20 DEF vars
<1> QED
  BY <1>2, <1>3, <1>4, <1>5, <1>6, <1>7, <1>8, <1>9, <1>10, <1>11, <1>12, <1>13, <1>14, <1>15, <1>16, <1>17, <1>18, <1>19, <1>20
     DEF Next, Environment, FeedLoop, OSMLoop, Rebuild

(* Outside the OSM goroutine's swap-then-recompile window the timetable is *)
(* anchored to the served graph.                                           *)
LEMMA AnchoredStep ==
  ASSUME IInv, [Next]_vars
  PROVE  AnchoredWhenSettled'
<1>0. pc \in [Loops -> GTFSLabels \cup OSMLabels]
  BY DEF IInv, TypeOK
<1>1. AnchoredWhenSettled
  BY DEF IInv
<1> USE DEF AnchoredWhenSettled, Owing, Goto, envVars, feedVars, srcVars, ttVars, jobVars
<1>2. CASE \E l \in Loops : SwapTimetable(l)
  <2> PICK l \in Loops : SwapTimetable(l)
    BY <1>2
  <2>1. rebuildMu = l
    BY DEF SwapTimetable, IInv, LockInv
  <2>2. BaseInv(l)
    BY <2>1 DEF IInv, JobInv
  <2>3. ttAnchor' = base[l] /\ graph' = graph
    BY DEF SwapTimetable
  <2>4. pc'[OSM] # "wait" => pc[OSM] # "wait"
    BY <1>0, OSMIndex DEF SwapTimetable, EndRebuild
  <2> QED
    BY <2>2, <2>3, <2>4 DEF BaseInv
<1>3. CASE \E l \in Loops : RebuildFails(l)
  BY <1>3 DEF RebuildFails
<1>4. ASSUME NEW f \in Feeds, PublishFeed(f)
      PROVE  AnchoredWhenSettled'
  BY <1>0, <1>1, FeedIndex, <1>4 DEF PublishFeed
<1>5. ASSUME PublishDiff
      PROVE  AnchoredWhenSettled'
  BY <1>0, <1>1, OSMIndex, <1>5 DEF PublishDiff
<1>6. ASSUME NEW f \in Feeds, PollRemoteFeed(f)
      PROVE  AnchoredWhenSettled'
  BY <1>0, <1>1, FeedIndex, <1>6 DEF PollRemoteFeed
<1>7. ASSUME NEW f \in Feeds, StoreFeed(f)
      PROVE  AnchoredWhenSettled'
  BY <1>0, <1>1, FeedIndex, <1>7 DEF StoreFeed
<1>8. ASSUME NEW f \in Feeds, StoreFeedInRAM(f)
      PROVE  AnchoredWhenSettled'
  BY <1>0, <1>1, FeedIndex, <1>8 DEF StoreFeedInRAM
<1>9. ASSUME NEW f \in Feeds, InstallFeedFile(f)
      PROVE  AnchoredWhenSettled'
  BY <1>0, <1>1, FeedIndex, <1>9 DEF InstallFeedFile
<1>10. ASSUME NEW f \in Feeds, InstallFeedZip(f)
      PROVE  AnchoredWhenSettled'
  BY <1>0, <1>1, FeedIndex, <1>10 DEF InstallFeedZip
<1>11. ASSUME NEW f \in Feeds, SyncLocalFeed(f)
      PROVE  AnchoredWhenSettled'
  BY <1>0, <1>1, FeedIndex, <1>11 DEF SyncLocalFeed
<1>12. ASSUME PollOSM
      PROVE  AnchoredWhenSettled'
  BY <1>0, <1>1, OSMIndex, <1>12 DEF PollOSM
<1>13. ASSUME FoldDiffs
      PROVE  AnchoredWhenSettled'
  BY <1>0, <1>1, OSMIndex, <1>13 DEF FoldDiffs
<1>14. ASSUME FoldFails
      PROVE  AnchoredWhenSettled'
  BY <1>0, <1>1, OSMIndex, <1>14 DEF FoldFails
<1>15. ASSUME SaveGraphSource
      PROVE  AnchoredWhenSettled'
  BY <1>0, <1>1, OSMIndex, <1>15 DEF SaveGraphSource
<1>16. ASSUME SaveGraphSourceInRAM
      PROVE  AnchoredWhenSettled'
  BY <1>0, <1>1, OSMIndex, <1>16 DEF SaveGraphSourceInRAM
<1>17. ASSUME SwapGraph
      PROVE  AnchoredWhenSettled'
  BY <1>0, <1>1, OSMIndex, <1>17 DEF SwapGraph
<1>18. ASSUME NEW l \in Loops, BeginRebuild(l)
      PROVE  AnchoredWhenSettled'
  BY <1>0, <1>1, OSMIndex, <1>18 DEF BeginRebuild
<1>19. ASSUME NEW l \in Loops, LoadFeed(l)
      PROVE  AnchoredWhenSettled'
  BY <1>0, <1>1, OSMIndex, <1>19 DEF LoadFeed
<1>20. CASE UNCHANGED vars
  BY <1>1, <1>20 DEF vars
<1> QED
  BY <1>2, <1>3, <1>4, <1>5, <1>6, <1>7, <1>8, <1>9, <1>10, <1>11, <1>12, <1>13, <1>14, <1>15, <1>16, <1>17, <1>18, <1>19, <1>20
     DEF Next, Environment, FeedLoop, OSMLoop, Rebuild

-----------------------------------------------------------------------------
(* The state boot hands over satisfies the invariant. *)
LEMMA InitIInv == Init => IInv
<1> SUFFICES ASSUME Init
             PROVE  IInv
  OBVIOUS
<1> USE DEF Init
<1>1. TypeOK
  <2>1. /\ disk \in [Feeds -> Nat] /\ fdFile \in [Feeds -> BOOLEAN]
        /\ fdZip \in [Feeds -> Nat]
    OBVIOUS
  <2>2. diskSrc \in Image /\ srcBlob \in Image /\ graph \in Image /\ candidate \in Image
    BY DEF Image, BootImage, NoImage
  <2>3. nread \in [Loops -> 0..NFeeds]
    BY ConstantsAssumption
  <2> QED
    BY <2>1, <2>2, <2>3, FeedIndex, OSMIndex DEF TypeOK, GTFSLabels, OSMLabels
<1>2. \A f \in Feeds : Readable(f) = 1
  BY DEF Readable
<1>3. LockInv /\ DataInv
  BY <1>2, FeedIndex, OSMIndex DEF LockInv, DataInv, FeedInv
<1>4. JobInv
  BY OSMIndex DEF JobInv
<1>5. graph.diffs = 1..graph.seq
  BY DEF BootImage
<1>6. ImageInv
  BY <1>5, OSMIndex DEF ImageInv, NoDiffSkipped, GraphSource, BootImage
<1>7. FreshWhenSettled /\ AnchoredWhenSettled
  BY DEF FreshWhenSettled, AnchoredWhenSettled, BootImage
<1> QED
  BY <1>1, <1>3, <1>4, <1>6, <1>7 DEF IInv

(* IInv holds in every reachable state. *)
THEOREM Invariance == Spec => []IInv
<1>1. IInv /\ [Next]_vars => IInv'
  BY TypeStep, LockStep, DataStep, JobStep, ImageStep, FreshStep, AnchoredStep DEF IInv
<1> QED
  BY InitIInv, <1>1, PTL DEF Spec

(* Type correctness. *)
THEOREM TypeCorrect == Spec => []TypeOK
BY Invariance, PTL DEF IInv

(* A settled feed is served at least as new as the validators its next poll *)
(* sends, whatever rebuilds overlapped, unless the last rebuild failed.     *)
THEOREM Freshness == Spec => []FreshWhenSettled
BY Invariance, PTL DEF IInv

(* Outside the swap-then-recompile window the timetable is anchored to the *)
(* graph being served, unless the last rebuild failed.                     *)
THEOREM Anchoring == Spec => []AnchoredWhenSettled
BY Invariance, PTL DEF IInv

(* Validators never run ahead of the data a rebuild would read. *)
THEOREM Validators == Spec => []ValidatorsMatchData
<1>1. IInv => ValidatorsMatchData
  BY DEF IInv, DataInv, FeedInv, ValidatorsMatchData
<1> QED
  BY Invariance, <1>1, PTL

(* The served graph holds every diff up to its own sequence. *)
THEOREM Completeness == Spec => []NoDiffSkipped
<1>1. IInv => NoDiffSkipped
  BY DEF IInv, ImageInv
<1> QED
  BY Invariance, <1>1, PTL

-----------------------------------------------------------------------------
(* The loops implement ServedData: every step is one of its steps. *)

(* An initial state of the loops is one of ServedData. *)
LEMMA ServedInit == Init => Served!Init
<1> SUFFICES ASSUME Init
             PROVE  Served!Init
  OBVIOUS
<1> QED
  BY DEF Init, Served!Init, BootImage

(* A step of the loops changes what is served as ServedData allows. *)
LEMMA ServedStep ==
  ASSUME IInv, IInv', [Next]_vars
  PROVE  [Served!Next]_(Served!vars)
<1>0. /\ upstream \in [Feeds -> Nat] /\ remoteSeq \in Nat /\ graph.seq \in Nat
      /\ ttFeeds \in [Feeds -> Nat] /\ ttAnchor \in Nat
      /\ upstream' \in [Feeds -> Nat] /\ remoteSeq' \in Nat /\ graph'.seq \in Nat
      /\ ttFeeds' \in [Feeds -> Nat] /\ ttAnchor' \in Nat
  BY DEF IInv, TypeOK, Image
<1> USE DEF Served!Next, Served!vars, envVars, feedVars, srcVars, ttVars, jobVars
<1>1. ASSUME NEW f \in Feeds, PublishFeed(f)
      PROVE  Served!Publish
  BY <1>0, <1>1 DEF PublishFeed, Served!Publish
<1>2. ASSUME PublishDiff
      PROVE  Served!Publish
  BY <1>0, <1>2 DEF PublishDiff, Served!Publish
<1>3. ASSUME SwapGraph
      PROVE  Served!ReplaceGraph
  <2>1. graph'.seq = target
    BY <1>3 DEF SwapGraph, IInv, ImageInv
  <2> QED
    BY <1>0, <1>3, <2>1 DEF SwapGraph, IInv, ImageInv, Served!ReplaceGraph
<1>4. ASSUME NEW l \in Loops, SwapTimetable(l)
      PROVE  Served!ReplaceTimetable
  <2>1. rebuildMu = l
    BY <1>4 DEF SwapTimetable, IInv, LockInv
  <2>2. ttAnchor <= ttAnchor' /\ ttAnchor' <= graph.seq
    BY <1>4, <2>1 DEF SwapTimetable, IInv, JobInv, BaseInv
  <2>3. ASSUME NEW f \in Feeds
        PROVE  ttFeeds[f] <= ttFeeds'[f] /\ ttFeeds'[f] <= upstream[f]
    <3>1. f <= nread[l]
      BY <1>4 DEF SwapTimetable, Feeds
    <3>2. ReadInv(l, f) /\ FeedInv(f)
      BY <2>1, <3>1 DEF IInv, JobInv, DataInv
    <3>3. parsed[l][f] \in Nat /\ Readable(f) \in Nat /\ upstream[f] \in Nat
      BY ReadableType DEF IInv, TypeOK
    <3> QED
      BY <1>4, <3>2, <3>3 DEF SwapTimetable, ReadInv, FeedInv
  <2> QED
    BY <1>0, <1>4, <2>2, <2>3 DEF SwapTimetable, Served!ReplaceTimetable
<1>5. ASSUME NEW f \in Feeds, FeedLoop(f)
      PROVE  UNCHANGED Served!vars
  BY <1>5 DEF FeedLoop, PollRemoteFeed, StoreFeed, StoreFeedInRAM, InstallFeedFile,
              InstallFeedZip, SyncLocalFeed
<1>6. ASSUME PollOSM \/ FoldDiffs \/ FoldFails \/ SaveGraphSource \/ SaveGraphSourceInRAM
      PROVE  UNCHANGED Served!vars
  BY <1>6 DEF PollOSM, FoldDiffs, FoldFails, SaveGraphSource, SaveGraphSourceInRAM
<1>7. ASSUME NEW l \in Loops, BeginRebuild(l) \/ LoadFeed(l) \/ RebuildFails(l)
      PROVE  UNCHANGED Served!vars
  BY <1>7 DEF BeginRebuild, LoadFeed, RebuildFails
<1>8. CASE UNCHANGED vars
  BY <1>8 DEF vars
<1> QED
  BY <1>1, <1>2, <1>3, <1>4, <1>5, <1>6, <1>7, <1>8
     DEF Next, Environment, OSMLoop, Rebuild

(* The loops of updater.go implement ServedData, whatever the feeds and bounds. *)
THEOREM Refinement == Spec => ImplementsServedData
<1> QED
  BY ServedInit, ServedStep, Invariance, PTL DEF Spec, ImplementsServedData, Served!Spec
====
