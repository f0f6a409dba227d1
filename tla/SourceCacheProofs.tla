---- MODULE SourceCacheProofs ----
(***************************************************************************)
(* What the source cache promises across crashes, restarts, failed writes  *)
(* and changes of the configured URLs, for any number of them.             *)
(***************************************************************************)
EXTENDS SourceCache, TLAPS

USE DEF Resources, Files

(* No configured URL is that of the absent. *)
LEMMA Absent ==
  ASSUME ConstantsAssumption, NEW d \in Data
  PROVE  /\ None \in Data /\ None.url = "none"
         /\ d.url \in URLs => d # None
         /\ d.url \in URLs \cup {"none"} /\ d.ver \in Nat
         /\ "none" \notin URLs
BY DEF Data, None, ConstantsAssumption

(* The newest publication is data of the configured source. *)
LEMMA NewestData ==
  ASSUME ConstantsAssumption, TypeOK, NEW r \in Resources
  PROVE  /\ Newest(r) \in Data /\ Newest(r) # None /\ Published(Newest(r))
         /\ Newest(r).url = config[r] /\ config[r] \in URLs
         /\ Newest(r).ver = newest[config[r]] /\ newest[config[r]] \in Nat
BY DEF Newest, TypeOK, Data, None, Published, ConstantsAssumption

(* Metadata that pass as those of the configured URL are. *)
LEMMA MetaData ==
  ASSUME ConstantsAssumption, TypeOK, DataInv, NEW n \in Files, NEW r \in Resources
  PROVE  /\ Meta(n, config[r]) \in Data /\ Published(Meta(n, config[r]))
         /\ Meta(n, config[r]) # None =>
              /\ Meta(n, config[r]) = meta[n] /\ meta[n].url = config[r]
              /\ ~Torn(n) /\ payload[n] # None => payload[n].url = config[r]
BY DEF Meta, TypeOK, Data, None, Published, DataInv, Torn, ConstantsAssumption

(* Data equal in source and number is the same. *)
LEMMA SameData ==
  ASSUME NEW c \in Data, NEW d \in Data, c.url = d.url, c.ver = d.ver
  PROVE  c = d
BY DEF Data

(* Every initial state satisfies the inductive invariant. *)
LEMMA InitIInv == Init => IInv
<1> SUFFICES ASSUME Init
             PROVE  IInv
  OBVIOUS
<1> USE ConstantsAssumption
<1>1. None \in Data
  BY Absent DEF Data, None
<1>2. TypeOK
  <2>1. pc = [r \in Resources |-> "down"]
    BY DEF Init, Down
  <2>2. budget \in [{"switches", "crashes", "faults"} -> Nat]
    BY DEF Init, ConstantsAssumption
  <2>3. /\ payload \in [Files -> Data] /\ meta \in [Files -> Data]
        /\ tag \in [Resources -> Data] /\ got \in [Resources -> Data] /\ served \in [Resources -> Data]
    BY <1>1 DEF Init, Nothing
  <2> QED
    BY <2>1, <2>2, <2>3 DEF Init, TypeOK, Nothing, OSMLabels, FeedLabels, Origins
<1>3. /\ \A n \in Files : payload[n] = None /\ meta[n] = None
      /\ \A r \in Resources : /\ pc[r] = "down" /\ tag[r] = None /\ got[r] = None
                              /\ served[r] = None /\ origin[r] = "none"
  BY DEF Init, Down, Nothing
<1>4. DataInv
  BY <1>3 DEF DataInv, Published
<1>5. FeedInv /\ ExtractInv
  BY <1>3 DEF FeedInv, ExtractInv
<1>6. StaleHasCause /\ ValidatorsHonest
  BY <1>3 DEF StaleHasCause, Stale, ValidatorsHonest
<1>7. LabelInv
  BY <1>3 DEF LabelInv, Torn
<1> QED
  BY <1>2, <1>4, <1>5, <1>6, <1>7 DEF IInv

-----------------------------------------------------------------------------
(* The graph's side and the feeds' side do not disturb each other.         *)

(* The steps of the graph leave the feed's file, its loop and what it serves. *)
LEMMA FeedUndisturbed ==
  ASSUME IInv, OSM
  PROVE  FeedInv' /\ ValidatorsHonest'
<1>1. /\ UNCHANGED <<newest, config>>
      /\ payload'["zip"] = payload["zip"] /\ meta'["zip"] = meta["zip"]
      /\ pc'["gtfs"] = pc["gtfs"] /\ had'["gtfs"] = had["gtfs"] /\ tag'["gtfs"] = tag["gtfs"]
      /\ got'["gtfs"] = got["gtfs"] /\ served'["gtfs"] = served["gtfs"]
      /\ origin'["gtfs"] = origin["gtfs"]
  BY DEF IInv, TypeOK, OSM, LoadImage, DiscardImage, SeekExtract, ExtractFallback,
         ExtractUnchanged, AdoptExtract, LabelExtract, LabelExtractFails, BuildGraph, SaveImage,
         LabelImage, ImageFails, DropExtract, DropExtractMeta, FollowDiffs, Goto, Serve, disk,
         Store, Label
<1> QED
  BY <1>1 DEF IInv, FeedInv, ValidatorsHonest, Stale, Newest, Cached

(* The steps of a feed leave the extract, its image and the graph. *)
LEMMA GraphUndisturbed ==
  ASSUME IInv, Feed
  PROVE  ExtractInv'
<1>1. /\ UNCHANGED <<newest, config>>
      /\ payload'["pbf"] = payload["pbf"] /\ payload'["gts"] = payload["gts"]
      /\ meta'["pbf"] = meta["pbf"]
      /\ pc'["osm"] = pc["osm"] /\ had'["osm"] = had["osm"] /\ tag'["osm"] = tag["osm"]
      /\ got'["osm"] = got["osm"] /\ served'["osm"] = served["osm"]
      /\ origin'["osm"] = origin["osm"] /\ bred' = bred
  BY DEF IInv, TypeOK, Feed, SeedFeed, FeedFallback, FeedUnchanged, FeedChanged, StoreFeed,
         LabelFeed, StoreFails, Goto, Serve, disk, Store, Label
<1> QED
  BY <1>1 DEF IInv, ExtractInv, Cause, Cached

-----------------------------------------------------------------------------
(* One lemma per step.                                                     *)

(* A publication leaves no validator of anything newer than itself. *)
LEMMA PublishStep ==
  ASSUME ConstantsAssumption, IInv, NEW u \in URLs, Publish(u)
  PROVE  IInv'
<1>1. TypeOK'
  BY DEF TypeOK, Publish, IInv, disk, process
<1>2. DataInv'
  BY Absent DEF TypeOK, DataInv, Published, Publish, IInv, disk, process
<1>3. FeedInv'
  BY DEF FeedInv, Cached, Publish, IInv, disk, process
<1>4. ExtractInv'
  BY Absent DEF TypeOK, ExtractInv, Cached, Publish, IInv, disk, process, Cause
<1>5. StaleHasCause'
  BY DEF StaleHasCause, Stale, Publish, IInv, disk, process, Cause
<1>6. ValidatorsHonest'
  BY Absent DEF TypeOK, ValidatorsHonest, Stale, DataInv, Published, Newest, Publish, IInv, disk, process
<1>7. LabelInv'
  BY DEF LabelInv, Torn, Publish, IInv, disk, process
<1> QED
  BY <1>1, <1>2, <1>3, <1>4, <1>5, <1>6, <1>7 DEF IInv

(* A stopped server holds nothing that a change of URL could belie. *)
LEMMA SwitchURLStep ==
  ASSUME ConstantsAssumption, IInv, NEW r \in Resources, SwitchURL(r)
  PROVE  IInv'
<1>1. /\ config' \in [Resources -> URLs]
      /\ \A q \in Resources : /\ pc[q] = "down" /\ tag[q] = None /\ got[q] = None
                              /\ served[q] = None
      /\ budget' \in [{"switches", "crashes", "faults"} -> Nat]
      /\ UNCHANGED <<newest, remote, payload, meta, loose, bred, pc, had, tag, got, served, origin>>
  BY DEF SwitchURL, Spend, Down, IInv, TypeOK, DataInv, disk, process
<1>2. TypeOK'
  BY <1>1 DEF IInv, TypeOK
<1>3. DataInv'
  BY <1>1 DEF IInv, DataInv, Published
<1>4. FeedInv'
  BY <1>1 DEF IInv, FeedInv
<1>5. ExtractInv'
  BY <1>1 DEF IInv, ExtractInv, Cause
<1>6. StaleHasCause'
  BY <1>1 DEF StaleHasCause, Stale, Cause
<1>7. ValidatorsHonest'
  BY <1>1 DEF ValidatorsHonest
<1>8. LabelInv'
  BY <1>1 DEF LabelInv, Torn, IInv
<1> QED
  BY <1>2, <1>3, <1>4, <1>5, <1>6, <1>7, <1>8 DEF IInv

(* A crash loses the process, and perhaps the metadata being written. *)
LEMMA CrashStep ==
  ASSUME ConstantsAssumption, IInv, Crash
  PROVE  IInv'
<1>1. /\ \A q \in Resources : /\ pc'[q] = "down" /\ tag'[q] = None /\ got'[q] = None
                              /\ served'[q] = None /\ origin'[q] = "none" /\ had'[q] = FALSE
      /\ UNCHANGED <<newest, remote, config, payload, loose, bred>>
  BY DEF Crash, Down, Nothing
<1>2. \A n \in Files : meta'[n] \in {meta[n], None}
  BY DEF Crash, IInv, TypeOK
<1>3. meta' \in [Files -> Data]
  BY Absent DEF Crash, IInv, TypeOK
<1>4. /\ pc' = [q \in Resources |-> "down"] /\ had' \in [Resources -> BOOLEAN]
      /\ tag' \in [Resources -> Data] /\ got' \in [Resources -> Data] /\ served' \in [Resources -> Data]
      /\ origin' = [q \in Resources |-> "none"]
      /\ budget' \in [{"switches", "crashes", "faults"} -> Nat]
  BY Absent DEF Crash, Spend, Down, Nothing, IInv, TypeOK
<1>5. TypeOK'
  BY <1>1, <1>3, <1>4 DEF IInv, TypeOK, OSMLabels, FeedLabels, Origins
<1>6. DataInv'
  BY <1>1, <1>2 DEF IInv, DataInv, Published
<1>7. FeedInv'
  <2>1. payload["zip"] # None => payload["zip"].url \in URLs
    BY DEF IInv, DataInv, Published
  <2>2. None.url \notin URLs
    BY DEF None, ConstantsAssumption
  <2> QED
    BY <1>1, <1>2, <2>1, <2>2 DEF IInv, FeedInv
<1>8. ExtractInv'
  BY <1>1 DEF ExtractInv, Cause
<1>9. StaleHasCause'
  BY <1>1 DEF StaleHasCause, Stale, Cause
<1>10. ValidatorsHonest'
  BY <1>1 DEF ValidatorsHonest
<1>11. LabelInv'
  BY <1>1, <1>2 DEF LabelInv, Torn, IInv
<1> QED
  BY <1>5, <1>6, <1>7, <1>8, <1>9, <1>10, <1>11 DEF IInv

(* Run begins with nothing at hand. *)
LEMMA BootStep ==
  ASSUME ConstantsAssumption, IInv, Boot
  PROVE  IInv'
<1>1. TypeOK'
  BY DEF TypeOK, OSMLabels, FeedLabels, Boot, IInv, disk
<1>2. DataInv'
  BY DEF DataInv, Published, Boot, IInv, disk
<1>3. FeedInv'
  BY DEF FeedInv, Boot, IInv, disk
<1>4. ExtractInv'
  <2>1. \A q \in Resources : pc[q] = "down" /\ got[q] = None /\ served[q] = None
    BY DEF TypeOK, Down, Boot, IInv, disk
  <2>2. pc'["osm"] \in {"image", "up"} /\ UNCHANGED <<got, served>>
    BY DEF Boot, IInv, disk
  <2> QED
    BY <2>1, <2>2 DEF ExtractInv, IInv, Cause
<1>5. StaleHasCause'
  BY DEF StaleHasCause, Stale, Boot, IInv, disk, Cause
<1>6. ValidatorsHonest'
  <2>1. served["gtfs"] = None /\ served' = served
    BY DEF TypeOK, Down, Boot, IInv, disk
  <2> QED
    BY <2>1 DEF ValidatorsHonest, IInv
<1>7. LabelInv'
  BY DEF TypeOK, LabelInv, Torn, Boot, IInv, disk
<1> QED
  BY <1>1, <1>2, <1>3, <1>4, <1>5, <1>6, <1>7 DEF IInv

(* The image comes from the configured source, or its file is torn. *)
LEMMA LoadImageStep ==
  ASSUME ConstantsAssumption, IInv, LoadImage
  PROVE  IInv'
<1>1. TypeOK'
  BY Absent DEF TypeOK, OSMLabels, LoadImage, IInv, Goto, Serve, disk, Trusted, Origins
<1>2. DataInv'
  BY DEF DataInv, Published, LoadImage, IInv, Goto, Serve, disk
<1>3. ExtractInv'
  BY DEF TypeOK, ExtractInv, LoadImage, IInv, Goto, Serve, disk, Trusted, Cause
<1>4. StaleHasCause'
  <2>1. Stale("osm")' => Torn("gts")
    BY MetaData DEF TypeOK, Stale, LoadImage, IInv, Serve, disk
  <2>2. Torn("gts") => origin'["osm"] = "torn" \/ (origin'["osm"] = "mislabelled" /\ bred \in Foreign)
    BY DEF TypeOK, LabelInv, Trusted, LoadImage, IInv, Serve
  <2> QED
    BY <2>1, <2>2 DEF TypeOK, StaleHasCause, Stale, Cause, LoadImage, IInv, Serve, disk
<1>5. LabelInv'
  BY DEF TypeOK, LabelInv, Torn, LoadImage, IInv, Goto, Serve, disk
<1> QED
  BY <1>1, <1>2, <1>3, <1>4, <1>5, FeedUndisturbed DEF IInv, OSM

(* An image that does not decode takes its metadata with it. *)
LEMMA DiscardImageStep ==
  ASSUME ConstantsAssumption, IInv, DiscardImage
  PROVE  IInv'
<1>1. TypeOK'
  <2>1. (IF Cached("pbf") THEN Meta("pbf", config["osm"]) ELSE None) \in Data
    BY Absent, MetaData DEF DiscardImage, IInv, Goto, Spend
  <2>2. tag' \in [Resources -> Data] /\ had' \in [Resources -> BOOLEAN]
    BY <2>1 DEF TypeOK, Cached, DiscardImage, IInv, Goto, Spend
  <2> QED
    BY <2>1, <2>2, Absent DEF TypeOK, OSMLabels, DiscardImage, IInv, Goto, Spend
<1>2. DataInv'
  BY MetaData DEF DataInv, Published, DiscardImage, IInv, Goto, Spend
<1>3. ExtractInv'
  BY MetaData DEF TypeOK, ExtractInv, Cached, DiscardImage, IInv, Goto, Spend, Cause
<1>4. StaleHasCause'
  BY DEF StaleHasCause, Stale, DiscardImage, IInv, Goto, Spend, Cause
<1>5. LabelInv'
  BY DEF TypeOK, LabelInv, Torn, DiscardImage, IInv, Goto, Spend
<1> QED
  BY <1>1, <1>2, <1>3, <1>4, <1>5, FeedUndisturbed DEF IInv, OSM

(* The validators sent are those of the cached extract. *)
LEMMA SeekExtractStep ==
  ASSUME ConstantsAssumption, IInv, SeekExtract
  PROVE  IInv'
<1>1. TypeOK'
  <2>1. (IF Cached("pbf") THEN Meta("pbf", config["osm"]) ELSE None) \in Data
    BY Absent, MetaData DEF SeekExtract, IInv, Goto, disk
  <2>2. tag' \in [Resources -> Data] /\ had' \in [Resources -> BOOLEAN]
    BY <2>1 DEF TypeOK, Cached, SeekExtract, IInv, Goto, disk
  <2> QED
    BY <2>1, <2>2 DEF TypeOK, OSMLabels, SeekExtract, IInv, Goto, disk
<1>2. DataInv'
  BY MetaData DEF DataInv, Published, SeekExtract, IInv, Goto, disk
<1>3. ExtractInv'
  BY MetaData DEF TypeOK, ExtractInv, Cached, SeekExtract, IInv, Goto, disk, Cause
<1>4. StaleHasCause'
  BY DEF StaleHasCause, Stale, SeekExtract, IInv, Goto, disk, Cause
<1>5. LabelInv'
  BY DEF TypeOK, LabelInv, Torn, SeekExtract, IInv, Goto, disk
<1> QED
  BY <1>1, <1>2, <1>3, <1>4, <1>5, FeedUndisturbed DEF IInv, OSM

(* The cached extract, whatever it is, is known for a fallback. *)
LEMMA ExtractFallbackStep ==
  ASSUME ConstantsAssumption, IInv, ExtractFallback
  PROVE  IInv'
<1>1. payload["pbf"] # None /\ payload["pbf"] \in Data /\ got' = [got EXCEPT !["osm"] = payload["pbf"]]
  BY DEF ExtractInv, Cached, TypeOK, ExtractFallback, IInv, Goto, Spend, disk
<1>2. TypeOK'
  BY <1>1 DEF TypeOK, OSMLabels, ExtractFallback, IInv, Goto, Spend, disk, Trusted, Origins
<1>3. DataInv'
  BY DEF DataInv, Published, ExtractFallback, IInv, Goto, Spend, disk
<1>4. ExtractInv'
  <2>1. origin'["osm"] \in {"fallback", "torn"}
    BY DEF TypeOK, LabelInv, Trusted, ExtractFallback, IInv
  <2> QED
    BY <2>1 DEF TypeOK, ExtractInv, Cause, ExtractFallback, IInv, Goto, Spend, disk
<1>5. StaleHasCause'
  <2>1. served'["osm"] = None
    BY DEF ExtractInv, ExtractFallback, IInv
  <2> QED
    BY <2>1 DEF StaleHasCause, Stale, Cause, ExtractFallback, IInv, Goto, Spend, disk
<1>6. LabelInv'
  BY DEF TypeOK, LabelInv, Torn, ExtractFallback, IInv, Goto, Spend, disk
<1> QED
  BY <1>2, <1>3, <1>4, <1>5, <1>6, FeedUndisturbed DEF IInv, OSM

(* A 304 vouches for the cached extract, unless its file is torn. *)
LEMMA ExtractUnchangedStep ==
  ASSUME ConstantsAssumption, IInv, ExtractUnchanged
  PROVE  IInv'
<1>1. payload["pbf"] # None /\ payload["pbf"] \in Data /\ got' = [got EXCEPT !["osm"] = payload["pbf"]]
  BY DEF ExtractInv, Cached, TypeOK, ExtractUnchanged, IInv, Goto, disk
<1>2. TypeOK'
  BY <1>1 DEF TypeOK, OSMLabels, ExtractUnchanged, IInv, Goto, disk, Trusted, Origins
<1>3. DataInv'
  BY DEF DataInv, Published, ExtractUnchanged, IInv, Goto, disk
<1>4. ExtractInv'
  <2>1. meta["pbf"] = Newest("osm")
    BY NewestData DEF ExtractInv, ExtractUnchanged, IInv, Goto, disk
  <2>2. ~Torn("pbf") => payload["pbf"].url = config["osm"]
    BY <1>1, <2>1, NewestData DEF Torn, ExtractUnchanged, IInv, Goto, disk
  <2>3. pc'["osm"] = "build" /\ got'["osm"] = payload["pbf"]
        /\ origin'["osm"] = IF Torn("pbf") THEN "torn" ELSE "cache"
    BY <1>1 DEF TypeOK, LabelInv, Trusted, ExtractUnchanged, IInv, Goto
  <2> QED
    BY <2>2, <2>3 DEF ExtractInv, ExtractUnchanged, IInv, Goto, disk, Cause
<1>5. StaleHasCause'
  <2>1. served'["osm"] = None
    BY DEF ExtractInv, ExtractUnchanged, IInv, Goto, disk
  <2> QED
    BY <2>1 DEF StaleHasCause, Stale, ExtractUnchanged, IInv, Goto, disk, Cause
<1>6. LabelInv'
  BY DEF TypeOK, LabelInv, Torn, ExtractUnchanged, IInv, Goto, disk
<1> QED
  BY <1>2, <1>3, <1>4, <1>5, <1>6, FeedUndisturbed DEF IInv, OSM

(* A download replaces an extract whose validators are too old. *)
LEMMA AdoptExtractStep ==
  ASSUME ConstantsAssumption, IInv, AdoptExtract
  PROVE  IInv'
<1>1. TypeOK'
  BY NewestData DEF TypeOK, OSMLabels, AdoptExtract, IInv, Goto, Store
<1>2. DataInv'
  BY NewestData DEF DataInv, Published, AdoptExtract, IInv, Goto, Store
<1>3. ExtractInv'
  <2>1. tag["osm"] = None \/ tag["osm"].ver < newest[config["osm"]]
    <3>1. tag["osm"] \in Data /\ Newest("osm") \in Data
      BY NewestData DEF TypeOK, AdoptExtract, IInv, Goto, Store
    <3>2. tag["osm"] # None => tag["osm"].url = config["osm"] /\ tag["osm"].ver <= newest[config["osm"]]
      BY DEF DataInv, Published, AdoptExtract, IInv, Goto, Store
    <3> QED
      BY <3>1, <3>2, SameData, Absent, NewestData DEF AdoptExtract, IInv, Goto, Store
  <2>2. /\ pc'["osm"] = "labelPBF" /\ got'["osm"] = Newest("osm")
        /\ payload'["pbf"] # None /\ UNCHANGED <<tag, newest, config, served>>
    BY NewestData DEF TypeOK, AdoptExtract, IInv, Goto, Store
  <2> QED
    BY <2>1, <2>2, NewestData DEF ExtractInv, Cached, AdoptExtract, IInv, Goto, Store, Cause
<1>4. StaleHasCause'
  BY DEF StaleHasCause, Stale, AdoptExtract, IInv, Goto, Store, Cause
<1>5. LabelInv'
  BY DEF TypeOK, LabelInv, Torn, AdoptExtract, IInv, Goto, Store
<1> QED
  BY <1>1, <1>2, <1>3, <1>4, <1>5, FeedUndisturbed DEF IInv, OSM

(* The extract in place is the one downloaded. *)
LEMMA LabelExtractStep ==
  ASSUME ConstantsAssumption, IInv, LabelExtract
  PROVE  IInv'
<1>1. TypeOK'
  BY DEF TypeOK, OSMLabels, LabelExtract, IInv, Goto, Label, Origins
<1>2. DataInv'
  BY DEF DataInv, Published, LabelExtract, IInv, Goto, Label
<1>3. ExtractInv'
  BY DEF ExtractInv, Cached, LabelExtract, IInv, Goto, Label, Cause
<1>4. StaleHasCause'
  <2>1. served'["osm"] = None
    BY DEF ExtractInv, LabelExtract, IInv, Goto, Label, Cause
  <2> QED
    BY <2>1 DEF StaleHasCause, Stale, LabelExtract, IInv, Goto, Label, Cause
<1>5. LabelInv'
  BY DEF TypeOK, LabelInv, Torn, LabelExtract, IInv, Goto, Label
<1> QED
  BY <1>1, <1>2, <1>3, <1>4, <1>5, FeedUndisturbed DEF IInv, OSM

(* The download is repeated, with validators too old for a 304. *)
LEMMA LabelExtractFailsStep ==
  ASSUME ConstantsAssumption, IInv, LabelExtractFails
  PROVE  IInv'
<1>1. TypeOK'
  BY Absent DEF TypeOK, OSMLabels, LabelExtractFails, IInv, Goto, Spend
<1>2. DataInv'
  BY DEF TypeOK, DataInv, Published, LabelExtractFails, IInv, Goto, Spend
<1>3. ExtractInv'
  <2>1. tag["osm"] = None \/ tag["osm"].ver < newest[config["osm"]]
    BY DEF ExtractInv, LabelExtractFails, IInv, Goto, Spend, Cause
  <2>2. payload' = payload /\ pc'["osm"] = "fetch" /\ got'["osm"] = None
        /\ UNCHANGED <<tag, newest, config, had, served>>
    BY DEF TypeOK, LabelExtractFails, IInv, Goto, Spend
  <2> QED
    BY <2>1, <2>2 DEF ExtractInv, Cached, LabelExtractFails, IInv, Goto, Spend, Cause
<1>4. StaleHasCause'
  BY DEF StaleHasCause, Stale, LabelExtractFails, IInv, Goto, Spend, Cause
<1>5. LabelInv'
  BY DEF TypeOK, LabelInv, Torn, LabelExtractFails, IInv, Goto, Spend
<1> QED
  BY <1>1, <1>2, <1>3, <1>4, <1>5, FeedUndisturbed DEF IInv, OSM

(* What is built is what was fetched, or cached. *)
LEMMA BuildGraphStep ==
  ASSUME ConstantsAssumption, IInv, BuildGraph
  PROVE  IInv'
<1>1. TypeOK'
  BY Absent DEF TypeOK, OSMLabels, BuildGraph, IInv, Goto, Serve, disk, Origins
<1>2. DataInv'
  BY DEF TypeOK, DataInv, Published, BuildGraph, IInv, Goto, Serve, disk
<1>3. ExtractInv'
  BY DEF TypeOK, ExtractInv, BuildGraph, IInv, Goto, Serve, disk, Cause
<1>4. StaleHasCause'
  BY DEF TypeOK, StaleHasCause, Stale, ExtractInv, BuildGraph, IInv, Goto, Serve, disk, Cause
<1>5. LabelInv'
  BY DEF TypeOK, LabelInv, Torn, BuildGraph, IInv, Goto, Serve, disk
<1> QED
  BY <1>1, <1>2, <1>3, <1>4, <1>5, FeedUndisturbed DEF IInv, OSM

(* The image is in place before the extract may go. *)
LEMMA SaveImageStep ==
  ASSUME ConstantsAssumption, IInv, SaveImage
  PROVE  IInv'
<1>1. TypeOK'
  BY DEF TypeOK, OSMLabels, SaveImage, IInv, Goto, Store, Origins
<1>2. DataInv'
  BY DEF DataInv, Published, SaveImage, IInv, Goto, Store
<1>3. ExtractInv'
  <2>1. Cause("osm") => Cause("osm")'
    BY DEF Cause, Foreign, SaveImage
  <2> QED
    BY <2>1 DEF TypeOK, ExtractInv, Cached, SaveImage, IInv, Goto, Store
<1>4. StaleHasCause'
  BY DEF StaleHasCause, Stale, Cause, Foreign, SaveImage, IInv
<1>5. LabelInv'
  BY DEF TypeOK, LabelInv, Torn, SaveImage, IInv, Goto, Store
<1> QED
  BY <1>1, <1>2, <1>3, <1>4, <1>5, FeedUndisturbed DEF IInv, OSM

(* The image is labelled with the configured URL. *)
LEMMA LabelImageStep ==
  ASSUME ConstantsAssumption, IInv, LabelImage
  PROVE  IInv'
<1>1. TypeOK'
  <2>1. [url |-> config["osm"], ver |-> 0] \in Data
    BY DEF Data, TypeOK, LabelImage, IInv, Goto, Serve, Label, Origins
  <2> QED
    BY <2>1, Absent DEF TypeOK, OSMLabels, LabelImage, IInv, Goto, Serve, Label, Origins
<1>2. DataInv'
  BY DEF TypeOK, DataInv, Published, LabelImage, IInv, Goto, Serve, Label
<1>3. ExtractInv'
  BY DEF TypeOK, ExtractInv, Cached, LabelImage, IInv, Goto, Serve, Label, Cause
<1>4. StaleHasCause'
  BY DEF TypeOK, StaleHasCause, Stale, ExtractInv, LabelImage, IInv, Goto, Serve, Label, Cause
<1>5. LabelInv'
  <2>1. bred = origin["osm"] /\ payload["gts"] = got["osm"]
    BY DEF LabelInv, LabelImage, IInv
  <2>2. got["osm"].url # config["osm"] => bred \in Foreign
    BY <2>1 DEF TypeOK, ExtractInv, Cause, Foreign, LabelImage, IInv
  <2> QED
    BY <2>1, <2>2 DEF TypeOK, LabelInv, Torn, LabelImage, IInv, Goto, Serve, Label
<1> QED
  BY <1>1, <1>2, <1>3, <1>4, <1>5, FeedUndisturbed DEF IInv, OSM

(* Without its image the graph is served, and the extract stays. *)
LEMMA ImageFailsStep ==
  ASSUME ConstantsAssumption, IInv, ImageFails
  PROVE  IInv'
<1>1. TypeOK'
  BY Absent DEF TypeOK, OSMLabels, ImageFails, IInv, Goto, Serve, Spend, Origins
<1>2. DataInv'
  BY DEF TypeOK, DataInv, Published, ImageFails, IInv, Goto, Serve, Spend
<1>3. ExtractInv'
  BY DEF TypeOK, ExtractInv, ImageFails, IInv, Goto, Serve, Spend, Cause
<1>4. StaleHasCause'
  BY DEF StaleHasCause, Stale, ExtractInv, ImageFails, IInv, Goto, Serve, Spend, Cause
<1>5. LabelInv'
  BY DEF TypeOK, LabelInv, Torn, ImageFails, IInv, Goto, Serve, Spend
<1> QED
  BY <1>1, <1>2, <1>3, <1>4, <1>5, FeedUndisturbed DEF IInv, OSM

(* The extract goes only for its image. *)
LEMMA DropExtractStep ==
  ASSUME ConstantsAssumption, IInv, DropExtract
  PROVE  IInv'
<1>1. TypeOK'
  BY Absent DEF TypeOK, OSMLabels, DropExtract, IInv, Goto
<1>2. DataInv'
  BY DEF DataInv, Published, DropExtract, IInv, Goto
<1>3. ExtractInv'
  BY DEF ExtractInv, Cached, DropExtract, IInv, Goto, Cause
<1>4. StaleHasCause'
  BY DEF StaleHasCause, Stale, DropExtract, IInv, Goto, Cause
<1>5. LabelInv'
  BY DEF TypeOK, LabelInv, Torn, DropExtract, IInv, Goto
<1> QED
  BY <1>1, <1>2, <1>3, <1>4, <1>5, FeedUndisturbed DEF IInv, OSM

(* The extract's metadata go last. *)
LEMMA DropExtractMetaStep ==
  ASSUME ConstantsAssumption, IInv, DropExtractMeta
  PROVE  IInv'
<1>1. TypeOK'
  BY Absent DEF TypeOK, OSMLabels, DropExtractMeta, IInv, Goto, Serve, Origins
<1>2. DataInv'
  BY DEF DataInv, Published, DropExtractMeta, IInv, Goto, Serve
<1>3. ExtractInv'
  BY DEF TypeOK, ExtractInv, DropExtractMeta, IInv, Goto, Serve, Cause
<1>4. StaleHasCause'
  BY DEF StaleHasCause, Stale, ExtractInv, DropExtractMeta, IInv, Goto, Serve, Cause
<1>5. LabelInv'
  BY DEF TypeOK, LabelInv, Torn, DropExtractMeta, IInv, Goto, Serve
<1> QED
  BY <1>1, <1>2, <1>3, <1>4, <1>5, FeedUndisturbed DEF IInv, OSM

(* Diffs come from the source of the graph served. *)
LEMMA FollowDiffsStep ==
  ASSUME ConstantsAssumption, IInv, FollowDiffs
  PROVE  IInv'
<1>1. /\ got'["osm"] = [url |-> served["osm"].url, ver |-> newest[served["osm"].url]]
      /\ served["osm"].url \in URLs
  <2>1. got["osm"] \in [url : URLs \cup {"none"}, ver : Nat]
    BY DEF TypeOK, Data, FollowDiffs, IInv, Goto, disk
  <2> QED
    BY <2>1 DEF TypeOK, ConstantsAssumption, FollowDiffs, IInv, Goto, disk
<1>2. got'["osm"] \in Data /\ got'["osm"] # None
  BY <1>1 DEF TypeOK, Data, None, ConstantsAssumption, IInv
<1>3. TypeOK'
  BY <1>1, <1>2 DEF TypeOK, OSMLabels, FollowDiffs, IInv, Goto, disk
<1>4. DataInv'
  BY DEF TypeOK, DataInv, Published, FollowDiffs, IInv, Goto, disk
<1>5. ExtractInv'
  BY Absent DEF TypeOK, ExtractInv, StaleHasCause, Stale, FollowDiffs, IInv, Goto, disk, Cause
<1>6. StaleHasCause'
  BY DEF StaleHasCause, Stale, FollowDiffs, IInv, Goto, disk, Cause
<1>7. LabelInv'
  BY DEF TypeOK, LabelInv, Torn, FollowDiffs, IInv, Goto, disk
<1> QED
  BY <1>3, <1>4, <1>5, <1>6, <1>7, FeedUndisturbed DEF IInv, OSM

(* The validators sent are those of the cached ZIP. *)
LEMMA SeedFeedStep ==
  ASSUME ConstantsAssumption, IInv, SeedFeed
  PROVE  IInv'
<1>1. TypeOK'
  <2>1. (IF Cached("zip") THEN Meta("zip", config["gtfs"]) ELSE None) \in Data
    BY Absent, MetaData DEF SeedFeed, IInv, Goto, disk
  <2>2. tag' \in [Resources -> Data] /\ had' \in [Resources -> BOOLEAN]
    BY <2>1 DEF TypeOK, Cached, SeedFeed, IInv, Goto, disk
  <2> QED
    BY <2>1, <2>2 DEF TypeOK, FeedLabels, SeedFeed, IInv, Goto, disk
<1>2. DataInv'
  BY MetaData DEF DataInv, Published, SeedFeed, IInv, Goto, disk
<1>3. FeedInv'
  BY MetaData DEF TypeOK, FeedInv, Cached, SeedFeed, IInv, Goto, disk
<1>4. StaleHasCause'
  BY DEF StaleHasCause, Stale, SeedFeed, IInv, Goto, disk, Cause
<1>5. ValidatorsHonest'
  BY DEF ValidatorsHonest, SeedFeed, IInv, Goto, disk
<1>6. LabelInv'
  BY DEF TypeOK, LabelInv, Torn, SeedFeed, IInv, Goto, disk
<1> QED
  BY <1>1, <1>2, <1>3, <1>4, <1>5, <1>6, GraphUndisturbed DEF IInv, Feed

(* The ZIP installed has the validators beside it, or older ones. *)
LEMMA FeedFallbackStep ==
  ASSUME ConstantsAssumption, IInv, FeedFallback
  PROVE  IInv'
<1>1. tag["gtfs"] = Newest("gtfs") /\ ~Torn("zip") => payload["zip"] = Newest("gtfs")
  <2> SUFFICES ASSUME tag["gtfs"] = Newest("gtfs"), ~Torn("zip")
               PROVE  payload["zip"] = Newest("gtfs")
    BY DEF FeedFallback, IInv, Goto, Serve, Spend, disk
  <2>1. meta["zip"] = Newest("gtfs") /\ payload["zip"] # None
    BY NewestData DEF FeedInv, Cached, FeedFallback, IInv, Goto, Serve, Spend, disk
  <2>2. payload["zip"].url = config["gtfs"] /\ payload["zip"] \in Data
    BY <2>1, NewestData DEF Torn, TypeOK, FeedFallback, IInv, Goto, Serve, Spend, disk, Trusted
  <2>3. payload["zip"].ver <= newest[config["gtfs"]] /\ newest[config["gtfs"]] <= payload["zip"].ver
    BY <2>1, <2>2, NewestData DEF FeedInv, DataInv, Published, FeedFallback, IInv, Goto, Serve, Spend, disk
  <2> QED
    BY <2>2, <2>3, SameData, NewestData DEF Data, FeedFallback, IInv, Goto, Serve, Spend, disk
<1>2. /\ served'["gtfs"] = payload["zip"] /\ tag' = tag /\ Newest("gtfs")' = Newest("gtfs")
      /\ origin'["gtfs"] = IF Torn("zip") THEN "torn" ELSE "fallback"
      /\ UNCHANGED <<config, served["osm"], origin["osm"]>>
  BY DEF TypeOK, LabelInv, Trusted, Newest, FeedFallback, IInv, Goto, Serve, Spend, disk
<1>3. TypeOK'
  BY Absent DEF TypeOK, FeedLabels, FeedFallback, IInv, Goto, Serve, Spend, disk, Trusted, Origins
<1>4. DataInv'
  BY DEF DataInv, Published, FeedFallback, IInv, Goto, Serve, Spend, disk
<1>5. FeedInv'
  BY DEF FeedInv, Cached, FeedFallback, IInv, Goto, Serve, Spend, disk
<1>6. StaleHasCause'
  BY <1>2 DEF TypeOK, StaleHasCause, Stale, Cause, FeedFallback, IInv, Goto, Serve, Spend, disk
<1>7. ValidatorsHonest'
  <2>1. tag["gtfs"] = Newest("gtfs") /\ Torn("zip") =>
          payload["zip"] # None /\ payload["zip"].url # config["gtfs"]
    BY NewestData DEF Torn, FeedInv, FeedFallback, IInv
  <2> QED
    BY <1>1, <1>2, <2>1 DEF ValidatorsHonest, Stale, IInv
<1>8. LabelInv'
  BY DEF TypeOK, LabelInv, Torn, FeedFallback, IInv, Goto, Serve, Spend, disk
<1> QED
  BY <1>3, <1>4, <1>5, <1>6, <1>7, <1>8, GraphUndisturbed DEF IInv, Feed

(* A 304 vouches for the cached ZIP, unless its file is torn. *)
LEMMA FeedUnchangedStep ==
  ASSUME ConstantsAssumption, IInv, FeedUnchanged
  PROVE  IInv'
<1>1. tag["gtfs"] = Newest("gtfs") /\ ~Torn("zip") => payload["zip"] = Newest("gtfs")
  <2> SUFFICES ASSUME tag["gtfs"] = Newest("gtfs"), ~Torn("zip")
               PROVE  payload["zip"] = Newest("gtfs")
    BY DEF FeedUnchanged, IInv, Goto, Serve, disk
  <2>1. meta["zip"] = Newest("gtfs") /\ payload["zip"] # None
    BY NewestData DEF FeedInv, Cached, FeedUnchanged, IInv, Goto, Serve, disk
  <2>2. payload["zip"].url = config["gtfs"] /\ payload["zip"] \in Data
    BY <2>1, NewestData DEF Torn, TypeOK, FeedUnchanged, IInv, Goto, Serve, disk, Trusted
  <2>3. payload["zip"].ver <= newest[config["gtfs"]] /\ newest[config["gtfs"]] <= payload["zip"].ver
    BY <2>1, <2>2, NewestData DEF FeedInv, DataInv, Published, FeedUnchanged, IInv, Goto, Serve, disk
  <2> QED
    BY <2>2, <2>3, SameData, NewestData DEF Data, FeedUnchanged, IInv, Goto, Serve, disk
<1>2. /\ served'["gtfs"] = payload["zip"] /\ tag' = tag /\ Newest("gtfs")' = Newest("gtfs")
      /\ origin'["gtfs"] = IF Torn("zip") THEN "torn" ELSE "cache"
      /\ UNCHANGED <<config, served["osm"], origin["osm"]>>
  BY DEF TypeOK, LabelInv, Trusted, Newest, FeedUnchanged, IInv, Goto, Serve, disk
<1>3. TypeOK'
  BY Absent DEF TypeOK, FeedLabels, FeedUnchanged, IInv, Goto, Serve, disk, Trusted, Origins
<1>4. DataInv'
  BY DEF DataInv, Published, FeedUnchanged, IInv, Goto, Serve, disk
<1>5. FeedInv'
  BY DEF FeedInv, Cached, FeedUnchanged, IInv, Goto, Serve, disk
<1>6. StaleHasCause'
  BY <1>1, <1>2, NewestData DEF StaleHasCause, Stale, FeedUnchanged, IInv, Goto, Serve, disk, Cause
<1>7. ValidatorsHonest'
  <2>1. tag["gtfs"] = Newest("gtfs") /\ Torn("zip") =>
          payload["zip"] # None /\ payload["zip"].url # config["gtfs"]
    BY NewestData DEF Torn, FeedInv, FeedUnchanged, IInv
  <2> QED
    BY <1>1, <1>2, <2>1 DEF ValidatorsHonest, Stale, IInv
<1>8. LabelInv'
  BY DEF TypeOK, LabelInv, Torn, FeedUnchanged, IInv, Goto, Serve, disk
<1> QED
  BY <1>3, <1>4, <1>5, <1>6, <1>7, <1>8, GraphUndisturbed DEF IInv, Feed

(* What is downloaded is newer than any validator of its source. *)
LEMMA FeedChangedStep ==
  ASSUME ConstantsAssumption, IInv, FeedChanged
  PROVE  IInv'
<1>1. TypeOK'
  BY NewestData DEF TypeOK, FeedLabels, FeedChanged, IInv, Goto, disk
<1>2. DataInv'
  BY NewestData DEF DataInv, Published, FeedChanged, IInv, Goto, disk
<1>3. FeedInv'
  BY Absent, NewestData DEF TypeOK, FeedInv, DataInv, Published, FeedChanged, IInv, Goto, disk
<1>4. StaleHasCause'
  BY DEF StaleHasCause, Stale, FeedChanged, IInv, Goto, disk, Cause
<1>5. ValidatorsHonest'
  BY DEF ValidatorsHonest, Newest, FeedChanged, IInv, Goto, disk
<1>6. LabelInv'
  BY DEF TypeOK, LabelInv, Torn, FeedChanged, IInv, Goto, disk
<1> QED
  BY <1>1, <1>2, <1>3, <1>4, <1>5, <1>6, GraphUndisturbed DEF IInv, Feed

(* The payload goes first: validators on disk lag behind it. *)
LEMMA StoreFeedStep ==
  ASSUME ConstantsAssumption, IInv, StoreFeed
  PROVE  IInv'
<1>1. TypeOK'
  BY DEF TypeOK, FeedLabels, StoreFeed, IInv, Goto, Store
<1>2. DataInv'
  BY DEF DataInv, Published, StoreFeed, IInv, Goto, Store
<1>3. FeedInv'
  BY DEF TypeOK, FeedInv, StoreFeed, IInv, Goto, Store
<1>4. StaleHasCause'
  BY DEF StaleHasCause, Stale, StoreFeed, IInv, Goto, Store, Cause
<1>5. ValidatorsHonest'
  BY DEF ValidatorsHonest, StoreFeed, IInv, Goto, Store
<1>6. LabelInv'
  BY DEF TypeOK, LabelInv, Torn, StoreFeed, IInv, Goto, Store
<1> QED
  BY <1>1, <1>2, <1>3, <1>4, <1>5, <1>6, GraphUndisturbed DEF IInv, Feed

(* The validators follow the payload they belong to. *)
LEMMA LabelFeedStep ==
  ASSUME ConstantsAssumption, IInv, LabelFeed
  PROVE  IInv'
<1>1. TypeOK'
  BY Absent DEF TypeOK, FeedLabels, LabelFeed, IInv, Goto, Serve, Label, Origins
<1>2. DataInv'
  BY DEF DataInv, FeedInv, Published, LabelFeed, IInv, Goto, Serve, Label
<1>3. FeedInv'
  BY Absent DEF TypeOK, FeedInv, LabelFeed, IInv, Goto, Serve, Label
<1>4. StaleHasCause'
  BY DEF TypeOK, StaleHasCause, Stale, FeedInv, LabelFeed, IInv, Goto, Serve, Label, Cause
<1>5. ValidatorsHonest'
  BY DEF TypeOK, ValidatorsHonest, LabelFeed, IInv, Goto, Serve, Label
<1>6. LabelInv'
  BY DEF TypeOK, FeedInv, LabelInv, Torn, LabelFeed, IInv, Goto, Serve, Label
<1> QED
  BY <1>1, <1>2, <1>3, <1>4, <1>5, <1>6, GraphUndisturbed DEF IInv, Feed

(* From RAM or from disk, the feed served is the one its validators name. *)
LEMMA StoreFailsStep ==
  ASSUME ConstantsAssumption, IInv, StoreFails
  PROVE  IInv'
<1>1. TypeOK'
  BY Absent DEF TypeOK, FeedLabels, StoreFails, IInv, Goto, Serve, Spend, Origins
<1>2. DataInv'
  BY DEF TypeOK, DataInv, FeedInv, Published, StoreFails, IInv, Goto, Serve, Spend
<1>3. FeedInv'
  BY Absent DEF TypeOK, FeedInv, StoreFails, IInv, Goto, Serve, Spend
<1>4. StaleHasCause'
  BY DEF TypeOK, StaleHasCause, Stale, FeedInv, StoreFails, IInv, Goto, Serve, Spend, Cause
<1>5. ValidatorsHonest'
  BY DEF TypeOK, ValidatorsHonest, StoreFails, IInv, Goto, Serve, Spend
<1>6. LabelInv'
  BY DEF TypeOK, LabelInv, Torn, StoreFails, IInv, Goto, Serve, Spend
<1> QED
  BY <1>1, <1>2, <1>3, <1>4, <1>5, <1>6, GraphUndisturbed DEF IInv, Feed

-----------------------------------------------------------------------------
(* The theorems.                                                           *)

(* Every step, and every stutter, preserves the inductive invariant. *)
LEMMA NextIInv == IInv /\ [Next]_vars => IInv'
<1> SUFFICES ASSUME IInv, [Next]_vars
             PROVE  IInv'
  OBVIOUS
<1> USE ConstantsAssumption
<1>1. CASE UNCHANGED vars
  BY <1>1 DEF vars, disk, process, IInv, TypeOK, DataInv, Published, FeedInv, ExtractInv,
              LabelInv, StaleHasCause, Stale, Cause, ValidatorsHonest, Newest, Torn, Cached
<1>2. CASE \E u \in URLs : Publish(u)
  BY <1>2, PublishStep
<1>3. CASE \E r \in Resources : SwitchURL(r)
  BY <1>3, SwitchURLStep
<1>4. CASE Crash \/ Boot
  BY <1>4, CrashStep, BootStep
<1>5. CASE OSM
  BY <1>5, LoadImageStep, DiscardImageStep, SeekExtractStep, ExtractFallbackStep,
     ExtractUnchangedStep, AdoptExtractStep, LabelExtractStep, LabelExtractFailsStep,
     BuildGraphStep, SaveImageStep, LabelImageStep, ImageFailsStep, DropExtractStep,
     DropExtractMetaStep, FollowDiffsStep DEF OSM
<1>6. CASE Feed
  BY <1>6, SeedFeedStep, FeedFallbackStep, FeedUnchangedStep, FeedChangedStep, StoreFeedStep,
     LabelFeedStep, StoreFailsStep DEF Feed
<1> QED
  BY <1>1, <1>2, <1>3, <1>4, <1>5, <1>6 DEF Next

(* The inductive invariant: how far validators can lag behind their data, on  *)
(* disk and in flight, and where what is being built or stored comes from.    *)
THEOREM Invariance == Spec => []IInv
BY InitIInv, NextIInv, PTL DEF Spec

(* The cache, the boot sequence and the live loops keep their types. *)
THEOREM TypeCorrect == Spec => []TypeOK
<1>1. IInv => TypeOK
  BY DEF IInv
<1> QED
  BY <1>1, Invariance, PTL

(* Foreign data is served only after a fallback, from a file whose metadata  *)
(* were never written, or from the image of a graph that was foreign so.     *)
THEOREM Staleness == Spec => []StaleHasCause
<1>1. IInv => StaleHasCause
  BY DEF IInv
<1> QED
  BY <1>1, Invariance, PTL

(* A feed that the next poll will find unchanged serves the newest ZIP, or   *)
(* another source's under the configured one's validators.                   *)
THEOREM Honesty == Spec => []ValidatorsHonest
<1>1. IInv => ValidatorsHonest
  BY DEF IInv
<1> QED
  BY <1>1, Invariance, PTL

(* No step but the discarding of an unreadable image loses both the extract *)
(* and its image.                                                           *)
LEMMA KeepsOne ==
  IInv /\ [Next]_vars =>
    [(Cached("pbf") \/ Cached("gts")) /\ ~DiscardImage => (Cached("pbf") \/ Cached("gts"))']_vars
<1> SUFFICES ASSUME IInv, Next, Cached("pbf") \/ Cached("gts"), ~DiscardImage
             PROVE  (Cached("pbf") \/ Cached("gts"))'
  BY DEF vars
<1> USE ConstantsAssumption
<1>1. payload \in [Files -> Data]
  BY DEF IInv, TypeOK
<1>2. CASE payload' = payload
  BY <1>2 DEF Cached
<1>3. CASE AdoptExtract
  BY <1>1, <1>3, NewestData DEF AdoptExtract, Store, IInv, Cached
<1>4. CASE SaveImage
  BY <1>1, <1>4 DEF SaveImage, Store, IInv, TypeOK, Cached
<1>5. CASE DropExtract
  BY <1>1, <1>5 DEF DropExtract, IInv, ExtractInv, Cached
<1>6. CASE StoreFeed
  BY <1>1, <1>6 DEF StoreFeed, Store, Cached
<1> QED
  BY <1>2, <1>3, <1>4, <1>5, <1>6
  DEF Next, Publish, SwitchURL, Crash, Boot, OSM, LoadImage, SeekExtract, ExtractFallback,
      ExtractUnchanged, LabelExtract, LabelExtractFails, BuildGraph, LabelImage, ImageFails,
      DropExtractMeta, FollowDiffs, Feed, SeedFeed, FeedFallback, FeedUnchanged, FeedChanged,
      LabelFeed, StoreFails, disk

(* A crash at any instant finds the extract or its image, once one is there. *)
THEOREM Continuity == Spec => ExtractOrImage
BY Invariance, KeepsOne, PTL DEF Spec, ExtractOrImage
====
