---- MODULE RTManagerProofs ----
(***************************************************************************)
(* The safety of the realtime manager, for any number of sources, of       *)
(* timetables, of publications and of failures.                            *)
(***************************************************************************)
EXTENDS RTManager, TLAPS

USE DEF Sources, Updater, Callers, Kinds, Timetables

(* A URL belongs to a source, never to the updater, and is of one kind. *)
LEMMA UrlParts ==
  ASSUME ConstantsAssumption, NEW u \in Urls
  PROVE  /\ u[1] \in Sources /\ u[1] \in Callers /\ u[1] # Updater
         /\ u[2] \in Kinds /\ u = <<u[1], u[2]>>
BY DEF Urls, ConstantsAssumption

(* The empty overlay is one. *)
LEMMA NoOverlayType ==
  ConstantsAssumption => NoOverlay \in Overlay /\ NoOverlay.on = 0
BY DEF NoOverlay, Nothing, Overlay, ConstantsAssumption

(* Every initial state satisfies the inductive invariant. *)
LEMMA InitIInv == Init => IInv
<1> SUFFICES ASSUME Init
             PROVE  IInv
  OBVIOUS
<1> USE ConstantsAssumption
<1>1. NoOverlay \in Overlay /\ NoOverlay.on = 0 /\ NoOverlay.feeds = Nothing
  BY NoOverlayType DEF NoOverlay
<1>2. TypeOK
  <2>1. Nothing \in [Urls -> Nat]
    BY DEF Nothing
  <2>2. session \in [pc : {"top", "subscribe", "select", "evaluate"}, open : BOOLEAN,
                     missed : BOOLEAN, fixes : BOOLEAN, tt : 0..MaxTimetable,
                     saw : [Urls -> Nat]]
    BY <2>1 DEF Init, ConstantsAssumption
  <2>3. /\ overlay \in [Timetables -> Overlay] /\ job \in [Callers -> Overlay]
        /\ current \in Timetables /\ faults \in Nat /\ version \in Nat
    BY <1>1 DEF Init, ConstantsAssumption
  <2>4. /\ remote \in [Urls -> Nat] /\ seen \in [Urls -> Nat] /\ feed \in [Urls -> Nat]
        /\ changed \in [Sources -> BOOLEAN] /\ pc \in [Callers -> CallerLabels]
    BY <2>1 DEF Init, CallerLabels
  <2> QED
    BY <2>2, <2>3, <2>4 DEF Init, TypeOK
<1>3. OverlayFitsTimetable
  BY <1>1 DEF Init, OverlayFitsTimetable
<1>4. OwedInv
  BY DEF Init, OwedInv, Nothing
<1>5. UpdaterInv
  BY DEF Init, UpdaterInv
<1>6. NoSilentChange
  BY DEF Init, NoSilentChange
<1>7. ProjectInv
  BY <1>1 DEF Init, ProjectInv, Holding, ConstantsAssumption
<1> QED
  BY <1>2, <1>3, <1>4, <1>5, <1>6, <1>7 DEF IInv

-----------------------------------------------------------------------------
(* Steps that change neither the goroutines nor what they project.         *)

(* Nothing but the world, the wakeups and the session's thoughts changes.  *)
LEMMA QuietStep ==
  ASSUME IInv, TypeOK', OwedInv',
         UNCHANGED <<current, overlay, pc, changed, feed, job, clashed>>,
         UNCHANGED session \/ session'.pc # "select" \/ session'.missed = FALSE
  PROVE  IInv'
<1>1. OverlayFitsTimetable' /\ UpdaterInv'
  BY DEF IInv, OverlayFitsTimetable, UpdaterInv
<1>2. NoSilentChange'
  BY DEF IInv, NoSilentChange
<1>3. ProjectInv'
  BY DEF IInv, ProjectInv, Due, Holding
<1> QED
  BY <1>1, <1>2, <1>3 DEF IInv

(* A publication only widens the gap between what is seen and what is there. *)
LEMMA PublishStep ==
  ASSUME ConstantsAssumption, IInv, NEW u \in Urls, Publish(u)
  PROVE  IInv'
<1>1. TypeOK'
  BY DEF IInv, TypeOK, Publish, rtVars
<1>2. OwedInv'
  BY DEF IInv, TypeOK, OwedInv, Publish, rtVars
<1> QED
  BY <1>1, <1>2, QuietStep DEF Publish, rtVars

(* PollNow: what is owed has news, and every source has its wakeup. *)
LEMMA PollNowStep ==
  ASSUME ConstantsAssumption, IInv, PollNow
  PROVE  IInv'
<1>1. TypeOK'
  BY DEF IInv, TypeOK, PollNow, News
<1>2. OwedInv'
  <2>1. ASSUME NEW u \in Urls, u \in owed'
        PROVE  seen[u] # remote[u] /\ u[1] \in kicks'
    BY <2>1, UrlParts DEF IInv, OwedInv, PollNow, News
  <2> QED
    BY <2>1, <1>1 DEF IInv, OwedInv, PollNow, TypeOK
<1> QED
  BY <1>1, <1>2, QuietStep DEF PollNow

(* The session's own steps leave the manager alone. *)
LEMMA SessionStep ==
  ASSUME ConstantsAssumption, IInv, Session
  PROVE  IInv'
<1>1. UNCHANGED <<remote, current, overlay, faults, pc, rtVars, version, job, owed, clashed>>
  BY DEF Session, Subscribe, Wake, FixesClosed, Evaluate
<1>2. OwedInv'
  BY <1>1 DEF IInv, OwedInv, rtVars
<1>3. TypeOK' /\ (session'.pc # "select" \/ session'.missed = FALSE)
  <2>1. CASE Subscribe
    BY <1>1, <2>1 DEF Subscribe, IInv, TypeOK, rtVars
  <2>2. CASE Wake
    <3>1. current \in 0..MaxTimetable /\ current \in Timetables
      BY DEF IInv, TypeOK, ConstantsAssumption
    <3>2. session' = [session EXCEPT !.pc = "evaluate", !.tt = current]
      BY <2>2 DEF Wake
    <3>3. /\ session'.tt = current /\ session'.pc = "evaluate"
          /\ session' \in [pc : {"top", "subscribe", "select", "evaluate"}, open : BOOLEAN,
                           missed : BOOLEAN, fixes : BOOLEAN, tt : 0..MaxTimetable,
                           saw : [Urls -> Nat]]
      BY <3>1, <3>2 DEF IInv, TypeOK
    <3> QED
      BY <1>1, <3>1, <3>3 DEF IInv, TypeOK, rtVars
  <2>3. CASE FixesClosed
    BY <1>1, <2>3 DEF FixesClosed, IInv, TypeOK, rtVars
  <2>4. CASE Evaluate
    <3>1. overlay[session.tt].feeds \in [Urls -> Nat]
      BY <2>4 DEF Evaluate, IInv, TypeOK, Overlay
    <3> QED
      BY <1>1, <2>4, <3>1 DEF Evaluate, IInv, TypeOK, rtVars
  <2> QED
    BY <2>1, <2>2, <2>3, <2>4 DEF Session
<1> QED
  BY <1>1, <1>2, <1>3, QuietStep DEF rtVars

-----------------------------------------------------------------------------
(* Polling.                                                                *)

(* StartPoll: a poll that consumes a wakeup begins with the first URL. *)
LEMMA StartPollStep ==
  ASSUME ConstantsAssumption, IInv, NEW s \in Sources, StartPoll(s)
  PROVE  IInv'
<1>1. /\ pc[s] = "idle" /\ pc' = [pc EXCEPT ![s] = "tu"]
      /\ changed' = [changed EXCEPT ![s] = FALSE]
      /\ kicks' \in {kicks, kicks \ {s}}
      /\ UNCHANGED <<remote, current, overlay, faults, seen, feed, version, job, session, owed, clashed>>
  BY DEF StartPoll, Goto
<1>2. s \in Callers /\ s # Updater
  BY DEF ConstantsAssumption
<1>3. TypeOK'
  BY <1>1, <1>2 DEF IInv, TypeOK, CallerLabels
<1>4. OwedInv'
  <2>1. ASSUME NEW u \in owed
        PROVE  \/ u[1] \in kicks'
               \/ pc'[u[1]] = "tu"
               \/ pc'[u[1]] = "vp" /\ u[2] = "vp"
    <3>1. u[1] \in Callers
      BY UrlParts DEF IInv, TypeOK
    <3> QED
      BY <1>1, <3>1 DEF IInv, TypeOK, OwedInv
  <2> QED
    BY <1>1, <2>1 DEF IInv, OwedInv
<1>5. OverlayFitsTimetable' /\ UpdaterInv'
  BY <1>1, <1>2 DEF IInv, OverlayFitsTimetable, UpdaterInv, TypeOK
<1>6. NoSilentChange'
  BY <1>1 DEF IInv, NoSilentChange, TypeOK
<1>7. ProjectInv'
  <2>1. \A c \in Callers : /\ Due(c) => Due(c)'
                           /\ Holding(c)' <=> Holding(c)
    BY <1>1, <1>2 DEF IInv, TypeOK, Due, Holding
  <2> QED
    BY <1>1, <2>1 DEF IInv, ProjectInv
<1> QED
  BY <1>3, <1>4, <1>5, <1>6, <1>7 DEF IInv

(* Where a poll stands after a URL: at the next one, at the projection that *)
(* a change calls for, or at its end.                                       *)
LEMMA AfterUrlPlace ==
  ASSUME ConstantsAssumption, TypeOK, NEW u \in Urls, NEW change \in BOOLEAN, AfterUrl(u, change)
  PROVE  \E next \in {"vp", "rebuild", "idle"} :
           /\ pc' = [pc EXCEPT ![u[1]] = next]
           /\ next = "vp" => u[2] = "tu"
           /\ <<u[1], "vp">> \in Urls /\ u[2] = "tu" => next = "vp"
           /\ next = "idle" => ~change
BY DEF AfterUrl, Goto

(* A poll leaves a URL, having taken its content or not: what is owed of it *)
(* is settled, and a change makes the source due.                           *)
LEMMA UrlStep ==
  ASSUME ConstantsAssumption, IInv, NEW u \in Urls, NEW change \in BOOLEAN,
         pc[u[1]] = u[2], AfterUrl(u, change),
         changed' = [changed EXCEPT ![u[1]] = change],
         changed[u[1]] => change,
         ~change => feed' = feed,
         feed' \in [Urls -> Nat], seen' \in [Urls -> Nat], faults' \in Nat,
         seen'[u] <= remote[u],
         \A w \in Urls \ {u} : seen'[w] = seen[w],
         owed' = owed \ {u},
         UNCHANGED <<remote, current, overlay, kicks, version, job, session, clashed>>
  PROVE  IInv'
<1>1. PICK next \in {"vp", "rebuild", "idle"} :
        /\ pc' = [pc EXCEPT ![u[1]] = next]
        /\ next = "vp" => u[2] = "tu"
        /\ <<u[1], "vp">> \in Urls /\ u[2] = "tu" => next = "vp"
        /\ next = "idle" => ~change
  BY AfterUrlPlace DEF IInv
<1>2. /\ u[1] \in Sources /\ u[1] \in Callers /\ u[1] # Updater /\ u[2] \in Kinds
      /\ u = <<u[1], u[2]>>
  BY UrlParts
<1>3. TypeOK'
  BY <1>1, <1>2 DEF IInv, TypeOK, CallerLabels
<1>4. OwedInv'
  <2>1. ASSUME NEW w \in Urls
        PROVE  seen'[w] <= remote'[w]
    BY DEF IInv, OwedInv
  <2>2. ASSUME NEW w \in owed'
        PROVE  /\ seen'[w] # remote'[w]
               /\ \/ w[1] \in kicks'
                  \/ pc'[w[1]] = "tu"
                  \/ pc'[w[1]] = "vp" /\ w[2] = "vp"
    <3>1. w \in owed /\ w # u /\ w \in Urls
      BY DEF IInv, TypeOK
    <3>2. w[1] \in Callers /\ w[2] \in Kinds /\ w = <<w[1], w[2]>>
      BY <3>1, UrlParts
    <3>3. CASE w[1] # u[1]
      BY <1>1, <1>2, <3>1, <3>2, <3>3 DEF IInv, OwedInv, TypeOK
    <3>4. CASE w[1] = u[1] /\ w[1] \notin kicks
      <4>1. u[2] = "tu" \/ (u[2] = "vp" /\ w[2] = "vp")
        <5>1. pc[w[1]] = "tu" \/ (pc[w[1]] = "vp" /\ w[2] = "vp")
          BY <3>1, <3>4 DEF IInv, OwedInv
        <5> QED
          BY <3>4, <5>1
      <4>2. u[2] = "tu" /\ w[2] = "vp"
        BY <1>2, <3>1, <3>2, <3>4, <4>1
      <4>3. next = "vp"
        BY <1>1, <3>1, <3>2, <3>4, <4>2
      <4> QED
        BY <1>1, <1>2, <3>1, <3>4, <4>2, <4>3 DEF IInv, OwedInv, TypeOK
    <3>5. CASE w[1] \in kicks
      BY <3>1, <3>5 DEF IInv, OwedInv
    <3> QED
      BY <3>3, <3>4, <3>5
  <2> QED
    BY <2>1, <2>2 DEF OwedInv
<1>5. OverlayFitsTimetable' /\ UpdaterInv'
  BY <1>1, <1>2 DEF IInv, OverlayFitsTimetable, UpdaterInv, TypeOK
<1>6. NoSilentChange'
  <2>1. \A c \in Callers : pc[c] \in {"rebuild", "build", "setRT", "bump", "broadcast"}
                             => pc'[c] = pc[c]
    BY <1>1, <1>2 DEF IInv, TypeOK
  <2> QED
    BY <2>1 DEF IInv, NoSilentChange
<1>7. ProjectInv'
  <2>1. change => Due(u[1])'
    BY <1>1, <1>2 DEF IInv, TypeOK, Due
  <2>2. \A c \in Callers : (Due(c) => Due(c)' \/ change) /\ (Holding(c)' <=> Holding(c))
    BY <1>1, <1>2 DEF IInv, TypeOK, Due, Holding
  <2>3. CASE change
    BY <1>2, <2>1, <2>3 DEF ProjectInv
  <2>4. CASE ~change
    BY <2>2, <2>4 DEF IInv, ProjectInv
  <2> QED
    BY <2>3, <2>4
<1> QED
  BY <1>3, <1>4, <1>5, <1>6, <1>7 DEF IInv

(* PollNew, PollSame and PollFails leave their URL in that way. *)
LEMMA PollStep ==
  ASSUME ConstantsAssumption, IInv, NEW u \in Urls,
         PollNew(u) \/ PollSame(u) \/ PollFails(u)
  PROVE  IInv'
<1>1. /\ u[1] \in Sources /\ changed \in [Sources -> BOOLEAN]
      /\ remote[u] \in Nat /\ seen[u] <= remote[u]
  BY UrlParts DEF IInv, TypeOK, OwedInv
<1>2. CASE PollNew(u)
  <2>1. /\ feed' \in [Urls -> Nat] /\ seen' \in [Urls -> Nat] /\ faults' \in Nat
        /\ seen'[u] <= remote[u]
        /\ \A w \in Urls \ {u} : seen'[w] = seen[w]
    BY <1>1, <1>2 DEF PollNew, IInv, TypeOK
  <2> QED
    BY <1>1, <1>2, <2>1, UrlStep DEF PollNew
<1>3. CASE PollSame(u)
  <2>1. u \notin owed
    BY <1>3 DEF PollSame, IInv, OwedInv
  <2>2. feed' \in [Urls -> Nat] /\ seen' \in [Urls -> Nat] /\ faults' \in Nat
    BY <1>3 DEF PollSame, IInv, TypeOK, rtVars
  <2>3. changed' = [changed EXCEPT ![u[1]] = changed[u[1]]] /\ changed[u[1]] \in BOOLEAN
    BY <1>1, <1>3 DEF PollSame, rtVars
  <2> QED
    <3>1. /\ pc[u[1]] = u[2] /\ AfterUrl(u, changed[u[1]]) /\ seen' = seen /\ feed' = feed
          /\ owed' = owed \ {u}
          /\ UNCHANGED <<remote, current, overlay, kicks, version, job, session, clashed>>
      BY <1>3, <2>1 DEF PollSame, rtVars
    <3> QED
      BY <1>1, <2>2, <2>3, <3>1, UrlStep
<1>4. CASE PollFails(u)
  <2>1. /\ feed' \in [Urls -> Nat] /\ seen' \in [Urls -> Nat] /\ faults' \in Nat
        /\ seen'[u] <= remote[u]
        /\ \A w \in Urls \ {u} : seen'[w] = seen[w]
    <3>1. faults' = faults + 1 /\ feed' = feed
      BY <1>4 DEF PollFails, Fault
    <3>2. seen' = seen \/ seen' = [seen EXCEPT ![u] = remote[u]]
      BY <1>4 DEF PollFails
    <3>3. seen \in [Urls -> Nat] /\ faults \in Nat /\ feed \in [Urls -> Nat]
      BY DEF IInv, TypeOK
    <3>4. CASE seen' = seen
      BY <1>1, <3>1, <3>3, <3>4
    <3>5. CASE seen' = [seen EXCEPT ![u] = remote[u]]
      BY <1>1, <3>1, <3>3, <3>5
    <3> QED
      BY <3>2, <3>4, <3>5
  <2>2. changed' = [changed EXCEPT ![u[1]] = changed[u[1]]] /\ changed[u[1]] \in BOOLEAN
    BY <1>1, <1>4 DEF PollFails
  <2> QED
    BY <1>1, <1>4, <2>1, <2>2, UrlStep DEF PollFails
<1> QED
  BY <1>2, <1>3, <1>4

-----------------------------------------------------------------------------
(* Rebuild.                                                                *)

(* A rebuild step of c that goes from one label to the next moves no URL.  *)
LEMMA RebuildOwed ==
  ASSUME ConstantsAssumption, IInv, NEW c \in Callers, NEW next \in CallerLabels \ Kinds,
         pc[c] \notin Kinds, pc' = [pc EXCEPT ![c] = next],
         UNCHANGED <<remote, kicks, seen, owed>>
  PROVE  OwedInv'
<1>1. ASSUME NEW u \in owed
      PROVE  \/ u[1] \in kicks
             \/ pc'[u[1]] = "tu"
             \/ pc'[u[1]] = "vp" /\ u[2] = "vp"
  <2>1. u[1] \in Callers
    BY UrlParts DEF IInv, TypeOK
  <2> QED
    BY <2>1 DEF IInv, TypeOK, OwedInv
<1> QED
  BY <1>1 DEF IInv, OwedInv

(* SwapTimetable: the updater is due until it has projected the feeds. *)
LEMMA SwapStep ==
  ASSUME ConstantsAssumption, IInv, SwapTimetable
  PROVE  IInv'
<1>1. /\ pc[Updater] = "idle" /\ pc' = [pc EXCEPT ![Updater] = "rebuild"]
      /\ current < MaxTimetable /\ current' = current + 1
      /\ session' = [session EXCEPT !.missed = TRUE]
      /\ UNCHANGED <<remote, overlay, faults, changed, kicks, seen, feed, version, job, owed, clashed>>
  BY DEF SwapTimetable, Goto, rtVars
<1>2. pc' \in [Callers -> CallerLabels] /\ pc'[Updater] = "rebuild"
  BY <1>1 DEF IInv, TypeOK, CallerLabels, ConstantsAssumption
<1>3. TypeOK'
  <2>1. current' \in Timetables
    BY <1>1 DEF IInv, TypeOK, ConstantsAssumption
  <2>2. /\ session' \in [pc : {"top", "subscribe", "select", "evaluate"}, open : BOOLEAN,
                        missed : BOOLEAN, fixes : BOOLEAN, tt : 0..MaxTimetable,
                        saw : [Urls -> Nat]]
        /\ session'.pc = session.pc /\ session'.tt = session.tt
    BY <1>1 DEF IInv, TypeOK
  <2>3. \A c \in Callers : pc'[c] \in {"build", "setRT", "bump"} => job'[c].on \in Timetables
    BY <1>1 DEF IInv, TypeOK
  <2> QED
    BY <1>1, <1>2, <2>1, <2>2, <2>3 DEF IInv, TypeOK
<1>4. OwedInv'
  BY <1>1, RebuildOwed DEF CallerLabels
<1>5. OverlayFitsTimetable' /\ UpdaterInv'
  BY <1>1, <1>2 DEF IInv, OverlayFitsTimetable, UpdaterInv
<1>6. Updater \in Callers
  OBVIOUS
<1>7. NoSilentChange' /\ ProjectInv'
  BY <1>2, <1>6 DEF NoSilentChange, ProjectInv, Due
<1> QED
  BY <1>3, <1>4, <1>5, <1>7 DEF IInv

(* CaptureTimetable: who was due still is, with the timetable in hand. *)
LEMMA CaptureStep ==
  ASSUME ConstantsAssumption, IInv, NEW c \in Callers, CaptureTimetable(c)
  PROVE  IInv'
<1>1. /\ pc[c] = "rebuild" /\ pc' = [pc EXCEPT ![c] = "build"]
      /\ job' = [job EXCEPT ![c] = [NoOverlay EXCEPT !.on = current]]
      /\ UNCHANGED <<remote, current, overlay, faults, changed, kicks, seen, feed, version, session, owed, clashed>>
  BY DEF CaptureTimetable, Goto, rtVars
<1>2. [NoOverlay EXCEPT !.on = current] \in Overlay /\ [NoOverlay EXCEPT !.on = current].on = current
  <2>1. NoOverlay \in [on : 0..MaxTimetable, ver : Nat, feeds : [Urls -> Nat]]
    BY NoOverlayType DEF Overlay
  <2>2. current \in 0..MaxTimetable
    BY DEF IInv, TypeOK, ConstantsAssumption
  <2> QED
    BY <2>1, <2>2 DEF Overlay
<1>3. /\ job'[c].on = current /\ job' \in [Callers -> Overlay]
      /\ \A d \in Callers \ {c} : job'[d] = job[d] /\ pc'[d] = pc[d]
      /\ pc'[c] = "build" /\ pc' \in [Callers -> CallerLabels]
  BY <1>1, <1>2 DEF IInv, TypeOK, CallerLabels
<1>4. TypeOK'
  BY <1>1, <1>3 DEF IInv, TypeOK
<1>5. OwedInv'
  BY <1>1, RebuildOwed DEF CallerLabels
<1>6. OverlayFitsTimetable' /\ UpdaterInv'
  BY <1>1, <1>3 DEF IInv, OverlayFitsTimetable, UpdaterInv
<1>7. NoSilentChange'
  BY <1>1, <1>3 DEF IInv, NoSilentChange
<1>8. ProjectInv'
  BY <1>1, <1>3 DEF ProjectInv, Due
<1> QED
  BY <1>4, <1>5, <1>6, <1>7, <1>8 DEF IInv

(* BuildOverlay: c holds the newest feeds; an older overlay of the same      *)
(* timetable still in someone else's hands is a clash.                       *)
LEMMA BuildStep ==
  ASSUME ConstantsAssumption, IInv, NEW c \in Callers, BuildOverlay(c)
  PROVE  IInv'
<1>1. /\ pc[c] = "build" /\ pc' = [pc EXCEPT ![c] = "setRT"]
      /\ job' = [job EXCEPT ![c].ver = version + 1, ![c].feeds = feed]
      /\ clashed' = (clashed \/ \E d \in Callers : pc[d] = "setRT" /\ job[d].on = job[c].on)
      /\ UNCHANGED <<remote, current, overlay, faults, changed, kicks, seen, feed, version, session, owed>>
  BY DEF BuildOverlay, Goto, rtVars
<1>2. /\ job[c] \in Overlay /\ job[c].on \in Timetables /\ version + 1 \in Nat
      /\ feed \in [Urls -> Nat]
  BY <1>1 DEF IInv, TypeOK
<1>3. /\ job'[c] = [[job[c] EXCEPT !.ver = version + 1] EXCEPT !.feeds = feed]
      /\ \A d \in Callers \ {c} : job'[d] = job[d]
  BY <1>1 DEF IInv, TypeOK
<1>4. job'[c] \in Overlay /\ job'[c].on = job[c].on /\ job'[c].feeds = feed
  BY <1>2, <1>3 DEF Overlay
<1>5. /\ pc'[c] = "setRT" /\ pc' \in [Callers -> CallerLabels]
      /\ \A d \in Callers \ {c} : pc'[d] = pc[d]
  BY <1>1 DEF IInv, TypeOK, CallerLabels
<1>6. TypeOK'
  <2>1. job' \in [Callers -> Overlay]
    BY <1>1, <1>3, <1>4 DEF IInv, TypeOK
  <2>2. clashed' \in BOOLEAN
    BY <1>1
  <2>3. \A d \in Callers : pc'[d] \in {"build", "setRT", "bump"} => job'[d].on \in Timetables
    BY <1>2, <1>3, <1>4, <1>5 DEF IInv, TypeOK
  <2> QED
    BY <1>1, <1>5, <2>1, <2>2, <2>3 DEF IInv, TypeOK
<1>7. OwedInv'
  BY <1>1, RebuildOwed DEF CallerLabels
<1>8. OverlayFitsTimetable' /\ UpdaterInv'
  BY <1>1, <1>3, <1>4, <1>5 DEF IInv, OverlayFitsTimetable, UpdaterInv
<1>9. NoSilentChange'
  BY <1>1, <1>5 DEF IInv, NoSilentChange
<1>10. ProjectInv'
  <2> SUFFICES ASSUME ~clashed', \A d \in Callers : ~Due(d)'
               PROVE  /\ \A d \in Callers : Holding(d)' => job'[d].feeds = feed
                      /\ (\A d \in Callers : ~Holding(d)') => overlay[current].feeds = feed
    BY <1>1 DEF ProjectInv
  <2>1. ~clashed /\ \A d \in Callers : ~(pc[d] = "setRT" /\ job[d].on = job[c].on)
    BY <1>1
  <2>2. \A d \in Callers \ {c} : /\ Due(d)' <=> Due(d)
                                 /\ Holding(d)' <=> Holding(d)
    BY <1>1, <1>3, <1>5 DEF Due, Holding
  <2>3. CASE job[c].on = current
    <3>1. Holding(c)' /\ job'[c].feeds = feed
      BY <1>1, <1>4, <1>5, <2>3 DEF Holding
    <3>2. \A d \in Callers \ {c} : ~Holding(d)
      BY <2>1, <2>3 DEF Holding
    <3>3. \A d \in Callers \ {c} : ~Holding(d)'
      BY <2>2, <3>2
    <3> QED
      BY <3>1, <3>3
  <2>4. CASE job[c].on # current
    <3>1. ~Due(c) /\ ~Holding(c) /\ ~Holding(c)'
      BY <1>1, <1>4, <1>5, <2>4 DEF Due, Holding
    <3>2. \A d \in Callers : ~Due(d)
      BY <2>2, <3>1
    <3> QED
      BY <1>3, <2>1, <2>2, <3>1, <3>2 DEF IInv, ProjectInv
  <2> QED
    BY <2>3, <2>4
<1> QED
  BY <1>6, <1>7, <1>8, <1>9, <1>10 DEF IInv

(* SetRT: what c holds lands on the timetable it was projected onto.       *)
LEMMA SetRTStep ==
  ASSUME ConstantsAssumption, IInv, NEW c \in Callers, SetRT(c)
  PROVE  IInv'
<1>1. /\ pc[c] = "setRT" /\ pc' = [pc EXCEPT ![c] = "bump"]
      /\ overlay' = [overlay EXCEPT ![job[c].on] = job[c]]
      /\ session' = [session EXCEPT !.missed = TRUE]
      /\ UNCHANGED <<remote, current, faults, changed, kicks, seen, feed, version, job, owed, clashed>>
  BY DEF SetRT, Goto, rtVars
<1>2. job[c] \in Overlay /\ job[c].on \in Timetables
  BY <1>1 DEF IInv, TypeOK
<1>3. /\ overlay' \in [Timetables -> Overlay] /\ overlay'[job[c].on] = job[c]
      /\ \A t \in Timetables \ {job[c].on} : overlay'[t] = overlay[t]
  BY <1>1, <1>2 DEF IInv, TypeOK
<1>4. /\ pc'[c] = "bump" /\ pc' \in [Callers -> CallerLabels]
      /\ \A d \in Callers \ {c} : pc'[d] = pc[d]
  BY <1>1 DEF IInv, TypeOK, CallerLabels
<1>5. TypeOK'
  <2>1. /\ session' \in [pc : {"top", "subscribe", "select", "evaluate"}, open : BOOLEAN,
                        missed : BOOLEAN, fixes : BOOLEAN, tt : 0..MaxTimetable,
                        saw : [Urls -> Nat]]
        /\ session'.pc = session.pc /\ session'.tt = session.tt
    BY <1>1 DEF IInv, TypeOK
  <2>2. \A d \in Callers : pc'[d] \in {"build", "setRT", "bump"} => job'[d].on \in Timetables
    BY <1>1, <1>2, <1>4 DEF IInv, TypeOK
  <2> QED
    BY <1>1, <1>3, <1>4, <2>1, <2>2 DEF IInv, TypeOK
<1>6. OwedInv'
  BY <1>1, RebuildOwed DEF CallerLabels
<1>7. OverlayFitsTimetable'
  BY <1>2, <1>3 DEF IInv, OverlayFitsTimetable
<1>8. UpdaterInv'
  <2>1. current \in Timetables /\ (overlay[current].on = current => overlay'[current].on = current)
    BY <1>2, <1>3 DEF IInv, TypeOK
  <2>2. CASE c = Updater
    BY <1>1, <1>3, <1>4, <2>1, <2>2 DEF IInv, UpdaterInv
  <2>3. CASE c # Updater
    BY <1>1, <1>4, <2>1, <2>3 DEF IInv, UpdaterInv
  <2> QED
    BY <2>2, <2>3
<1>9. NoSilentChange'
  BY <1>4 DEF NoSilentChange
<1>10. ProjectInv'
  <2> SUFFICES ASSUME ~clashed, \A d \in Callers : ~Due(d)'
               PROVE  /\ \A d \in Callers : Holding(d)' => job[d].feeds = feed
                      /\ (\A d \in Callers : ~Holding(d)') => overlay'[current].feeds = feed
    BY <1>1 DEF ProjectInv
  <2>1. \A d \in Callers : ~Due(d)
    BY <1>1, <1>4 DEF Due
  <2>2. /\ \A d \in Callers : Holding(d) => job[d].feeds = feed
        /\ (\A d \in Callers : ~Holding(d)) => overlay[current].feeds = feed
    BY <2>1 DEF IInv, ProjectInv
  <2>3. ~Holding(c)' /\ \A d \in Callers \ {c} : Holding(d)' <=> Holding(d)
    BY <1>1, <1>4 DEF Holding
  <2>4. CASE job[c].on = current
    BY <1>1, <1>3, <2>2, <2>3, <2>4 DEF Holding
  <2>5. CASE job[c].on # current
    <3>1. overlay'[current] = overlay[current] /\ ~Holding(c)
      BY <1>3, <2>5 DEF IInv, TypeOK, Holding
    <3> QED
      BY <2>2, <2>3, <3>1
  <2> QED
    BY <2>4, <2>5
<1> QED
  BY <1>5, <1>6, <1>7, <1>8, <1>9, <1>10 DEF IInv

(* BumpVersion: only the version moves. *)
LEMMA BumpStep ==
  ASSUME ConstantsAssumption, IInv, NEW c \in Callers, BumpVersion(c)
  PROVE  IInv'
<1>1. /\ pc[c] = "bump" /\ pc' = [pc EXCEPT ![c] = "broadcast"] /\ version' = job[c].ver
      /\ UNCHANGED <<remote, current, overlay, faults, changed, kicks, seen, feed, job, session, owed, clashed>>
  BY DEF BumpVersion, Goto, rtVars
<1>2. /\ pc'[c] = "broadcast" /\ pc' \in [Callers -> CallerLabels] /\ version' \in Nat
      /\ \A d \in Callers \ {c} : pc'[d] = pc[d]
  BY <1>1 DEF IInv, TypeOK, CallerLabels, Overlay
<1>3. TypeOK'
  BY <1>1, <1>2 DEF IInv, TypeOK
<1>4. OwedInv'
  BY <1>1, RebuildOwed DEF CallerLabels
<1>5. OverlayFitsTimetable' /\ UpdaterInv'
  BY <1>1, <1>2 DEF IInv, OverlayFitsTimetable, UpdaterInv
<1>6. NoSilentChange'
  BY <1>1, <1>2 DEF IInv, NoSilentChange
<1>7. ProjectInv'
  <2>1. \A d \in Callers : (Due(d)' <=> Due(d)) /\ (Holding(d)' <=> Holding(d))
    BY <1>1, <1>2 DEF Due, Holding
  <2> QED
    BY <1>1, <2>1 DEF IInv, ProjectInv
<1> QED
  BY <1>3, <1>4, <1>5, <1>6, <1>7 DEF IInv

(* Broadcast: the channel closes, and a poller is done with its changes.   *)
LEMMA BroadcastStep ==
  ASSUME ConstantsAssumption, IInv, NEW c \in Callers, Broadcast(c)
  PROVE  IInv'
<1>1. /\ pc[c] = "broadcast" /\ pc' = [pc EXCEPT ![c] = "idle"]
      /\ session' = [session EXCEPT !.open = FALSE]
      /\ job' = [job EXCEPT ![c] = NoOverlay]
      /\ changed' = [s \in Sources |-> s # c /\ changed[s]]
      /\ UNCHANGED <<remote, current, overlay, faults, kicks, seen, feed, version, owed, clashed>>
  BY DEF Broadcast, Goto
<1>2. /\ pc'[c] = "idle" /\ pc' \in [Callers -> CallerLabels] /\ job' \in [Callers -> Overlay]
      /\ \A d \in Callers \ {c} : pc'[d] = pc[d] /\ job'[d] = job[d]
  BY <1>1, NoOverlayType DEF IInv, TypeOK, CallerLabels
<1>3. TypeOK'
  <2>1. /\ session' \in [pc : {"top", "subscribe", "select", "evaluate"}, open : BOOLEAN,
                        missed : BOOLEAN, fixes : BOOLEAN, tt : 0..MaxTimetable,
                        saw : [Urls -> Nat]]
        /\ session'.pc = session.pc /\ session'.tt = session.tt
    BY <1>1 DEF IInv, TypeOK
  <2>2. changed' \in [Sources -> BOOLEAN]
    BY <1>1 DEF IInv, TypeOK
  <2>3. \A d \in Callers : pc'[d] \in {"build", "setRT", "bump"} => job'[d].on \in Timetables
    BY <1>2 DEF IInv, TypeOK
  <2> QED
    BY <1>1, <1>2, <2>1, <2>2, <2>3 DEF IInv, TypeOK
<1>4. OwedInv'
  BY <1>1, RebuildOwed DEF CallerLabels
<1>5. OverlayFitsTimetable' /\ UpdaterInv'
  BY <1>1, <1>2 DEF IInv, OverlayFitsTimetable, UpdaterInv
<1>6. NoSilentChange'
  <2>1. session'.open = FALSE
    BY <1>1 DEF IInv, TypeOK
  <2> QED
    BY <2>1 DEF NoSilentChange
<1>7. ProjectInv'
  <2>1. \A d \in Callers : /\ Due(d) => Due(d)'
                           /\ Holding(d)' <=> Holding(d)
                           /\ Holding(d) => job'[d] = job[d]
    BY <1>1, <1>2 DEF Due, Holding
  <2> QED
    BY <1>1, <2>1 DEF IInv, ProjectInv
<1> QED
  BY <1>3, <1>4, <1>5, <1>6, <1>7 DEF IInv

-----------------------------------------------------------------------------
(* The theorems.                                                           *)

(* Every step, and every stutter, preserves the inductive invariant. *)
LEMMA NextIInv == IInv /\ [Next]_vars => IInv'
<1> SUFFICES ASSUME IInv, [Next]_vars
             PROVE  IInv'
  OBVIOUS
<1> USE ConstantsAssumption
<1>1. CASE UNCHANGED vars
  <2>1. TypeOK' /\ OverlayFitsTimetable' /\ NoSilentChange'
    BY <1>1 DEF vars, rtVars, IInv, TypeOK, OverlayFitsTimetable, NoSilentChange
  <2>2. OwedInv' /\ UpdaterInv'
    BY <1>1 DEF vars, rtVars, IInv, OwedInv, UpdaterInv
  <2>3. ProjectInv'
    BY <1>1 DEF vars, rtVars, IInv, ProjectInv, Due, Holding
  <2> QED
    BY <2>1, <2>2, <2>3 DEF IInv
<1>2. CASE \E u \in Urls : Publish(u)
  BY <1>2, PublishStep
<1>3. CASE PollNow
  BY <1>3, PollNowStep
<1>4. CASE SwapTimetable
  BY <1>4, SwapStep
<1>5. CASE \E s \in Sources : Poll(s)
  BY <1>5, StartPollStep, PollStep DEF Poll
<1>6. CASE \E c \in Callers : Rebuild(c)
  BY <1>6, CaptureStep, BuildStep, SetRTStep, BumpStep, BroadcastStep DEF Rebuild
<1>7. CASE Session
  BY <1>7, SessionStep
<1> QED
  BY <1>1, <1>2, <1>3, <1>4, <1>5, <1>6, <1>7 DEF Next

(* The inductive invariant: what is owed has its poll to come, the updater    *)
(* projects onto its own timetable, and whoever could leave an old overlay    *)
(* behind is followed by someone who is due.                                  *)
THEOREM Invariance == Spec => []IInv
BY InitIInv, NextIInv, PTL DEF Spec

(* The manager's variables keep their types. *)
THEOREM TypeCorrect == Spec => []TypeOK
<1>1. IInv => TypeOK
  BY DEF IInv
<1> QED
  BY <1>1, Invariance, PTL

(* An overlay never lands on a timetable it was not projected onto. *)
THEOREM Fitting == Spec => []OverlayFitsTimetable
<1>1. IInv => OverlayFitsTimetable
  BY DEF IInv
<1> QED
  BY <1>1, Invariance, PTL

(* A swapped-in timetable gets its overlay from the updater itself. *)
THEOREM Reprojection == Spec => []ReprojectedAfterSwap
<1>1. IInv => ReprojectedAfterSwap
  <2> SUFFICES ASSUME IInv, pc[Updater] = "idle", current > 1
               PROVE  overlay[current] # NoOverlay
    BY DEF ReprojectedAfterSwap
  <2>1. overlay[current].on = current /\ current \in Timetables
    BY DEF IInv, UpdaterInv, TypeOK
  <2> QED
    BY <2>1 DEF NoOverlay, ConstantsAssumption
<1> QED
  BY <1>1, Invariance, PTL

(* A decoded feed is lost from the live overlay only by clashing Rebuilds. *)
THEOREM NothingLost == Spec => []LostOnlyByClash
<1>1. IInv => LostOnlyByClash
  <2> SUFFICES ASSUME IInv, ~clashed, \A c \in Callers : ~Projecting(c)
               PROVE  overlay[current].feeds = feed
    BY DEF LostOnlyByClash
  <2>1. \A c \in Callers : ~Due(c) /\ ~Holding(c)
    BY DEF Projecting, Due, Holding
  <2> QED
    BY <2>1 DEF IInv, ProjectInv
<1> QED
  BY <1>1, Invariance, PTL

(* A session never sleeps on an open channel through a change that nobody is *)
(* about to broadcast.                                                       *)
THEOREM NoSleep == Spec => []NoSilentChange
<1>1. IInv => NoSilentChange
  BY DEF IInv
<1> QED
  BY <1>1, Invariance, PTL

(* A wakeup consumed is a wakeup answered. *)
THEOREM Wakeups == Spec => []WakeupFetches
<1>1. IInv => WakeupFetches
  BY DEF IInv, OwedInv, WakeupFetches
<1> QED
  BY <1>1, Invariance, PTL
====
