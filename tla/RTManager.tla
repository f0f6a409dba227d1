---- MODULE RTManager ----
(***************************************************************************)
(* internal/rt Manager: one polling goroutine per GTFS-Realtime source,    *)
(* all of them (and the updater, after every timetable swap) projecting    *)
(* the decoded feeds onto the current timetable as an immutable overlay    *)
(* and waking whoever tracks a journey.                                    *)
(*                                                                         *)
(* The n-th content published at a URL is n; 0 is "none yet".  A timetable *)
(* is the number of its swap.  Rebuild takes Manager.mu twice, and what it *)
(* does between the two sections interleaves with the other callers.       *)
(***************************************************************************)
EXTENDS Integers, FiniteSetsExt

CONSTANTS
  NSources,     \* number of realtime sources
  VPSources,    \* the sources with a vehicle-positions URL too
  MaxTimetable, \* bound: timetables, the first one included
  MaxEvents     \* bound: contents published after the first, and failures

Sources == 1..NSources
Updater == 0                         \* the goroutine inside RebuildTimetable
Callers == Sources \cup {Updater}    \* of Rebuild
Kinds == {"tu", "vp"}
Urls == {u \in Sources \X Kinds : u[2] = "tu" \/ u[1] \in VPSources}

ASSUME ConstantsAssumption ==
  /\ NSources \in Nat \ {0}
  /\ VPSources \subseteq Sources
  /\ MaxTimetable \in Nat \ {0} /\ MaxEvents \in Nat

VARIABLES
  remote,     \* remote[u]: newest content published at u (external)
  current,    \* the timetable the TT getter returns
  overlay,    \* overlay[t]: what Timetable.SetRT installed on t
  faults,     \* failures so far
  pc,         \* pc[c]: where goroutine c stands
  changed,    \* changed[s]: pollOnce's local flag
  kicks,      \* sources with a wakeup in their one-slot channel
  seen,       \* seen[u]: content whose hash was last seen
  feed,       \* tu and vp: content last decoded from u
  version,    \* Manager.version
  job,        \* job[c]: the overlay Rebuild is about to install
  session,    \* one tracking session's loop
  owed,       \* history: the URLs that had news when PollNow was called
  clashed     \* history: did a Rebuild start projecting while another one
              \* held an overlay of the same timetable not yet installed?

rtVars == <<changed, kicks, seen, feed>>
vars == <<remote, current, overlay, faults, pc, rtVars, version, job,
          session, owed, clashed>>

Nothing == [u \in Urls |-> 0]
NoOverlay == [on |-> 0, ver |-> 0, feeds |-> Nothing]
Timetables == 1..MaxTimetable

Init ==
  /\ remote = [u \in Urls |-> 1]
  /\ current = 1
  /\ overlay = [t \in Timetables |-> NoOverlay]
  /\ faults = 0
  /\ pc = [c \in Callers |-> "idle"]
  /\ changed = [s \in Sources |-> FALSE]
  /\ kicks = {}
  /\ seen = Nothing /\ feed = Nothing
  /\ version = 0
  /\ job = [c \in Callers |-> NoOverlay]
  /\ session = [pc |-> "top", open |-> TRUE, missed |-> FALSE, fixes |-> TRUE,
                tt |-> 0, saw |-> Nothing]
  /\ owed = {}
  /\ clashed = FALSE

Goto(c, label) == pc' = [pc EXCEPT ![c] = label]

\* Contents published after the first ones, and failures.
Events == faults + FoldSet(LAMBDA u, n : n + remote[u] - 1, 0, Urls)
Fault == Events < MaxEvents /\ faults' = faults + 1

-----------------------------------------------------------------------------
(* External. *)

Publish(u) ==
  /\ Events < MaxEvents
  /\ remote' = [remote EXCEPT ![u] = @ + 1]
  /\ UNCHANGED <<current, overlay, faults, pc, rtVars, version, job, session, owed, clashed>>

-----------------------------------------------------------------------------
(* Polling.                                                                *)

News == {u \in Urls : seen[u] # remote[u]}

\* Mutant of PollNow: the channels have no slot, so a wakeup sent while the
\* source is being polled is dropped.
KickDropped ==
  /\ kicks' = {s \in Sources : pc[s] = "idle"}
  /\ owed' = owed \cup News
  /\ UNCHANGED <<remote, current, overlay, faults, pc, changed, seen, feed, version, job, session, clashed>>

\* Fill every wakeup slot that is empty.
PollNow ==
  /\ kicks' = Sources
  /\ owed' = owed \cup News
  /\ UNCHANGED <<remote, current, overlay, faults, pc, changed, seen, feed, version, job, session, clashed>>

\* loop: the ticker fires, or the wakeup is received.
StartPoll(s) ==
  /\ pc[s] = "idle"
  /\ kicks' \in {kicks, kicks \ {s}}
  /\ changed' = [changed EXCEPT ![s] = FALSE]
  /\ Goto(s, "tu")
  /\ UNCHANGED <<remote, current, overlay, faults, seen, feed, version, job, session, owed, clashed>>

\* What pollOnce does after URL u, whether it brought a change or not.
AfterUrl(u, change) ==
  LET s == u[1] IN
  Goto(s, IF u[2] = "tu" /\ <<s, "vp">> \in Urls THEN "vp"
          ELSE IF change THEN "rebuild" ELSE "idle")

\* The content is new and decodes.
PollNew(u) ==
  /\ pc[u[1]] = u[2]
  /\ seen[u] # remote[u]
  /\ seen' = [seen EXCEPT ![u] = remote[u]]
  /\ feed' = [feed EXCEPT ![u] = remote[u]]
  /\ changed' = [changed EXCEPT ![u[1]] = TRUE]
  /\ owed' = owed \ {u}
  /\ AfterUrl(u, TRUE)
  /\ UNCHANGED <<remote, current, overlay, faults, kicks, version, job, session, clashed>>

\* The content is the one already seen.
PollSame(u) ==
  /\ pc[u[1]] = u[2]
  /\ seen[u] = remote[u]
  /\ AfterUrl(u, changed[u[1]])
  /\ UNCHANGED <<remote, current, overlay, faults, rtVars, version, job, session, owed, clashed>>

\* Mutant of PollFails: an error ends the poll, whatever it had stored.
PollAbandoned(u) ==
  /\ pc[u[1]] = u[2]
  /\ Fault
  /\ owed' = owed \ {u}
  /\ Goto(u[1], "idle")
  /\ UNCHANGED <<remote, current, overlay, rtVars, version, job, session, clashed>>

\* The fetch fails (nothing is remembered), or the content does not decode
\* (its hash is: the same bytes will not be tried again).
PollFails(u) ==
  /\ pc[u[1]] = u[2]
  /\ Fault
  /\ \/ seen' = seen
     \/ seen[u] # remote[u] /\ seen' = [seen EXCEPT ![u] = remote[u]]
  /\ owed' = owed \ {u}
  /\ AfterUrl(u, changed[u[1]])
  /\ UNCHANGED <<remote, current, overlay, changed, kicks, feed, version, job, session, clashed>>

-----------------------------------------------------------------------------
(* Rebuild.                                                                *)

\* Mutant of SwapTimetable: the swap is not followed by a re-projection.
SwapAlone ==
  /\ pc[Updater] = "idle"
  /\ current < MaxTimetable
  /\ current' = current + 1
  /\ session' = [session EXCEPT !.missed = TRUE]
  /\ UNCHANGED <<remote, overlay, faults, pc, rtVars, version, job, owed, clashed>>

\* The updater installs a timetable (it has no overlay) and runs OnSwap.
SwapTimetable ==
  /\ pc[Updater] = "idle"
  /\ current < MaxTimetable
  /\ current' = current + 1
  /\ session' = [session EXCEPT !.missed = TRUE]
  /\ Goto(Updater, "rebuild")
  /\ UNCHANGED <<remote, overlay, faults, rtVars, version, job, owed, clashed>>

\* tt := m.TT()
CaptureTimetable(c) ==
  /\ pc[c] = "rebuild"
  /\ job' = [job EXCEPT ![c] = [NoOverlay EXCEPT !.on = current]]
  /\ Goto(c, "build")
  /\ UNCHANGED <<remote, current, overlay, faults, rtVars, version, session, owed, clashed>>

\* First section under mu: the next version, and the projection of all feeds.
BuildOverlay(c) ==
  /\ pc[c] = "build"
  /\ job' = [job EXCEPT ![c].ver = version + 1, ![c].feeds = feed]
  /\ clashed' = (clashed \/ \E d \in Callers :
                              pc[d] = "setRT" /\ job[d].on = job[c].on)
  /\ Goto(c, "setRT")
  /\ UNCHANGED <<remote, current, overlay, faults, rtVars, version, session, owed>>

\* Mutant of SetRT: the timetable is looked up again.
SetRTOnCurrent(c) ==
  /\ pc[c] = "setRT"
  /\ overlay' = [overlay EXCEPT ![current] = job[c]]
  /\ session' = [session EXCEPT !.missed = TRUE]
  /\ Goto(c, "bump")
  /\ UNCHANGED <<remote, current, faults, rtVars, version, job, owed, clashed>>

\* tt.SetRT(o), under no lock.
SetRT(c) ==
  /\ pc[c] = "setRT"
  /\ overlay' = [overlay EXCEPT ![job[c].on] = job[c]]
  /\ session' = [session EXCEPT !.missed = TRUE]
  /\ Goto(c, "bump")
  /\ UNCHANGED <<remote, current, faults, rtVars, version, job, owed, clashed>>

\* Mutant of BumpVersion: a version that is no news does not wake anyone.
BumpQuietly(c) ==
  /\ pc[c] = "bump"
  /\ version' = job[c].ver
  /\ Goto(c, IF version' > version THEN "broadcast" ELSE "idle")
  /\ UNCHANGED <<remote, current, overlay, faults, rtVars, job, session, owed, clashed>>

\* m.version.Store(ver), under no lock.
BumpVersion(c) ==
  /\ pc[c] = "bump"
  /\ version' = job[c].ver
  /\ Goto(c, "broadcast")
  /\ UNCHANGED <<remote, current, overlay, faults, rtVars, job, session, owed, clashed>>

\* Second section under mu: close the channel, open the next.  A poller's
\* flag dies with its pollOnce.
Broadcast(c) ==
  /\ pc[c] = "broadcast"
  /\ session' = [session EXCEPT !.open = FALSE]
  /\ job' = [job EXCEPT ![c] = NoOverlay]
  /\ changed' = [s \in Sources |-> s # c /\ changed[s]]
  /\ Goto(c, "idle")
  /\ UNCHANGED <<remote, current, overlay, faults, kicks, seen, feed, version, owed, clashed>>

-----------------------------------------------------------------------------
(* A tracking session (internal/track Run): evaluate against the timetable *)
(* and its overlay, take the channel of the next change, wait.             *)

\* changed = Mgr.Changed(), the channel open at this moment; missed is reset
\* and records whether the live data changes from here on.
Subscribe ==
  /\ session.pc = "subscribe"
  /\ session' = [session EXCEPT !.pc = "select", !.open = TRUE, !.missed = FALSE]
  /\ UNCHANGED <<remote, current, overlay, faults, pc, rtVars, version, job, owed, clashed>>

\* Mutant of Wake: the session keeps the first timetable it saw.
WakeOnFirst ==
  /\ session.pc \in {"top", "select"}
  /\ session' = [session EXCEPT !.pc = "evaluate",
                                !.tt = IF session.tt = 0 THEN current ELSE session.tt]
  /\ UNCHANGED <<remote, current, overlay, faults, pc, rtVars, version, job, owed, clashed>>

\* The channel is closed, or the session's own ticker (or a GPS fix, or a
\* GBFS change) ends the select: evaluate loads the timetable bundle.
Wake ==
  /\ session.pc \in {"top", "select"}
  /\ session' = [session EXCEPT !.pc = "evaluate", !.tt = current]
  /\ UNCHANGED <<remote, current, overlay, faults, pc, rtVars, version, job, owed, clashed>>

\* The client has stopped sending fixes: once, the select is taken up again
\* without an evaluation.
FixesClosed ==
  /\ session.pc = "select"
  /\ session.fixes
  /\ session' = [session EXCEPT !.pc = "subscribe", !.fixes = FALSE]
  /\ UNCHANGED <<remote, current, overlay, faults, pc, rtVars, version, job, owed, clashed>>

\* ... and its overlay.
Evaluate ==
  /\ session.pc = "evaluate"
  /\ session' = [session EXCEPT !.pc = "subscribe", !.saw = overlay[session.tt].feeds]
  /\ UNCHANGED <<remote, current, overlay, faults, pc, rtVars, version, job, owed, clashed>>

-----------------------------------------------------------------------------
Poll(s) ==
  \/ StartPoll(s)
  \/ \E u \in Urls : u[1] = s /\ (PollNew(u) \/ PollSame(u) \/ PollFails(u))

Rebuild(c) ==
  \/ CaptureTimetable(c) \/ BuildOverlay(c) \/ SetRT(c) \/ BumpVersion(c) \/ Broadcast(c)

Session == Subscribe \/ Wake \/ FixesClosed \/ Evaluate

Next ==
  \/ \E u \in Urls : Publish(u)
  \/ PollNow
  \/ SwapTimetable
  \/ \E s \in Sources : Poll(s)
  \/ \E c \in Callers : Rebuild(c)
  \/ Session

Spec == Init /\ [][Next]_vars

\* Tickers fire and goroutines run: pollers, rebuilds and the session go on.
\* Nothing obliges anyone to publish, to swap or to call PollNow.
Fairness ==
  /\ \A s \in Sources : WF_vars(Poll(s))
  /\ \A c \in Callers : WF_vars(Rebuild(c))
  /\ WF_vars(Session)

FairSpec == Spec /\ Fairness

-----------------------------------------------------------------------------
(* Properties.                                                             *)

CallerLabels == {"idle", "tu", "vp", "rebuild", "build", "setRT", "bump", "broadcast"}
Overlay == [on : 0..MaxTimetable, ver : Nat, feeds : [Urls -> Nat]]

\* Every variable has its type (manager.go's Manager, the locals of pollOnce
\* and Rebuild, the session's loop); what Rebuild is about to install belongs
\* to some timetable.
TypeOK ==
  /\ remote \in [Urls -> Nat] /\ current \in Timetables
  /\ overlay \in [Timetables -> Overlay]
  /\ faults \in Nat
  /\ pc \in [Callers -> CallerLabels]
  /\ changed \in [Sources -> BOOLEAN] /\ kicks \subseteq Sources
  /\ seen \in [Urls -> Nat] /\ feed \in [Urls -> Nat]
  /\ version \in Nat
  /\ job \in [Callers -> Overlay]
  /\ \A c \in Callers : pc[c] \in {"build", "setRT", "bump"} => job[c].on \in Timetables
  /\ session \in [pc : {"top", "subscribe", "select", "evaluate"}, open : BOOLEAN,
                  missed : BOOLEAN, fixes : BOOLEAN, tt : 0..MaxTimetable,
                  saw : [Urls -> Nat]]
  /\ session.pc = "evaluate" => session.tt \in Timetables
  /\ owed \subseteq Urls /\ clashed \in BOOLEAN

\* An overlay is indexed by the trips of one timetable: it is never installed
\* on another, even when the timetable is swapped between the projection and
\* SetRT (Rebuild).
OverlayFitsTimetable == \A t \in Timetables : overlay[t].on \in {0, t}

\* Outside the updater's swap-then-reproject window, a timetable that replaced
\* another carries an overlay: live data does not vanish with the swap.
ReprojectedAfterSwap ==
  pc[Updater] = "idle" /\ current > 1 => overlay[current] # NoOverlay

\* A goroutine that has stored something, or swapped the timetable, and has
\* not yet installed its projection.
Projecting(c) ==
  \/ pc[c] \in {"rebuild", "build", "setRT"}
  \/ c \in Sources /\ changed[c] /\ pc[c] \in Kinds

\* A decoded feed reaches the overlay of the current timetable, whatever polls,
\* swaps and failures come in between, unless two Rebuilds clashed: built in
\* one order and installed in the other, the older one stays.
LostOnlyByClash ==
  ~clashed /\ (\A c \in Callers : ~Projecting(c)) => overlay[current].feeds = feed

\* A session waiting on a channel that is still open sleeps through nothing:
\* whatever was swapped in or installed since it took the channel is about to
\* be broadcast (Rebuild installs first and closes the channel after).
NoSilentChange ==
  session.pc = "select" /\ session.open /\ session.missed =>
    \E c \in Callers : pc[c] \in {"rebuild", "build", "setRT", "bump", "broadcast"}

\* PollNow is never lost: when its wakeup is consumed and the poll is over,
\* every content published before the call has been fetched, or tried.
WakeupFetches ==
  \A u \in Urls : pc[u[1]] = "idle" /\ u[1] \notin kicks => u \notin owed

\* Once the world stands still, a session evaluates the newest contents of
\* every URL on the current timetable, unless a decode failed (the same bytes
\* are not tried again) or two Rebuilds clashed.
SessionCatchesUp ==
  <>[](faults = 0 /\ ~clashed => session.tt = current /\ session.saw = remote)

\* "Rebuild projects the latest feeds onto the CURRENT timetable and swaps the
\* overlay in" (manager.go): when nobody is rebuilding, the live overlay is the
\* projection of the feeds last decoded.
LatestFeedsProjected ==
  (\A c \in Callers : ~Projecting(c)) => overlay[current].feeds = feed

-----------------------------------------------------------------------------
(* The inductive invariant behind the safety properties (RTManagerProofs). *)

\* Nothing is seen before it is published; a URL that had news when PollNow
\* was called still has it, and its source is about to be polled.
OwedInv ==
  /\ \A u \in Urls : seen[u] <= remote[u]
  /\ \A u \in owed : /\ seen[u] # remote[u]
                     /\ \/ u[1] \in kicks
                        \/ pc[u[1]] = "tu"
                        \/ pc[u[1]] = "vp" /\ u[2] = "vp"

\* The updater projects onto the timetable it has just installed.
UpdaterInv ==
  /\ pc[Updater] \notin Kinds
  /\ pc[Updater] \in {"build", "setRT"} => job[Updater].on = current
  /\ pc[Updater] \in {"idle", "bump", "broadcast"} /\ current > 1 =>
       overlay[current].on = current

\* Goroutine c has yet to project the newest feeds onto the current timetable.
Due(c) ==
  \/ pc[c] = "rebuild"
  \/ pc[c] = "build" /\ job[c].on = current
  \/ c \in Sources /\ changed[c] /\ pc[c] \in Kinds

\* Goroutine c holds an overlay of the current timetable, not yet installed.
Holding(c) == pc[c] = "setRT" /\ job[c].on = current

\* Without a clash, what is served, or about to be, is older than the feeds
\* only while somebody is due.
ProjectInv ==
  ~clashed /\ (\A c \in Callers : ~Due(c)) =>
    /\ \A c \in Callers : Holding(c) => job[c].feeds = feed
    /\ (\A c \in Callers : ~Holding(c)) => overlay[current].feeds = feed

IInv ==
  /\ TypeOK /\ OverlayFitsTimetable /\ OwedInv /\ UpdaterInv /\ NoSilentChange
  /\ ProjectInv
====
