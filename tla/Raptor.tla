---- MODULE Raptor ----
(***************************************************************************)
(* One RAPTOR state of raptor.go, answering queries one after the other on *)
(* a compiled timetable, while the realtime overlay may be swapped under   *)
(* it.  Plan is split where it reads the overlay: one step seeds, one step *)
(* queues the patterns of a round, one step scans a pattern, one walks     *)
(* from the improved stops, one extracts.                                  *)
(***************************************************************************)
EXTENDS Overlay

CONSTANT
  Networks      \* the networks that the updater may install

ASSUME TimetablesAssumption ==
  \A n \in Networks : IsCompiled(n.tt) /\ n.foot \in [1..n.tt.nstops -> [1..n.tt.nstops -> Nat]]

ASSUME MessagesAssumption ==
  \A n \in Networks : n.now \in Int /\ \A messages \in n.messages : AreMessages(messages)

\* A network is [name, tt, foot, messages, now, ...], see MCPlanner.  foot[s][d]: the seconds
\* of the footpath from s to d, Inf where there is none (none leads from a stop
\* to itself).  messages: what the realtime manager may hear, now: when it does.
\* A query is [sources, targets, today, yesterday, maxRides, slack, entry, change]:
\* sources: per stop [sec, rail, arr], targets: per stop the egress in seconds,
\* today, yesterday: the active services; slack, entry, change: SlackSec,
\* RailEntrySec, RailTransferSec.

VARIABLES
  net, heard, ov, swapped, \* the network, the messages heard, the overlay projected from them, and
                           \* whether that changed under the request
  q, pc, round,            \* the query, the stage of Plan, and the round k
  lab,                     \* tau, kind, ptrip, pboard, pfrom, pday: label per round and stop
  best,                    \* tauBest
  marked, markList,        \* the marked stops, as flags and in order
  patMin, patList,         \* per pattern the position to scan from, and the patterns queued
  upper,                   \* btUB
  arrAt, targetAt,         \* per round the best arrival, and its target
  journeys

scratch == <<lab, best, marked, markList, patMin, patList>>
answers == <<upper, arrAt, targetAt, journeys>>
raptorVars == <<q, pc, round, scratch, answers>>

tt == net.tt
Stops == StopsOf(tt)
Pats == 1..Len(tt.pats)
Rail(t) == tt.pats[PatternOfTrip(tt, t)].rail
Less(a, b) == IF a < b THEN a ELSE b
MinOf(S) == CHOOSE x \in S : \A y \in S : x <= y
MaxOf(S) == CHOOSE x \in S : \A y \in S : x >= y

NoLabel == [time |-> Inf, kind |-> "none", trip |-> 0, board |-> 0, from |-> 0, day |-> 0]
NoQuery == [sources |-> <<>>, targets |-> <<>>, today |-> {}, yesterday |-> {},
            maxRides |-> 1, slack |-> 0, entry |-> 0, change |-> 0]

Marks(m, s) == IF s \in m.set THEN m ELSE [set |-> m.set \cup {s}, list |-> Append(m.list, s)]

-----------------------------------------------------------------------------
(* What a label says of how the rider came: rows are the labels of a round *)

\* priorRide: the ride behind a label, through one footpath at most.
PriorRide(row, s) ==
  LET at == IF row[s].kind = "xfer" THEN row[s].from ELSE s
  IN  [ok |-> row[at].kind = "ride", trip |-> row[at].trip, arr |-> row[at].time]

\* priorRailSource: the incoming train of an onboard replan's source.
PriorRailSource(row, s) ==
  LET at == IF row[s].kind = "xfer" THEN row[s].from ELSE s
  IN  [ok  |-> row[at].kind = "access" /\ q.sources[at].rail,
       arr |-> IF row[at].kind = "access" THEN q.sources[at].arr ELSE 0]

\* Mutant: walking ends the obligation to change platforms in time.
MutWaitAt(row, s, rail) ==
  IF row[s].kind = "ride" THEN q.slack ELSE IF rail THEN q.entry ELSE 0

\* What a rider labelled row[s] must wait before boarding at s.
WaitAt(row, s, rail) ==
  LET prior  == PriorRide(row, s)
      source == PriorRailSource(row, s)
      slack  == IF prior.ok /\ (~rail \/ row[s].kind = "ride") THEN q.slack ELSE 0
      Until(arr) == MaxOf({slack, arr + q.change - row[s].time})
  IN  CASE ~rail                        -> slack
        [] rail /\ source.ok            -> Until(source.arr)
        [] rail /\ ~source.ok /\ prior.ok /\ Rail(prior.trip) -> Until(prior.arr)
        [] OTHER                        -> MaxOf({slack, q.entry})

-----------------------------------------------------------------------------
(* scanPattern, one position at a time: acc carries the trip held and what *)
(* the round has written.                                                  *)

Usable(t, active) == tt.trips[t].service \in active /\ ~TripSkipped(ov, t)
Boardable(t, pos, active) == Usable(t, active) /\ ~StopSkipped(ov, t, pos)
Catchable(t, pos, day, ready) == TripDep(tt, ov, t, pos) + day >= ready

DropAt(acc, pos, s, day) ==
  LET arr == AddDay(TripArr(tt, ov, acc.trip, pos), day)
  IN  IF ~(arr < acc.best[s] /\ arr < upper) THEN acc
      ELSE [acc EXCEPT
              !.row[s] = [time |-> arr, kind |-> "ride", trip |-> acc.trip,
                          board |-> acc.board, from |-> acc.boardStop, day |-> day],
              !.best[s] = arr, !.marks = Marks(acc.marks, s)]

AlightAt(acc, pos, s, day) ==
  IF acc.trip = 0 \/ StopSkipped(ov, acc.trip, pos) THEN acc ELSE DropAt(acc, pos, s, day)

\* The first trip that can be caught, or when one is held the earliest before
\* it with every boardable trip between still catchable; 0 for none.
CatchAt(held, p, pos, active, day, ready) ==
  LET trips  == tt.pats[p].lo..(IF held = 0 THEN tt.pats[p].hi ELSE held - 1)
      board  == {t \in trips : Boardable(t, pos, active)}
      catch  == {t \in board : Catchable(t, pos, day, ready)}
      lost   == board \ catch
      after  == IF held = 0 \/ lost = {} THEN catch ELSE {t \in catch : t > MaxOf(lost)}
  IN  IF after = {} THEN 0 ELSE MinOf(after)

BoardAt(acc, p, pos, s, active, day) ==
  LET row   == lab[round - 1]
      ready == row[s].time + WaitAt(row, s, tt.pats[p].rail)
      t     == CatchAt(acc.trip, p, pos, active, day, ready)
  IN  IF row[s].time >= Inf \/ t = 0 THEN acc
      ELSE [acc EXCEPT !.trip = t, !.board = pos, !.boardStop = s]

ServeStop(acc, line, pos, s) ==
  BoardAt(AlightAt(acc, pos, s, line.day), line.pat, pos, s, line.active, line.day)

\* line: [pat, active, day], a pattern on one service day.
ScanPattern(acc0, line, start) ==
  LET stops == tt.pats[line.pat].stops
  IN  FoldLeft(LAMBDA acc, pos : ServeStop(acc, line, pos, stops[pos]),
               [row |-> acc0.row, best |-> acc0.best, marks |-> acc0.marks,
                trip |-> 0, board |-> 0, boardStop |-> 0],
               [i \in 1..(Len(stops) - start + 1) |-> start + i - 1])

-----------------------------------------------------------------------------
(* Footpaths: from the stops of a list in order, each to the others.       *)

\* way: [from, ub], where the walks begin and what they must beat.
WalkOnce(acc, way, d) ==
  LET s    == way.from
      cand == acc.row[s].time + net.foot[s][d]
  IN  IF net.foot[s][d] >= Inf \/ ~(cand < acc.row[d].time /\ cand < acc.best[d] /\ cand < way.ub)
      THEN acc
      ELSE [acc EXCEPT !.row[d] = [@ EXCEPT !.time = cand, !.kind = "xfer", !.from = s],
                       !.best[d] = cand, !.marks = Marks(acc.marks, d)]

WalkAround(acc0, way) == FoldLeft(LAMBDA acc, d : WalkOnce(acc, way, d), acc0, Ascending(tt.nstops))

Walk(acc0, list, ub, Departs(_, _)) ==
  FoldLeft(LAMBDA acc, s : IF ~Departs(acc.row, s) THEN acc ELSE WalkAround(acc, [from |-> s, ub |-> ub]),
           acc0, list)

-----------------------------------------------------------------------------
(* evalTargets                                                             *)

ArrivalAt(row, t) == IF row[t].time >= Inf THEN Inf ELSE row[t].time + q.targets[t]
BestTargets(row) ==
  {t \in DOMAIN q.targets : ArrivalAt(row, t) < Inf /\ \A u \in DOMAIN q.targets :
                              ArrivalAt(row, t) <= ArrivalAt(row, u)}

\* The map of targets is visited in any order.
EvalTargets(k, row) ==
  LET targets == BestTargets(row)
  IN  \E t \in IF targets = {} THEN {0} ELSE targets :
        LET arr == IF t = 0 THEN Inf ELSE ArrivalAt(row, t)
        IN  /\ arrAt' = [arrAt EXCEPT ![k] = arr]
            /\ targetAt' = [targetAt EXCEPT ![k] = t]
            /\ upper' = Less(upper, arr)

-----------------------------------------------------------------------------
(* extract: from the target back to a source, through ever earlier rounds. *)

\* Mutant: the first visit, also one before boarding.
MutPosInPattern(p, s, after) == SelectInSeq(tt.pats[p].stops, LAMBDA x : x = s)

\* posInPattern: the first visit to s after boarding, else any.
PosInPattern(p, s, after) ==
  LET at == {i \in 1..Len(tt.pats[p].stops) : tt.pats[p].stops[i] = s}
      later == {i \in at : i > after}
  IN  IF later # {} THEN MinOf(later) ELSE MinOf(at)

ParentOf(b) ==
  LET l == lab[b.k][b.s]
  IN  IF l.kind = "xfer"
      THEN [b EXCEPT !.s = l.from,
                     !.legs = <<[ride |-> FALSE, from |-> l.from, to |-> b.s,
                                 sec |-> l.time - lab[b.k][l.from].time]>> \o @]
      ELSE [b EXCEPT !.s = l.from, !.k = @ - 1,
                     !.legs = <<[ride |-> TRUE, trip |-> l.trip, board |-> l.board, day |-> l.day,
                                 alight |-> PosInPattern(PatternOfTrip(tt, l.trip), b.s, l.board)]>>
                              \o @]

\* As many steps back as a chain of rides and footpaths can need.
Extract(k, target) ==
  LET back[n \in 0..(tt.nstops + 2) * (k + 1)] ==
        IF n = 0 THEN [k |-> k, s |-> target, legs |-> <<>>]
        ELSE LET b == back[n - 1]
             IN  IF b.k < 0 \/ lab[b.k][b.s].kind \in {"access", "none"} THEN b ELSE ParentOf(b)
      end == back[(tt.nstops + 2) * (k + 1)]
  IN  [ok |-> end.k >= 0 /\ lab[end.k][end.s].kind = "access", legs |-> end.legs]

RideCount(legs) == Cardinality({i \in 1..Len(legs) : legs[i].ride})

\* Rounds that arrive strictly before every earlier one, the last being k.
Improves(k) == \A j \in 0..(k - 1) : arrAt[k] < arrAt[j]

-----------------------------------------------------------------------------
(* Steps                                                                   *)

\* A new state, with no query yet; Put leaves used ones as clean.
FreshRaptor(n) ==
  /\ q' = NoQuery /\ pc' = "idle" /\ round' = 0
  /\ lab' = <<>> /\ best' = [s \in StopsOf(n.tt) |-> 0]
  /\ marked' = {} /\ markList' = <<>> /\ patMin' = [p \in 1..Len(n.tt.pats) |-> 0] /\ patList' = <<>>
  /\ upper' = Inf /\ arrAt' = <<>> /\ targetAt' = <<>> /\ journeys' = <<>>

RaptorInit ==
  /\ q = NoQuery /\ pc = "idle" /\ round = 0
  /\ lab = <<>> /\ best = [s \in Stops |-> 0]
  /\ marked = {} /\ markList = <<>> /\ patMin = [p \in Pats |-> 0] /\ patList = <<>>
  /\ upper = Inf /\ arrAt = <<>> /\ targetAt = <<>> /\ journeys = <<>>

\* Only a rider who leaves a train walks before the first ride.
WalksFirst(row, s) == row[s].kind = "access" /\ q.sources[s].rail

Seed(query) ==
  /\ pc = "idle"
  /\ q' = query
  /\ LET seeded == [s \in Stops |->
                      IF s \in DOMAIN query.sources
                      THEN [NoLabel EXCEPT !.time = query.sources[s].sec, !.kind = "access"]
                      ELSE NoLabel]
         list   == AscendingIn(tt.nstops, DOMAIN query.sources)
     IN  /\ lab' = [k \in 0..query.maxRides |->
                      IF k = 0 THEN seeded
                      ELSE IF k \in DOMAIN lab THEN lab[k] ELSE [s \in Stops |-> NoLabel]]
         /\ best' = [s \in Stops |-> seeded[s].time]
         /\ markList' = list /\ marked' = marked \cup DOMAIN query.sources
  /\ arrAt' = [k \in 0..query.maxRides |-> Inf] /\ targetAt' = [k \in 0..query.maxRides |-> 0]
  /\ upper' = Inf /\ journeys' = <<>>
  /\ pc' = "sourceWalks" /\ round' = 0
  /\ UNCHANGED <<net, heard, ov, swapped, patMin, patList>>

\* What a round has written so far, and what a step adds to it.
Round(k) == [row |-> lab[k], best |-> best, marks |-> [set |-> marked, list |-> markList]]
Write(k, acc) ==
  /\ lab' = [lab EXCEPT ![k] = acc.row] /\ best' = acc.best
  /\ marked' = acc.marks.set /\ markList' = acc.marks.list

SourceWalks ==
  /\ pc = "sourceWalks"
  /\ LET acc == Walk(Round(0), markList, Inf, WalksFirst)
     IN  Write(0, acc) /\ EvalTargets(0, acc.row)
  /\ pc' = "round" /\ round' = 1
  /\ UNCHANGED <<net, heard, ov, swapped, q, patMin, patList, journeys>>

\* A pattern is queued once, from its earliest marked position.
Queue(acc, at) ==
  IF acc.min[at.pat] = 0
  THEN [min |-> [acc.min EXCEPT ![at.pat] = at.pos], list |-> Append(acc.list, at.pat)]
  ELSE [acc EXCEPT !.min[at.pat] = Less(@, at.pos)]

BeginRound ==
  /\ pc = "round"
  /\ lab' = [lab EXCEPT ![round] = lab[round - 1]]
  /\ LET serving == Joined([i \in 1..Len(markList) |-> PatternsOf(tt, markList[i])])
         queue   == FoldLeft(Queue, [min |-> patMin, list |-> <<>>], serving)
     IN  patMin' = queue.min /\ patList' = queue.list
  /\ marked' = marked \ ToSet(markList) /\ markList' = <<>>
  /\ pc' = "scan"
  /\ UNCHANGED <<net, heard, ov, swapped, q, round, best, answers>>

Scanned(p) == [patMin EXCEPT ![p] = 0]

\* Both service days of the pattern that is queued first, yesterday's before today's.
Scan ==
  /\ pc = "scan" /\ patList # <<>>
  /\ LET p == Head(patList)
         Line(active, day) == [pat |-> p, active |-> active, day |-> day]
         days == ScanPattern(ScanPattern(Round(round), Line(q.yesterday, -DaySec), patMin[p]),
                             Line(q.today, 0), patMin[p])
     IN  Write(round, days) /\ patMin' = Scanned(p)
  /\ patList' = Tail(patList)
  /\ UNCHANGED <<net, heard, ov, swapped, q, pc, round, answers>>

Rode(row, s) == row[s].kind = "ride"

WalkOn ==
  /\ pc = "scan" /\ patList = <<>>
  /\ LET acc == Walk(Round(round), markList, upper, Rode)
     IN  /\ Write(round, acc) /\ EvalTargets(round, acc.row)
         /\ IF acc.marks.list = <<>> \/ round = q.maxRides
            THEN pc' = "extract" /\ round' = round
            ELSE pc' = "round" /\ round' = round + 1
  /\ UNCHANGED <<net, heard, ov, swapped, q, patMin, patList, journeys>>

Finish ==
  /\ pc = "extract"
  /\ LET found == {k \in 1..q.maxRides : Improves(k) /\ Extract(k, targetAt[k]).ok}
         rounds == AscendingIn(q.maxRides, found)
     IN  journeys' = [i \in 1..Len(rounds) |->
                        LET k == rounds[i]
                            legs == Extract(k, targetAt[k]).legs
                        IN  [rides |-> RideCount(legs), arr |-> arrAt[k],
                             target |-> targetAt[k], legs |-> legs]]
  /\ marked' = marked \ ToSet(markList) /\ markList' = <<>>
  /\ pc' = "answered"
  /\ UNCHANGED <<net, heard, ov, swapped, q, round, lab, best, patMin, patList, upper, arrAt, targetAt>>

RaptorStep == SourceWalks \/ BeginRound \/ Scan \/ WalkOn \/ Finish
====
